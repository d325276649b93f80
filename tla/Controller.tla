------------------------------ MODULE Controller ------------------------------
(***************************************************************************)
(* The Generation Controller's loop and its clients                         *)
(* (crates/lenso-plugin-control-plane/src/controller.rs, lenso/src/host.rs): *)
(* a bounded command channel, a watch that carries the first suspension     *)
(* deadline, one that carries the result, and the replies owed.             *)
(*                                                                          *)
(* What the Supervisor does in a command or a maintenance pass is           *)
(* DurableSupervisor; here an operation takes a while and then succeeds or   *)
(* fails.  "work" stands for transition, rollback, route and inspect.       *)
(***************************************************************************)
EXTENDS Naturals, Sequences

CONSTANTS
    Calls,         \* calls that clients may make, one each
    None,
    QueueCapacity  \* mpsc::channel(64)

ASSUME QueueAssumption == QueueCapacity \in Nat \ {0}
ASSUME CallsAssumption ==
    None \notin Calls \union {"work", "suspend", "shutdown", "drain", "done", "error", "stopped",
                              "rejected", "suspended", "retired", "failed", "panicked"}

VARIABLES
    kind,     \* kind[c]: what call c asks for, None until it is made
    at,       \* at[c]: how far call c is
    answer,   \* answer[c]: what its caller was told
    queue,    \* commands sent and not received
    open,     \* the command channel admits senders
    clients,  \* a client handle exists
    request,  \* the drain call whose deadline the suspension watch holds
    result,   \* the suspension result watch
    loop,     \* where run() is
    current,  \* the command being handled
    closing,  \* shutting_down
    owed,     \* shutdown_replies
    outcome   \* what run() returned

calls   == <<kind, at, answer>>
channel == <<queue, open, clients>>
watches == <<request, result>>
task    == <<loop, current, closing, owed, outcome>>
vars    == <<kind, at, answer, queue, open, clients, request, result,
             loop, current, closing, owed, outcome>>

Commands == {"work", "suspend", "shutdown"}
Kinds    == Commands \union {"drain"}
Pending  == {"sending", "waiting"}

Init ==
    /\ kind = [c \in Calls |-> None]
    /\ at = [c \in Calls |-> "new"]
    /\ answer = [c \in Calls |-> None]
    /\ queue = <<>> /\ open = TRUE /\ clients = TRUE
    /\ request = None /\ result = None
    /\ loop = "select" /\ current = None /\ closing = FALSE /\ owed = {} /\ outcome = None

-----------------------------------------------------------------------------
(* Clients                                                                  *)

\* The replies of the calls in S are sent; a caller that left hears nothing.
Answer(S, a) ==
    /\ at' = [c \in Calls |-> IF c \in S /\ at[c] = "waiting" THEN "answered" ELSE at[c]]
    /\ answer' = [c \in Calls |-> IF c \in S /\ at[c] = "waiting" THEN a ELSE answer[c]]
    /\ UNCHANGED kind

\* The first drain_and_suspend fixes the deadline, the others join it; a
\* command waits for room in the channel.
Call(c, k) ==
    /\ at[c] = "new" /\ clients
    /\ kind' = [kind EXCEPT ![c] = k]
    /\ at' = [at EXCEPT ![c] = IF k = "drain" THEN "waiting" ELSE "sending"]
    /\ request' = IF k = "drain" /\ request = None /\ result = None THEN c ELSE request
    /\ UNCHANGED <<answer, result, channel, task>>

\* send waits for room; the command is in the channel from here on.
Enqueue(c) ==
    /\ at[c] = "sending" /\ open /\ Len(queue) < QueueCapacity
    /\ queue' = Append(queue, c)
    /\ at' = [at EXCEPT ![c] = "waiting"]
    /\ UNCHANGED <<kind, answer, open, clients, watches, task>>

SendFails(c) ==
    /\ at[c] = "sending" /\ ~open
    /\ at' = [at EXCEPT ![c] = "answered"]
    /\ answer' = [answer EXCEPT ![c] = "stopped"]
    /\ UNCHANGED <<kind, channel, watches, task>>

\* Mutant: the end of the Controller is looked at before the result.
JoinStoppedFirst(c) ==
    /\ at[c] = "waiting" /\ kind[c] = "drain"
    /\ \/ loop = "ended" /\ Answer({c}, "stopped")
       \/ loop # "ended" /\ result # None /\ Answer({c}, result)
    /\ UNCHANGED <<channel, watches, task>>

\* Mutant: the closed watch does not end the wait.
JoinUntilResult(c) ==
    /\ at[c] = "waiting" /\ kind[c] = "drain"
    /\ result # None /\ Answer({c}, result)
    /\ UNCHANGED <<channel, watches, task>>

\* drain_and_suspend returns the result, or finds its watch closed.
Join(c) ==
    /\ at[c] = "waiting" /\ kind[c] = "drain"
    /\ \/ result # None /\ Answer({c}, result)
       \/ result = None /\ loop = "ended" /\ Answer({c}, "stopped")
    /\ UNCHANGED <<channel, watches, task>>

\* A caller drops its future: what it sent stays sent.
Abandon(c) ==
    /\ at[c] \in Pending
    /\ at' = [at EXCEPT ![c] = "left"]
    /\ UNCHANGED <<kind, answer, channel, watches, task>>

\* The last client handle is dropped.
DropClients ==
    /\ clients /\ \A c \in Calls : at[c] \notin Pending
    /\ clients' = FALSE
    /\ UNCHANGED <<calls, queue, open, watches, task>>

-----------------------------------------------------------------------------
(* run                                                                      *)

Queued == {queue[i] : i \in DOMAIN queue}

\* run returns o: the receiver goes, and with it every reply not sent; the
\* calls in S have been sent a.
Return(o, S, a) ==
    /\ loop' = "ended" /\ outcome' = o
    /\ current' = None /\ owed' = {}
    /\ queue' = <<>> /\ open' = FALSE
    /\ LET dropped == (Queued \union owed \union {current}) \ S
       IN  /\ at' = [c \in Calls |-> IF c \in S \union dropped /\ at[c] = "waiting"
                                     THEN "answered" ELSE at[c]]
           /\ answer' = [c \in Calls |-> IF at[c] # "waiting" THEN answer[c]
                                         ELSE IF c \in S THEN a
                                         ELSE IF c \in dropped THEN "stopped"
                                         ELSE answer[c]]
    /\ UNCHANGED <<kind, clients, request, closing>>

Select == loop' = "select" /\ current' = None

\* First branch of the biased select: a suspension closes the channel and
\* drops what is queued; otherwise the other branches are polled.
Poll ==
    /\ loop = "select"
    /\ IF request # None /\ ~closing
       THEN /\ loop' = "draining" /\ open' = FALSE /\ queue' = <<>>
            /\ Answer(Queued, "stopped")
       ELSE /\ loop' = "rest"
            /\ UNCHANGED <<calls, queue, open>>
    /\ UNCHANGED <<clients, watches, current, closing, owed, outcome>>

\* Mutant: the Controller goes on after a suspension that failed.
FinishDrainSurvives ==
    /\ loop = "draining"
    /\ \/ result' = "suspended" /\ Return("suspended", {}, None)
       \/ result' = "error" /\ loop' = "select" /\ UNCHANGED <<calls, channel, request, current,
                                                               closing, owed, outcome>>

\* drain_and_suspend_host returned; the Controller ends either way.
FinishDrain ==
    /\ loop = "draining"
    /\ \/ result' = "suspended" /\ Return("suspended", {}, None)
       \/ result' = "error" /\ Return("failed", {}, None)

\* The interval fires.
Tick ==
    /\ loop = "rest"
    /\ loop' = "maintaining"
    /\ UNCHANGED <<calls, channel, watches, current, closing, owed, outcome>>

\* After a pass, or after begin_shutdown: every slot is gone.
Retired == Return("retired", owed, "retired") /\ UNCHANGED result

FinishTick ==
    /\ loop = "maintaining"
    /\ \/ Select /\ UNCHANGED <<calls, channel, watches, closing, owed, outcome>>
       \/ closing /\ Retired
       \/ Return("failed", owed, "error") /\ UNCHANGED result

\* Mutant: what was queued before the shutdown is still handled.
ReceiveWhileClosing ==
    /\ loop = "rest" /\ queue # <<>>
    /\ current' = Head(queue) /\ queue' = Tail(queue)
    /\ loop' = "executing"
    /\ UNCHANGED <<calls, open, clients, watches, closing, owed, outcome>>

\* A command is received; the receiver is not polled while shutting down.
Receive ==
    /\ loop = "rest" /\ ~closing /\ queue # <<>>
    /\ current' = Head(queue) /\ queue' = Tail(queue)
    /\ loop' = "executing"
    /\ UNCHANGED <<calls, open, clients, watches, closing, owed, outcome>>

\* No branch is ready.
Park ==
    /\ loop = "rest"
    /\ closing \/ (queue = <<>> /\ clients)
    /\ loop' = "select"
    /\ UNCHANGED <<calls, channel, watches, current, closing, owed, outcome>>

\* The operation succeeds or fails; a clock before 1970 ends the Controller
\* and the caller is not told why.
FinishWork ==
    /\ loop = "executing" /\ kind[current] = "work"
    /\ \/ /\ Answer({current}, "done") \/ Answer({current}, "error")
          /\ Select
          /\ UNCHANGED <<channel, watches, closing, owed, outcome>>
       \/ Return("failed", {}, None) /\ UNCHANGED result

\* suspend: a rejection (leases are open, or fenced) does not end the Host.
FinishSuspend ==
    /\ loop = "executing" /\ kind[current] = "suspend"
    /\ \/ Return("suspended", {current}, "suspended") /\ UNCHANGED result
       \/ Return("failed", {current}, "error") /\ UNCHANGED result
       \/ /\ Answer({current}, "rejected") /\ Select
          /\ UNCHANGED <<channel, watches, closing, owed, outcome>>

\* start_shutdown on behalf of the calls in S.
StartShutdown(S) ==
    \/ /\ closing' = TRUE /\ open' = FALSE /\ owed' = owed \union S
       /\ Select
       /\ UNCHANGED <<calls, queue, clients, watches, outcome>>
    \/ Return("failed", S, "error") /\ UNCHANGED result
    \/ Return("retired", S, "retired") /\ UNCHANGED result

\* The shutdown begins and its reply is owed; it may fail, or be over at once.
FinishShutdown ==
    /\ loop = "executing" /\ kind[current] = "shutdown"
    /\ StartShutdown({current})

\* recv returns None: every client handle is gone.
ChannelClosed ==
    /\ loop = "rest" /\ ~closing /\ queue = <<>> /\ ~clients
    /\ StartShutdown({})

\* An expect() of the Supervisor fails in a pass or a command.
Panic ==
    /\ loop \in {"maintaining", "executing"}
    /\ Return("panicked", {}, None) /\ UNCHANGED result

-----------------------------------------------------------------------------
Run == Poll \/ FinishDrain \/ Tick \/ FinishTick \/ Receive \/ Park
       \/ FinishWork \/ FinishSuspend \/ FinishShutdown \/ ChannelClosed

Client(c) ==
    \/ \E k \in Kinds : Call(c, k)
    \/ Enqueue(c) \/ SendFails(c) \/ Join(c) \/ Abandon(c)

Next == Run \/ Panic \/ DropClients \/ \E c \in Calls : Client(c)

Spec == Init /\ [][Next]_vars

\* The task is polled; the interval keeps firing but is longer than a pass, so
\* neither starves the other; senders are admitted in order (tokio's semaphore); a
\* shutdown ends (ShutdownTerminates of DurableSupervisor).
Fairness ==
    /\ WF_vars(Run) /\ SF_vars(Tick) /\ SF_vars(Receive) /\ SF_vars(ChannelClosed)
    /\ SF_vars(FinishTick /\ closing /\ loop' = "ended")
    /\ \A c \in Calls : SF_vars(Enqueue(c)) /\ WF_vars(SendFails(c)) /\ WF_vars(Join(c))

FairSpec == Spec /\ Fairness

-----------------------------------------------------------------------------
(* Properties                                                               *)

Terminal == {"suspended", "retired"}

\* Every variable stays in its type; a reply is owed only to a shutdown call
\* and the channel never holds more than its capacity.
ControllerTypeOK ==
    /\ kind \in [Calls -> Kinds \union {None}]
    /\ at \in [Calls -> {"new", "sending", "waiting", "answered", "left"}]
    /\ answer \in [Calls -> {None, "done", "error", "stopped", "rejected"} \union Terminal]
    /\ queue \in Seq(Calls) /\ Len(queue) <= QueueCapacity
    /\ open \in BOOLEAN /\ clients \in BOOLEAN /\ closing \in BOOLEAN
    /\ request \in Calls \union {None} /\ result \in {None, "suspended", "error"}
    /\ loop \in {"select", "rest", "maintaining", "executing", "draining", "ended"}
    /\ current \in Calls \union {None}
    /\ owed \subseteq {c \in Calls : kind[c] = "shutdown"}
    /\ outcome \in {None, "suspended", "retired", "failed", "panicked"}

\* Host::join_consistent never reports "inconsistent durable state": a caller
\* told that the App is suspended or retired is told what run() returns.
JoinConsistent ==
    \A c \in Calls : answer[c] \in Terminal => outcome = answer[c]

\* "Repeated calls join the first operation" (controller.rs:154): once a
\* bounded suspension has a result, every caller of drain_and_suspend that is
\* answered gets that result, also one that asks after the Controller ended.
JoinersAgree ==
    result # None =>
        \A c \in Calls : kind[c] = "drain" /\ at[c] = "answered" => answer[c] = result

\* Whoever is told of the end is told the same, and the truth.
AnswersAgree == JoinConsistent /\ JoinersAgree

\* Admission closes for good: once the Controller drains for suspension or
\* shuts down, no command is handled any more and the channel does not fill.
AdmissionStaysClosed ==
    [][~open => /\ ~open'
                /\ loop' = "executing" => loop = "executing"
                /\ Len(queue') <= Len(queue)]_vars

\* No call hangs: it is answered, or its caller gives up, whatever the
\* Controller was doing when it came - draining, shutting down or gone.
EveryCallAnswered(c) == at[c] \in Pending ~> at[c] \in {"answered", "left"}

\* A bounded suspension, once asked for, ends the Host, also when a shutdown is
\* already in progress ("the controller must exit on either outcome",
\* host_suspension.rs:10).
SuspensionEndsHost == request # None ~> loop = "ended"
=============================================================================
