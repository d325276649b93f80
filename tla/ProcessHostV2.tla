---------------------------- MODULE ProcessHostV2 ----------------------------
(***************************************************************************)
(* The Host end of a Process V2 session                                    *)
(* (lenso-process-adapter/src/v2.rs): the lifecycle of the generation, its *)
(* invocations, the monitor task, all on the Host thread, where a step     *)
(* runs from one await to the next; and beside it the reader thread and    *)
(* one termination thread per cancelled invocation.                        *)
(***************************************************************************)
EXTENDS ProcessWire

CONSTANTS MaxPending, \* ProcessLimits::max_pending_requests
          MaxMishaps  \* how many of the Faults happen in all

VARIABLES
  pending,     \* the work with a sender in the table of pending invocations
  channel,     \* [work -> events sent to it and not taken]
  slots,       \* lifecycle slots that hold a sender: "initialized", ...
  reply,       \* what was sent through the last slot: "none" or an outcome
  isFailed, isStopped,
  stopStarted, \* stop_started
  readerAt,    \* the reader thread: "reading", "failing", "stopped", "failed"
  monitor,     \* the task of activate: "none", "watching", "panicked", "over"
  life,        \* the lifecycle: what it waits for, or how it ended
  calls,       \* the invocations: [at, cancelSent, outcome]
  importing,   \* work whose outbound call is in progress on the Host
  timers,      \* invocations a termination thread sleeps for
  mishaps      \* how many of the Faults have happened

session == <<pending, channel, slots, reply, isFailed, isStopped, stopStarted, readerAt, monitor,
             life, calls, importing, timers, mishaps>>

HostInit ==
  /\ pending = {} /\ channel = [w \in Work |-> <<>>] /\ slots = {} /\ reply = "none"
  /\ isFailed = FALSE /\ isStopped = FALSE /\ stopStarted = FALSE
  /\ readerAt = "reading" /\ monitor = "none" /\ life = "prepared"
  /\ calls = [c \in Invocations |-> [at |-> "new", cancelSent |-> FALSE, outcome |-> "none"]]
  /\ importing = {} /\ timers = {} /\ mishaps = 0

---------------------------------------------------------------------------
(* Helpers.                                                                *)

\* Something goes wrong that the environment decides.
Mishap(fault) == fault \in Faults /\ mishaps < MaxMishaps /\ mishaps' = mishaps + 1

\* Mutant: a frame is written whether or not the reader has failed.
CanSendBlind == ~isStopped /\ process = "running"

\* send: refused once the generation has failed or stopped, and by a dead child.
CanSend == ~isFailed /\ ~isStopped /\ process = "running"

Send(frame) == toGuest' = Append(toGuest, frame)

\* Who still receives the events of a piece of work?
Listening(w) == IF w \in Scopes THEN life = w ELSE calls[w].at \in {"sending", "waiting"}

\* retire_all: every slot is answered with a failure, every sender dropped.
RetireAll == /\ reply' = IF slots # {} THEN "lost" ELSE reply
             /\ slots' = {} /\ pending' = {}

\* The child is killed and reaped; what the Host wrote is lost.
Kill == process' = "dead" /\ toGuest' = <<>>

\* abort: once; the child is killed and reaped, the reader is not waited for.
Abort ==
  IF isStopped THEN UNCHANGED <<isStopped, isFailed, process, toGuest, reply, slots, pending>>
  ELSE /\ isStopped' = TRUE /\ isFailed' = TRUE
       /\ Kill
       /\ RetireAll

Ends(c) == [calls EXCEPT ![c].at = "done"]
Untouched == UNCHANGED <<isStopped, isFailed, process, toGuest, reply, slots, pending>>

---------------------------------------------------------------------------
(* The reader thread.                                                      *)

\* Does the frame find its receiver?
Delivered(frame) ==
  CASE frame.kind = "initialized" -> "initialized" \in slots /\ life = "initializing"
    [] frame.kind = "constructed" -> "constructed" \in slots /\ life = "construct"
    [] frame.kind = "stopped" -> "stopped" \in slots /\ life = "cleanup"
    [] frame.kind = "garbage" -> FALSE
    [] OTHER -> frame.of \in pending /\ Listening(frame.of)

\* A lifecycle result goes through its slot; a stop result ends the reader.
ReadLifecycle ==
  /\ readerAt = "reading" /\ toHost # <<>>
  /\ Head(toHost).kind \in {"initialized", "constructed", "stopped"}
  /\ Delivered(Head(toHost))
  /\ slots' = slots \ {Head(toHost).kind} /\ reply' = Head(toHost).mark
  /\ toHost' = Tail(toHost)
  /\ readerAt' = IF Head(toHost).kind = "stopped" THEN "stopped" ELSE readerAt
  /\ UNCHANGED <<process, toGuest, pending, channel, isFailed, isStopped, stopStarted, monitor,
                 life, calls, importing, timers, mishaps>>

\* An event goes to the channel of its work.
ReadEvent ==
  /\ readerAt = "reading" /\ toHost # <<>>
  /\ Head(toHost).kind \in {"result", "outbound", "cancelack", "settlement"}
  /\ Delivered(Head(toHost))
  /\ channel' = [channel EXCEPT ![Head(toHost).of] = Append(@, Head(toHost))]
  /\ toHost' = Tail(toHost)
  /\ UNCHANGED <<process, toGuest, pending, slots, reply, isFailed, isStopped, stopStarted,
                 readerAt, monitor, life, calls, importing, timers, mishaps>>

\* Anything else, and the end of the stream: `failed' first ...
ReadFailure ==
  /\ readerAt = "reading"
  /\ IF toHost = <<>> THEN process = "dead" ELSE ~Delivered(Head(toHost))
  /\ isFailed' = TRUE /\ readerAt' = "failing"
  /\ toHost' = IF toHost = <<>> THEN <<>> ELSE Tail(toHost)
  /\ UNCHANGED <<process, toGuest, pending, channel, slots, reply, isStopped, stopStarted,
                 monitor, life, calls, importing, timers, mishaps>>

\* ... then the slots and the table.
ReaderGivesUp ==
  /\ readerAt = "failing"
  /\ RetireAll
  /\ readerAt' = "failed" /\ toHost' = <<>>
  /\ UNCHANGED <<process, toGuest, channel, isFailed, isStopped, stopStarted, monitor, life, calls,
                 importing, timers, mishaps>>

---------------------------------------------------------------------------
(* Lifecycle: construct, activate, deactivate, drop.                       *)

\* construct asks the child to initialize ...
BeginConstruct ==
  /\ life = "prepared"
  /\ slots' = slots \union {"initialized"} /\ reply' = "none"
  /\ IF CanSend THEN Send(Message("initialize", "construct", "ok")) /\ life' = "initializing"
     ELSE life' = "refused" /\ UNCHANGED toGuest
  /\ UNCHANGED <<process, toHost, pending, channel, isFailed, isStopped, stopStarted, readerAt,
                 monitor, calls, importing, timers, mishaps>>

\* ... and, when the echo is right, to construct: the scope gets a sender and a slot.
BeginFactory ==
  /\ life = "initializing" /\ reply # "none"
  /\ reply' = "none"
  /\ IF reply # "ok"
     THEN life' = "refused" /\ UNCHANGED <<pending, slots, toGuest>>
     ELSE /\ pending' = pending \union {"construct"} /\ slots' = slots \union {"constructed"}
          /\ IF CanSend THEN Send(Message("construct", "construct", "ok")) /\ life' = "construct"
             ELSE life' = "refused" /\ UNCHANGED toGuest
  /\ UNCHANGED <<process, toHost, channel, isFailed, isStopped, stopStarted, readerAt, monitor,
                 calls, importing, timers, mishaps>>

\* The factory's outcome: the scope leaves the table whatever it is.
EndFactory ==
  /\ life = "construct" /\ reply # "none" /\ "construct" \notin importing
  /\ life' = IF reply = "ok" THEN "constructed" ELSE "refused"
  /\ pending' = pending \ {"construct"} /\ channel' = [channel EXCEPT !["construct"] = <<>>]
  /\ reply' = "none"
  /\ UNCHANGED <<wire, slots, isFailed, isStopped, stopStarted, readerAt, monitor, calls, importing,
                 timers, mishaps>>

\* activate installs the monitor of the reader.
Activate ==
  /\ life = "constructed"
  /\ life' = "active" /\ monitor' = "watching"
  /\ UNCHANGED <<wire, pending, channel, slots, reply, isFailed, isStopped, stopStarted, readerAt,
                 calls, importing, timers, mishaps>>

Verdict == IF readerAt = "failed" /\ ~stopStarted THEN "panicked" ELSE "over"

\* The monitor panics for a reader that failed before a stop began: that is how the
\* runtime learns that the generation is gone.
Monitor ==
  /\ monitor = "watching" /\ readerAt \in {"stopped", "failed"}
  /\ monitor' = Verdict
  /\ UNCHANGED <<wire, pending, channel, slots, reply, isFailed, isStopped, stopStarted, readerAt,
                 life, calls, importing, timers, mishaps>>

\* deactivate: a failed generation is aborted; another one gets the stop scope ...
Deactivate ==
  /\ life = "active" /\ ~stopStarted
  /\ stopStarted' = TRUE
  /\ IF isFailed
     THEN Abort /\ life' = "ended"
     ELSE /\ life' = "stopping" /\ UNCHANGED <<isStopped, isFailed, process, toGuest>>
          /\ pending' = pending \union {"cleanup"} /\ slots' = slots \union {"stopped"}
          /\ reply' = "none"
  /\ UNCHANGED <<toHost, channel, readerAt, monitor, calls, importing, timers, mishaps>>

\* ... and is asked to stop; the reader may have failed in between.
SendStop ==
  /\ life = "stopping"
  /\ IF CanSend THEN Send(Message("stop", "cleanup", "ok")) /\ life' = "cleanup"
     ELSE life' = "refused" /\ UNCHANGED toGuest
  /\ UNCHANGED <<process, toHost, pending, channel, slots, reply, isFailed, isStopped, stopStarted,
                 readerAt, monitor, calls, importing, timers, mishaps>>

\* The stop result, or the loss of it.
EndStop ==
  /\ life = "cleanup" /\ reply # "none" /\ "cleanup" \notin importing
  /\ pending' = pending \ {"cleanup"} /\ channel' = [channel EXCEPT !["cleanup"] = <<>>]
  /\ life' = IF reply = "lost" THEN "refused" ELSE "reaping"
  /\ UNCHANGED <<wire, slots, reply, isFailed, isStopped, stopStarted, readerAt, monitor, calls,
                 importing, timers, mishaps>>

\* The child is waited for, on the Host thread and without a limit.
Reap ==
  /\ life = "reaping" /\ process = "dead"
  /\ life' = "ended" /\ isStopped' = TRUE
  /\ UNCHANGED <<wire, pending, channel, slots, reply, isFailed, stopStarted, readerAt, monitor,
                 calls, importing, timers, mishaps>>

\* A lifecycle step that is cancelled (its deadline, or a shutdown) aborts the generation.
LifecycleCancelled ==
  /\ Mishap("lifecycle")
  /\ life \in {"initializing"} \union Scopes /\ life \notin importing
  /\ Abort /\ life' = "refused"
  /\ UNCHANGED <<toHost, channel, stopStarted, readerAt, monitor, calls, importing, timers>>

\* An event of the other kinds aborts the generation too.
LifecycleEvent ==
  /\ life \in Scopes /\ channel[life] # <<>> /\ life \notin importing
  /\ channel' = [channel EXCEPT ![life] = Tail(@)]
  /\ IF Head(channel[life]).kind = "outbound" /\ Head(channel[life]).mark # Invalid
     THEN importing' = importing \union {life} /\ UNCHANGED life /\ Untouched
     ELSE Abort /\ life' = "refused" /\ UNCHANGED importing
  /\ UNCHANGED <<toHost, stopStarted, readerAt, monitor, calls, timers, mishaps>>

\* The last owner goes: the generation is aborted, unless it had stopped.
DropGeneration ==
  /\ life \in {"refused", "ended"} /\ ~isStopped
  /\ \A c \in Invocations: calls[c].at \in {"new", "done"}
  /\ Abort
  /\ UNCHANGED <<toHost, channel, stopStarted, readerAt, monitor, life, calls, importing, timers,
                 mishaps>>

---------------------------------------------------------------------------
(* Invocations.                                                            *)

HostOnly == <<slots, reply, stopStarted, readerAt, monitor, life>>

\* The entry goes in first, unless the table is full ...
TableFull == Cardinality(pending) >= MaxPending
BeginInvocation(c) ==
  /\ life = "active" /\ calls[c].at = "new"
  /\ IF TableFull
     THEN calls' = Ends(c) /\ UNCHANGED pending
     ELSE calls' = [calls EXCEPT ![c].at = "sending"] /\ pending' = pending \union {c}
  /\ UNCHANGED <<wire, HostOnly, mishaps, channel, isFailed, isStopped, importing, timers>>

\* ... then the frame is written, or is too long or has nobody to go to: then the entry
\* is taken back.
Withdrawn(c) == pending \ {c}
SendInvocation(c) ==
  /\ calls[c].at = "sending"
  /\ \/ /\ CanSend /\ Send(Message("invoke", c, "ok"))
        /\ calls' = [calls EXCEPT ![c].at = "waiting"] /\ UNCHANGED <<pending, mishaps>>
     \/ /\ Mishap("frame") \/ (~CanSend /\ UNCHANGED mishaps)
        /\ calls' = Ends(c) /\ pending' = Withdrawn(c) /\ UNCHANGED toGuest
  /\ UNCHANGED <<process, toHost, HostOnly, channel, isFailed, isStopped, importing, timers>>

\* The next event of a waiting call, taken from its channel.
Event(c, kind) == /\ calls[c].at = "waiting" /\ c \notin importing /\ channel[c] # <<>>
                  /\ Head(channel[c]).kind = kind
Popped(c) == channel' = [channel EXCEPT ![c] = Tail(@)]
\* The channel of a call that returns goes with it.
Dropped(c) == channel' = [channel EXCEPT ![c] = <<>>]

\* A call that returns early leaves its entry where it is.
ReturnsEarly(c) == calls' = Ends(c) /\ Dropped(c)

\* A result is kept until the settlement; an invalid one ends the call.
TakeResult(c) ==
  /\ Event(c, "result")
  /\ IF Head(channel[c]).mark = Invalid THEN ReturnsEarly(c)
     ELSE calls' = [calls EXCEPT ![c].outcome = "outcome"] /\ Popped(c)
  /\ UNCHANGED <<wire, HostOnly, mishaps, pending, isFailed, isStopped, importing, timers>>

\* A valid outbound call is dispatched and awaited; nothing else of this invocation is
\* looked at meanwhile.  An invalid one aborts the generation.
TakeOutbound(c) ==
  /\ Event(c, "outbound")
  /\ IF Head(channel[c]).mark = Invalid
     THEN ReturnsEarly(c) /\ Abort /\ UNCHANGED importing
     ELSE Popped(c) /\ importing' = importing \union {c} /\ UNCHANGED calls /\ Untouched
  /\ UNCHANGED <<toHost, stopStarted, readerAt, monitor, life, timers, mishaps>>

\* The dependency has answered: the answer is sent, or the call (or the lifecycle step)
\* ends because it cannot be.
FinishImport(w) ==
  /\ w \in importing
  /\ importing' = importing \ {w}
  /\ \/ /\ CanSend /\ Send(Message("outboundresult", w, "outcome"))
        /\ UNCHANGED <<calls, channel, life, pending, mishaps>>
     \/ /\ Mishap("frame") \/ (~CanSend /\ UNCHANGED mishaps)
        /\ UNCHANGED toGuest
        /\ IF w \in Scopes
           THEN /\ life' = "refused" /\ pending' = pending \ {w} /\ UNCHANGED <<calls, channel>>
           ELSE ReturnsEarly(w) /\ UNCHANGED <<life, pending>>
  /\ UNCHANGED <<process, toHost, slots, reply, stopStarted, readerAt, monitor, isFailed,
                 isStopped, timers>>

\* An acknowledgement must accept a cancellation that was sent.
TakeAck(c) ==
  /\ Event(c, "cancelack")
  /\ IF calls[c].cancelSent /\ Head(channel[c]).mark = "accepted"
     THEN Popped(c) /\ UNCHANGED calls
     ELSE ReturnsEarly(c)
  /\ UNCHANGED <<wire, HostOnly, mishaps, pending, isFailed, isStopped, importing, timers>>

\* The settlement ends the call; only a valid one removes its entry.
TakeSettlement(c) ==
  /\ Event(c, "settlement")
  /\ ReturnsEarly(c)
  /\ pending' = IF Head(channel[c]).mark = Invalid THEN pending ELSE Withdrawn(c)
  /\ UNCHANGED <<wire, HostOnly, mishaps, isFailed, isStopped, importing, timers>>

\* The sender was dropped and nothing is left in the channel.
Lost(c) ==
  /\ calls[c].at = "waiting" /\ c \notin importing /\ channel[c] = <<>> /\ c \notin pending
  /\ calls' = Ends(c)
  /\ UNCHANGED <<wire, HostOnly, mishaps, pending, channel, isFailed, isStopped, importing, timers>>

\* The caller cancels: the child is told, once, and a thread sleeps for the settlement.
Cancel(c) ==
  /\ Mishap("cancel")
  /\ calls[c].at = "waiting" /\ c \notin importing /\ ~calls[c].cancelSent
  /\ IF CanSend
     THEN /\ Send(Message("cancel", c, "ok"))
          /\ calls' = [calls EXCEPT ![c].cancelSent = TRUE]
          /\ timers' = timers \union {c}
          /\ UNCHANGED channel
     ELSE ReturnsEarly(c) /\ UNCHANGED <<toGuest, timers>>
  /\ UNCHANGED <<process, toHost, HostOnly, pending, isFailed, isStopped, importing>>

\* The caller's deadline drops the future of the call: no guard watches it.
DropCall(c) ==
  /\ Mishap("drop") /\ calls[c].at = "waiting"
  /\ ReturnsEarly(c)
  /\ importing' = importing \ {c}
  /\ UNCHANGED <<wire, HostOnly, pending, isFailed, isStopped, timers>>

\* The termination thread wakes: the child of a call whose entry is still there is killed.
Overdue(c) == c \in pending
TimerFires(c) ==
  /\ c \in timers
  /\ timers' = timers \ {c}
  /\ IF Overdue(c) THEN isFailed' = TRUE /\ Kill
     ELSE UNCHANGED <<isFailed, process, toGuest>>
  /\ UNCHANGED <<toHost, HostOnly, mishaps, pending, channel, isStopped, calls, importing>>

---------------------------------------------------------------------------
(* What goes wrong on the other side.                                      *)

\* The child writes a frame out of protocol.
Breach ==
  /\ Mishap("breach") /\ process = "running" /\ readerAt = "reading"
  /\ \E c \in Invocations, kind \in {"result", "outbound", "settlement", "garbage"}:
       toHost' = Append(toHost, Message(kind, c, Invalid))
  /\ UNCHANGED <<process, toGuest, pending, channel, slots, reply, isFailed, isStopped,
                 stopStarted, readerAt, monitor, life, calls, importing, timers>>

\* The Host thread runs one task at a time, from one await to the next: a task that has
\* inserted its entry and not yet written its frame is not interrupted.
HostFree == life # "stopping" /\ \A c \in Invocations: calls[c].at # "sending"

HostReader == ReadLifecycle \/ ReadEvent \/ ReadFailure \/ ReaderGivesUp
HostLife == \/ SendStop
            \/ /\ HostFree
               /\ \/ BeginConstruct \/ BeginFactory \/ EndFactory \/ Activate \/ Monitor
                  \/ EndStop \/ Reap \/ LifecycleEvent \/ DropGeneration
HostCall(c) == \/ SendInvocation(c) \/ TimerFires(c)
               \/ /\ HostFree
                  /\ \/ TakeResult(c) \/ TakeOutbound(c) \/ TakeAck(c) \/ TakeSettlement(c)
                     \/ Lost(c)
HostImport(w) == HostFree /\ FinishImport(w)
\* What nobody has to do: requests, and faults.
HostMay == \/ HostFree /\ (Deactivate \/ LifecycleCancelled)
           \/ \E c \in Invocations: HostFree /\ (BeginInvocation(c) \/ Cancel(c) \/ DropCall(c))
           \/ Breach
HostNext == \/ HostReader \/ HostLife \/ HostMay
            \/ \E w \in Work: HostImport(w)
            \/ \E c \in Invocations: HostCall(c)
=============================================================================
