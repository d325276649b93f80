------------------------------- MODULE LaneSet -------------------------------
(***************************************************************************)
(* A replicated App: one Kernel per Execution Lane, each on a thread of    *)
(* its own (lenso-runner/src/replicated.rs, terminal.rs).  Whoever starts  *)
(* the App spawns the lanes, waits until each has reported, and gets all   *)
(* of them or none; later it shuts them down or drops them.  One lane that *)
(* fails makes the whole App terminal.  Calls reach a lane through a       *)
(* bounded queue: from a route outside (admission.rs), or from another     *)
(* lane (transfer.rs).                                                     *)
(***************************************************************************)
EXTENDS Integers, Sequences, FiniteSets

CONSTANTS
  LaneCount,     \* lanes are numbered as the Plan declares them
  RouteCalls,    \* calls from outside
  PlainCalls,    \* those of them without a deadline and a cancellation token
  LaneCalls,     \* calls from the first lane
  EventCalls,    \* those of them that publish an Event
  CallMixes,     \* which calls may be made in one behaviour (a bound)
  QueueCapacity, \* of the command queue of a lane (64 in the code)
  LaneMaxFaults  \* how many threads, assemblies, Kernels or Apps fail in all

VARIABLES
  owner,     \* who holds the App: "spawning", "waiting", "joining", "refused",
             \* "held", "closing", "closed", "dropping" or "dropped"
  next,      \* the lane that is spawned, waited for or dropped next
  thread,    \* [lane -> what its thread does]
  report,    \* [lane -> what it sent on its startup channel]
  handle,    \* [lane -> its LaneHandle: "whole", "asked" (shutdown sent), "bare" (commands
             \* dropped) or "gone"]
  routed,    \* may somebody hold a route, and with it a sender to every lane?
  outcome,   \* [lane -> what it answered to its shutdown]
  broken,    \* lanes whose Kernel has a terminal failure
  failure,   \* ReplicatedTerminalState::failure: NoFailure, or <<kind, lane>>
  stopping,  \* ReplicatedTerminalState::stopping
  result,    \* what shutdown returned: "none", "ok" or "error"
  queue,     \* tasks in the command channel of the last lane
  call,      \* [call -> [at, answer]] on the caller's side
  task,      \* [call -> the provider's side: "none", "queued", "taken", "running", "ended"
             \* or "dropped"]
  signalled, \* calls whose cancellation or deadline is stored where the provider looks
  watch,     \* [lane call -> its provider-side waiter: "idle", "checked", "registered",
             \* "parked" or "told"]
  laneFaults

ownerVars == <<owner, next, handle, routed, stopping, result>>
threadVars == <<thread, report, outcome, broken, failure>>
callVars == <<queue, call, task, signalled, watch>>
laneVars == <<ownerVars, threadVars, callVars, laneFaults>>

Lanes == 1..LaneCount
LaneCallers == RouteCalls \union LaneCalls
\* Every call goes to the last lane; a call of LaneCalls comes from the first.
Caller == 1
Provider == LaneCount
NoFailure == <<"none", 0>>

LaneInit ==
  /\ owner = "spawning" /\ next = 1 /\ handle = [l \in Lanes |-> "whole"] /\ routed = TRUE
  /\ stopping = FALSE /\ result = "none"
  /\ thread = [l \in Lanes |-> "none"] /\ report = [l \in Lanes |-> "none"]
  /\ outcome = [l \in Lanes |-> "none"] /\ broken = {} /\ failure = NoFailure
  /\ queue = <<>> /\ call = [c \in LaneCallers |-> [at |-> "new", answer |-> "none"]]
  /\ task = [c \in LaneCallers |-> "none"] /\ signalled = {}
  /\ watch = [c \in LaneCalls |-> "idle"] /\ laneFaults = 0

Fault == laneFaults < LaneMaxFaults /\ laneFaults' = laneFaults + 1

\* The queue of a lane and its tasks go with its receiver.
Abandoned(l) ==
  IF l # Provider THEN UNCHANGED <<queue, task>>
  ELSE /\ queue' = <<>>
       /\ task' = [c \in LaneCallers |->
                    IF task[c] \in {"none", "ended"} THEN task[c] ELSE "dropped"]

\* fail: the first failure is kept.
Fail(kind, l) == failure' = IF failure = NoFailure THEN <<kind, l>> ELSE failure

---------------------------------------------------------------------------
(* The start.                                                              *)

\* Mutant: only the lane that was waited for is stopped.
StopLanesOne == handle' = [handle EXCEPT ![next] = "asked"]

\* stop_lanes asks every lane that was spawned to stop, and then joins the threads.
StopLanes == handle' = [l \in Lanes |-> IF thread[l] # "none" THEN "asked" ELSE handle[l]]

Refuse == stopping' = TRUE /\ StopLanes /\ owner' = "joining"

\* The threads are spawned one after the other; the operating system may refuse one.
Spawn ==
  /\ owner = "spawning" /\ next \in Lanes
  /\ \/ /\ thread' = [thread EXCEPT ![next] = "assembling"] /\ next' = next + 1
        /\ UNCHANGED <<owner, handle, stopping, queue, task, laneFaults>>
     \/ Fault /\ Refuse /\ Abandoned(Provider) /\ UNCHANGED <<thread, next>>
  /\ UNCHANGED <<routed, report, outcome, broken, failure, result, call, signalled, watch>>
SpawnedAll ==
  /\ owner = "spawning" /\ next \notin Lanes
  /\ owner' = "waiting" /\ next' = 1
  /\ UNCHANGED <<handle, routed, stopping, result, threadVars, callVars, laneFaults>>

\* The reports are awaited one after the other.
Ready ==
  /\ owner = "waiting" /\ report[next] = "ok"
  /\ IF next = LaneCount THEN owner' = "held" /\ next' = 1
     ELSE next' = next + 1 /\ UNCHANGED owner
  /\ UNCHANGED <<handle, routed, stopping, result, threadVars, callVars, laneFaults>>

\* A lane that reports an error, unwinds without a report, or is not ready at the Ready
\* deadline ends the start.
NotReady ==
  /\ owner = "waiting" /\ report[next] # "ok"
  /\ Refuse
  /\ UNCHANGED <<next, routed, result, threadVars, callVars, laneFaults>>
Refused ==
  /\ owner = "joining" /\ \A l \in Lanes: thread[l] \in {"none", "ended"}
  /\ owner' = "refused"
  /\ UNCHANGED <<next, handle, routed, stopping, result, threadVars, callVars, laneFaults>>

---------------------------------------------------------------------------
(* The end: shutdown, or a drop.                                           *)

\* Each lane is asked; one that has ended cannot be.  Then the command senders go.
Shutdown ==
  /\ owner = "held"
  /\ owner' = "closing" /\ stopping' = TRUE /\ handle' = [l \in Lanes |-> "asked"]
  /\ result' = IF failure # NoFailure \/ \E l \in Lanes: thread[l] = "ended" THEN "error"
               ELSE "none"
  /\ UNCHANGED <<next, routed, threadVars, callVars, laneFaults>>

\* Mutant: only the lanes that answered are looked at.
AllCleanAnswered == \A l \in Lanes: outcome[l] \in {"none", "clean"}

AllClean == \A l \in Lanes: outcome[l] = "clean"

\* Every answer is awaited, or its loss noticed, and every thread is joined.
ShutdownReturns ==
  /\ owner = "closing" /\ \A l \in Lanes: thread[l] = "ended"
  /\ owner' = "closed" /\ result' = IF result = "none" /\ AllClean THEN "ok" ELSE "error"
  /\ UNCHANGED <<next, handle, routed, stopping, threadVars, callVars, laneFaults>>

\* The handles are dropped in turn, of each the command sender before the shutdown sender.
Drop ==
  /\ owner \in {"held", "dropping"}
  /\ IF handle[next] = "whole"
     THEN /\ owner' = "dropping" /\ handle' = [handle EXCEPT ![next] = "bare"]
          /\ UNCHANGED next
     ELSE /\ handle' = [handle EXCEPT ![next] = "gone"]
          /\ IF next = LaneCount THEN owner' = "dropped" /\ UNCHANGED next
             ELSE next' = next + 1 /\ UNCHANGED owner
  /\ UNCHANGED <<routed, stopping, result, threadVars, callVars, laneFaults>>

\* Routes outlive the App until the last of them is dropped.
Routable == owner \notin {"spawning", "waiting", "joining", "refused"}
DropRoutes ==
  /\ routed /\ Routable /\ owner # "held"
  /\ \A c \in RouteCalls: call[c].at \notin {"sending", "sent"}
  /\ routed' = FALSE
  /\ UNCHANGED <<owner, next, handle, stopping, result, threadVars, callVars, laneFaults>>

\* Is there a sender to the lane?  A transfer in progress holds one to the provider.
Reachable(l) == \/ handle[l] = "whole" \/ routed
                \/ l = Provider /\ \E c \in LaneCalls: call[c].at \in {"sending", "sent"}

---------------------------------------------------------------------------
(* The thread of a lane.                                                   *)

\* A cancellation is stored and wakes the waiter, if one has registered.
Wakes(c) == IF c \notin signalled /\ watch[c] \in {"registered", "parked"} THEN "idle"
            ELSE watch[c]
Signals(cs) ==
  /\ signalled' = signalled \union cs
  /\ watch' = [c \in LaneCalls |-> IF c \in cs THEN Wakes(c) ELSE watch[c]]

\* The calls a lane makes end with its thread, and the guard of each signals the provider.
Guarded == {c \in LaneCalls: call[c].at \in {"sending", "sent"}}
Orphaned(l) ==
  IF l # Caller THEN UNCHANGED <<call, signalled, watch>>
  ELSE /\ call' = [c \in LaneCallers |-> IF c \in Guarded THEN [at |-> "gone", answer |-> "none"]
                                        ELSE call[c]]
       /\ Signals(Guarded)

Goes(l, to) == thread' = [thread EXCEPT ![l] = to]
Reports(l, what) == report' = [report EXCEPT ![l] = what]
Unwinds(l, to) == Goes(l, to) /\ Abandoned(l) /\ Orphaned(l)

\* The adapters are assembled, on the lane's thread and without a limit.
Assembled(l) ==
  /\ thread[l] = "assembling"
  /\ \/ Goes(l, "starting") /\ UNCHANGED <<report, callVars, laneFaults>>
     \/ Fault /\ Reports(l, "failed") /\ Unwinds(l, "ended")
  /\ UNCHANGED <<ownerVars, outcome, broken, failure>>

\* The Kernel starts, fails to start, or is stopped before it is ready.
KernelStarts(l) ==
  /\ thread[l] = "starting"
  /\ \/ Goes(l, "loop") /\ Reports(l, "ok") /\ UNCHANGED <<callVars, laneFaults>>
     \/ Fault /\ Reports(l, "failed") /\ Unwinds(l, "ended")
     \/ /\ handle[l] = "asked" /\ Reports(l, "failed") /\ Unwinds(l, "ended")
        /\ UNCHANGED laneFaults
  /\ UNCHANGED <<ownerVars, outcome, broken, failure>>

\* A thread panics: its channels and tasks unwind, then catch_unwind makes that the
\* failure of the App.
Panics(l) ==
  /\ thread[l] \in {"assembling", "starting", "loop", "stopping", "failing"} /\ Fault
  /\ Unwinds(l, "unwound")
  /\ UNCHANGED <<ownerVars, report, outcome, broken, failure>>
Caught(l) ==
  /\ thread[l] = "unwound"
  /\ Fail("panicked", l) /\ Goes(l, "ended")
  /\ UNCHANGED <<ownerVars, report, outcome, broken, callVars, laneFaults>>

\* The Kernel of a lane fails; its monitor notices and makes the App terminal.
AppBreaks(l) ==
  /\ thread[l] = "loop" /\ l \notin broken /\ Fault
  /\ broken' = broken \union {l}
  /\ UNCHANGED <<ownerVars, thread, report, outcome, failure, callVars>>
MonitorSees(l) ==
  /\ thread[l] = "loop" /\ l \in broken /\ failure = NoFailure
  /\ Fail("runtime", l)
  /\ UNCHANGED <<ownerVars, thread, report, outcome, broken, callVars, laneFaults>>

\* The loop prefers its shutdown to a terminal failure, and both to a command.
Ordered(l) == handle[l] \in {"asked", "gone"}
LoopStops(l) ==
  /\ thread[l] = "loop" /\ Ordered(l)
  /\ Goes(l, "stopping")
  /\ UNCHANGED <<ownerVars, report, outcome, broken, failure, callVars, laneFaults>>

Terminal == failure # NoFailure
LoopFails(l) ==
  /\ thread[l] = "loop" /\ ~Ordered(l) /\ Terminal
  /\ Goes(l, "failing")
  /\ UNCHANGED <<ownerVars, report, outcome, broken, failure, callVars, laneFaults>>

\* Nobody can send a command any more, and nobody asked for a shutdown.
CommandsClosed(l) ==
  /\ thread[l] = "loop" /\ ~Ordered(l) /\ ~Terminal /\ ~Reachable(l)
  /\ l = Provider => queue = <<>>
  /\ IF stopping THEN UNCHANGED failure ELSE Fail("unavailable", l)
  /\ Goes(l, "failing")
  /\ UNCHANGED <<ownerVars, report, outcome, broken, callVars, laneFaults>>

\* The Kernel's shutdown is bounded, and may be unclean; only an ordered one answers.
LoopEnds(l) ==
  /\ thread[l] \in {"stopping", "failing"}
  /\ Unwinds(l, "ended")
  /\ \E how \in {"clean", "unclean"}:
       outcome' = [outcome EXCEPT ![l] =
                     IF thread[l] = "stopping" /\ handle[l] = "asked" THEN how ELSE "none"]
  /\ UNCHANGED <<ownerVars, report, broken, failure, laneFaults>>

---------------------------------------------------------------------------
(* Calls.                                                                  *)

Says(c, at, answer) == call' = [call EXCEPT ![c] = [at |-> at, answer |-> answer]]
Tasks(c, to) == task' = [task EXCEPT ![c] = to]

\* A call begins.  A route first looks whether the App has failed; a transfer needs a sender.
BeginCall(c) ==
  /\ call[c].at = "new"
  /\ \E mix \in CallMixes: {c} \union {d \in LaneCallers: call[d].at # "new"} \subseteq mix
  /\ IF c \in RouteCalls THEN routed /\ Routable ELSE thread[Caller] = "loop"
  /\ IF c \in RouteCalls /\ failure # NoFailure THEN Says(c, "done", "failed")
     ELSE IF ~Reachable(Provider) THEN Says(c, "done", "unavailable")
     ELSE Says(c, "sending", "none")
  /\ UNCHANGED <<ownerVars, threadVars, queue, task, signalled, watch, laneFaults>>

\* The task goes into the queue when there is a place, and nowhere when the lane is gone:
\* then the guard of a transfer is dropped armed.
HasPlace == Len(queue) < QueueCapacity
Receiving == /\ thread[Provider] \notin {"unwound", "ended"}
             /\ thread[Provider] = "none" => owner = "spawning"
SendTask(c) ==
  /\ call[c].at = "sending"
  /\ IF ~Receiving
     THEN /\ Says(c, "done", "unavailable") /\ Signals({c} \intersect LaneCalls)
          /\ UNCHANGED <<queue, task>>
     ELSE /\ HasPlace
          /\ queue' = Append(queue, c) /\ Tasks(c, "queued") /\ Says(c, "sent", "none")
          /\ UNCHANGED <<signalled, watch>>
  /\ UNCHANGED <<ownerVars, threadVars, laneFaults>>

\* The caller's cancellation or deadline, after a look at the answer.  A route is told so
\* only before the task has started, with request id zero, whether or not the task is in
\* the queue; a transfer is told at once, and its guard signals the provider.
GiveUp(c) ==
  /\ c \notin PlainCalls
  /\ call[c].at = "sending" \/ (call[c].at = "sent" /\ task[c] \notin {"ended", "dropped"})
  /\ c \in RouteCalls => task[c] \in {"none", "queued", "taken"}
  /\ Says(c, "done", "gaveup") /\ Signals({c})
  /\ UNCHANGED <<ownerVars, threadVars, queue, task, laneFaults>>

\* A started call of a route: its token or deadline is seen by the provider only, and the
\* caller waits for the provider's answer.
CancelStarted(c) ==
  /\ c \in RouteCalls \ (PlainCalls \union signalled) /\ call[c].at = "sent" /\ task[c] = "running"
  /\ Signals({c})
  /\ UNCHANGED <<ownerVars, threadVars, queue, call, task, laneFaults>>

\* The loop of the provider takes a task, which runs beside the loop from then on.
TakeTask ==
  /\ thread[Provider] = "loop" /\ queue # <<>> /\ ~Ordered(Provider) /\ ~Terminal
  /\ Tasks(Head(queue), "taken") /\ queue' = Tail(queue)
  /\ UNCHANGED <<ownerVars, threadVars, call, signalled, watch, laneFaults>>

Alive == thread[Provider] \in {"loop", "stopping", "failing"}

\* Its Kernel admits the invocation; a transfer that was cancelled before starts cancelled,
\* and an Event that was is not published.
Started(c) ==
  /\ Alive /\ task[c] = "taken"
  /\ Tasks(c, IF c \in EventCalls \intersect signalled THEN "ended" ELSE "running")
  /\ watch' = IF c \in LaneCalls /\ c \in signalled THEN [watch EXCEPT ![c] = "told"] ELSE watch
  /\ UNCHANGED <<ownerVars, threadVars, queue, call, signalled, laneFaults>>

\* Mutant: the state is not read again after the waker was registered.
AgainNever(c) == "parked"

\* TransferredCancellationFuture::poll: look, register the waker, look again.
Again(c) == IF c \in signalled THEN "told" ELSE "parked"
Watch(c) ==
  /\ Alive /\ c \in LaneCalls \ EventCalls /\ task[c] = "running"
  /\ \/ watch[c] = "idle"
        /\ watch' = [watch EXCEPT ![c] = IF c \in signalled THEN "told" ELSE "checked"]
     \/ watch[c] = "checked" /\ watch' = [watch EXCEPT ![c] = "registered"]
     \/ watch[c] = "registered" /\ watch' = [watch EXCEPT ![c] = Again(c)]
  /\ UNCHANGED <<ownerVars, threadVars, queue, call, task, signalled, laneFaults>>

\* The provider answers.
TaskEnds(c) ==
  /\ Alive /\ task[c] = "running"
  /\ Tasks(c, "ended")
  /\ UNCHANGED <<ownerVars, threadVars, queue, call, signalled, watch, laneFaults>>

\* The caller hears the answer, or that there will be none: then a guard is dropped armed.
Settled(c) == task[c] \in {"ended", "dropped"}
Hear(c) ==
  /\ call[c].at = "sent" /\ Settled(c)
  /\ Says(c, "done", IF task[c] = "ended" THEN "answered" ELSE "dropped")
  /\ Signals(IF task[c] = "dropped" THEN {c} \intersect LaneCalls ELSE {})
  /\ UNCHANGED <<ownerVars, threadVars, queue, task, laneFaults>>

LaneStep(l) == \/ Assembled(l) \/ KernelStarts(l) \/ Caught(l) \/ MonitorSees(l) \/ LoopStops(l)
               \/ LoopFails(l) \/ CommandsClosed(l) \/ LoopEnds(l)
OwnerStep == \/ Spawn \/ SpawnedAll \/ Ready \/ NotReady \/ Refused \/ ShutdownReturns
             \/ owner = "dropping" /\ Drop
TaskStep == TakeTask \/ \E c \in LaneCallers: Started(c) \/ Watch(c) \/ TaskEnds(c)
CallerStep(c) == SendTask(c) \/ Hear(c)
LaneNext == \/ OwnerStep \/ Shutdown \/ Drop \/ DropRoutes \/ TaskStep
            \/ \E l \in Lanes: LaneStep(l) \/ Panics(l) \/ AppBreaks(l)
            \/ \E c \in LaneCallers: CallerStep(c) \/ BeginCall(c) \/ GiveUp(c) \/ CancelStarted(c)

---------------------------------------------------------------------------
(* Properties.                                                             *)

LaneTypeOK ==
  /\ owner \in {"spawning", "waiting", "joining", "refused", "held", "closing", "closed",
                "dropping", "dropped"}
  /\ thread \in [Lanes -> {"none", "assembling", "starting", "loop", "stopping", "failing",
                           "unwound", "ended"}]
  /\ Len(queue) <= QueueCapacity /\ (failure = NoFailure \/ failure[2] \in Lanes)

\* shutdown returns Ok only when every lane was running until it was asked, and answered
\* that it ended cleanly; a panic or a lost channel that nobody looked at before is not lost
\* (shutdown; what a monitor reports while its lane shuts down is left to the lane's answer).
OkMeansClean ==
  result = "ok" => /\ \A l \in Lanes: thread[l] = "ended" /\ outcome[l] = "clean"
                   /\ failure[1] \notin {"panicked", "unavailable"}

\* A task whose caller has gone can tell: the guard of a transfer that was cancelled, has
\* expired or was dropped with its lane has stored that, and the provider's waiter is not
\* asleep (TransferredCancellationGuard, TransferredCancellationFuture::poll).
OrphansKnowIt ==
  \A c \in LaneCallers:
    /\ call[c].at \in {"gone", "done"} /\ task[c] \in {"queued", "taken", "running"}
         => c \in signalled
    /\ c \in LaneCalls \intersect signalled /\ task[c] = "running" => watch[c] # "parked"

\* A call that began ends, whatever happens to the lanes (completion, invocation_dropped).
LaneCallWaits(c) == call[c].at \in {"sending", "sent"}
LaneCallSettles(c) == LaneCallWaits(c) ~> ~LaneCallWaits(c)

\* One failure ends all lanes; so do a shutdown, a drop and a refused start.
LanesEnd ==
  failure # NoFailure \/ stopping \/ owner = "dropped" ~>
    \A l \in Lanes: thread[l] \in {"none", "ended"}
=============================================================================
