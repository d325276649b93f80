------------------------------- MODULE MCRunner -------------------------------
(***************************************************************************)
(* What has to come to an end, side by side: a replicated runner, its      *)
(* lanes (LaneSet) and the streams between its lanes; a generation of each *)
(* guest adapter (a QuickJS guest with two calls and no streams, a Wasm    *)
(* guest with one call, streams and imports); a guest with the SDK on its  *)
(* side of the imports (GuestSdk); a Worker whose instance takes one       *)
(* event; and the parts of MCRelease.  The three modules are extended.     *)
(* They share no state, so a behaviour runs one part: `part' says which,   *)
(* and the others stay in their initial state.                             *)
(***************************************************************************)
EXTENDS MCRelease, LaneSet, GuestSdk

CONSTANTS r, q, x, e, s1, s2, c1, c2

VARIABLES nextSession, id, word, consumer, opening, table, native, cleaner, action, acting,
          laneUp, actions
VARIABLES guestCall, session, activeStreams, failed, life,
          guestQueue, worker, late, interrupt, turnOver, epochDue, timer, timerCommands
VARIABLES instance, fenced, owners, admittedNow, rotation, eventAt, born, entered, armed,
          cancelling, aborted, preparing, scopeClosed, io, unreleased, overdue, runnerFaults

Stream == INSTANCE LaneStreams WITH Streams <- {s1, s2}, MaxActions <- 2
Quick == INSTANCE QuickJsAdapter WITH
  call <- guestCall, active <- activeStreams, queue <- guestQueue,
  Calls <- {c1, c2}, MaxStreams <- 0, MaxImports <- 0, GuestImports <- 0,
  MaxHostStreams <- 1, StreamIds <- {1}, Kinds <- {}
Wasm == INSTANCE WasmAdapter WITH
  call <- guestCall, active <- activeStreams, queue <- guestQueue,
  Calls <- {c1}, MaxStreams <- 1, MaxImports <- 1, GuestImports <- 2,
  MaxHostStreams <- 1, StreamIds <- {1, 2}, Kinds <- {"open", "receive", "cancel"},
  TimerBacklog <- 2
Event == INSTANCE EventRunner WITH at <- eventAt,
  Events <- {"e1", "e2"}, MaxConcurrent <- 2, RetireAt <- 1, HardLimit <- 1, QueueLimit <- 1,
  RunnerMaxFaults <- 1

streams == <<nextSession, id, word, consumer, opening, table, native, cleaner, action, acting,
             laneUp, actions>>
adapter == <<guestCall, session, activeStreams, failed, life, guestQueue, worker, late>>
generation == <<imports, adapter>>
quick == <<generation, interrupt, turnOver>>
wasm == <<generation, epochDue, timer, timerCommands>>
guests == <<generation, interrupt, turnOver, epochDue, timer, timerCommands>>
sdk == <<sdkGuest, sdkStreams, sdkTable>>
events == <<instance, fenced, owners, admittedNow, rotation, eventAt, born, entered, armed,
            cancelling, aborted, preparing, scopeClosed, io, unreleased, overdue, runnerFaults>>
vars == <<part, laneVars, streams, guests, sdk, events, release>>

Init ==
  /\ part \in {"lanes", "streams", "quick", "wasm", "sdk", "events"} \cup ReleaseParts
  /\ LaneInit /\ Stream!StreamInit /\ SdkInit /\ Event!RunnerInit
  /\ ReleaseInit
  /\ IF part = "wasm" THEN Wasm!WasmInit /\ interrupt = FALSE /\ turnOver = FALSE
     ELSE Quick!QuickInit /\ epochDue = FALSE /\ timer = "idle" /\ timerCommands = <<>>

InLanes(A) == part = "lanes" /\ A
InStreams(A) == part = "streams" /\ A
InQuick(A) == part = "quick" /\ A
InWasm(A) == part = "wasm" /\ A
InWorker(A) == part = "events" /\ A

Next ==
  /\ UNCHANGED part
  /\ \/ part = "lanes" /\ LaneNext /\ UNCHANGED <<streams, guests, sdk, events, release>>
     \/ part = "streams" /\ Stream!StreamNext /\ UNCHANGED <<laneVars, guests, sdk, events, release>>
     \/ /\ part = "quick" /\ Quick!QuickNext
        /\ UNCHANGED <<laneVars, streams, epochDue, timer, timerCommands, sdk, events, release>>
     \/ /\ part = "wasm" /\ Wasm!WasmNext
        /\ UNCHANGED <<laneVars, streams, interrupt, turnOver, sdk, events, release>>
     \/ /\ part = "sdk" /\ SdkNext
        /\ UNCHANGED <<laneVars, streams, adapter, interrupt, turnOver, epochDue, timer, timerCommands,
                       events, release>>
     \/ part = "events" /\ Event!RunnerNext /\ UNCHANGED <<laneVars, streams, guests, sdk, release>>
     \/ part \in ReleaseParts /\ ReleaseNext /\ UNCHANGED <<laneVars, streams, guests, sdk, events>>

\* The owner's thread, the provider's task, the threads of the lanes, the callers, both ends of
\* a stream, the threads of a guest adapter and its calls, and the owners and timers of a Worker's
\* events run (the guest need not end by itself, nor a call be given up).
FairSpec ==
  /\ Init /\ [][Next]_vars
  /\ WF_laneVars(InLanes(OwnerStep)) /\ WF_laneVars(InLanes(TaskStep))
  /\ \A l \in 1..2: WF_laneVars(InLanes(LaneStep(l)))
  /\ \A c \in {r, q, x, e}: WF_laneVars(InLanes(CallerStep(c)))
  /\ \A s \in {s1, s2}: WF_streams(InStreams(Stream!StreamConsumer(s)))
                          /\ WF_streams(InStreams(Stream!StreamProvider(s)))
  /\ WF_quick(InQuick(Quick!ThreadStep)) /\ WF_wasm(InWasm(Wasm!ThreadStep))
  /\ WF_generation(Quick!Loaded \/ Quick!Joined)
  /\ WF_generation(InQuick(Quick!TaskStep(c1)) \/ InWasm(Wasm!TaskStep(c1)))
  /\ WF_generation(InQuick(Quick!TaskStep(c2))) /\ WF_wasm(InWasm(Wasm!TimerStep))
  /\ \A f \in {"e1", "e2"}: WF_events(InWorker(Event!OwnerStep(f)))
                           /\ WF_events(InWorker(Event!WatchdogStep(f)))
  /\ ReleaseFair

\* Both sides of a stream or an import agree on it: a stream between lanes is its consumer's
\* (OwnStream); the handles of a guest are the Host's streams (HandlesMatchStreams), and the ids
\* it issues for the sessions it provides stay apart; and the outcome of a provided stream is its
\* last word (OutcomeIsLast).
StreamsAgree ==
  /\ Stream!OwnStream
  /\ part = "sdk" => HandlesMatchStreams /\ SessionIdsFresh
  /\ Provided!OutcomeIsLast

\* Nobody waits for ever: a call to a lane comes to an end, from outside (r) and from another
\* lane (x); a stream does not outlive its consumer; a guest that loops holds neither its caller
\* nor the Host thread that stops its generation, nor does a library that has returned; an end of
\* a provided stream is not held by one that left; a stop ends a session of host control; and an
\* event of a Worker is refused, or admitted and cleaned up, although the Wasm instance traps or
\* loops (EventWaits).
\* (Calls, streams and events are interchangeable, so one stands for each; r and x are never made
\* in one behaviour; of a part that does not run nobody waits.)
Waits == \/ \E c \in {r, x}: LaneCallWaits(c)
         \/ Stream!StreamAbandoned(s1)
         \/ IF part = "wasm" THEN Wasm!WasmWaits(c1) ELSE Quick!QuickWaits(c1)
         \/ Library!DylibWaits \/ Provided!StreamHolds \/ StopWaits
         \/ Event!EventWaits("e1")
CallersAreReleased == Waits ~> ~Waits
=============================================================================
