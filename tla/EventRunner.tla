----------------------------- MODULE EventRunner -----------------------------
(***************************************************************************)
(* The event runner of a Worker (packages/workers-runtime: runner.mjs, and *)
(* the scopes of scope.mjs that its owners hand to it).  All events of an  *)
(* isolate share one Wasm instance, a generation.  It is retired when it   *)
(* is idle and has admitted enough; a trap or a deadline abandons it: all  *)
(* its events are rejected at once, and the next generation stays closed   *)
(* until the owner of each has confirmed that its native I/O is over.      *)
(*                                                                         *)
(* A step runs from one await or callback to the next.  External: the      *)
(* operation in Wasm, the owner's preparation and native I/O, its signal.  *)
(***************************************************************************)
EXTENDS Naturals, FiniteSets

CONSTANTS
  Events,
  MaxConcurrent,     \* maxConcurrent
  RetireAt,          \* retirementAdmissionLimit
  HardLimit,         \* admissions of one generation at most (96 in the code)
  QueueLimit,        \* events that wait for the next generation (32 in the code)
  RunnerMaxFaults    \* bound: resets, aborts and cleanups that fail

\* createEventRunner refuses any other retirement limit.
ASSUME RetirementAssumption == HardLimit \in Nat /\ RetireAt \in 1..HardLimit

VARIABLES
  instance,     \* generation, initialized, unavailable, and admitted (admittedCount)
  fenced,       \* is there a quarantine?
  owners,       \* whose release it waits for
  admittedNow,  \* pending: events of the generation that are not cleaned up
  rotation,     \* events that hold a place of the rotation queue (queued)
  at,           \* where execute stands for an event
  born,         \* the generation it was admitted to
  entered,      \* "no", "started" (in Wasm) or "opened" (its session is published)
  armed,        \* events whose timer runs
  cancelling,
  aborted,      \* whose signal is aborted
  preparing,    \* whose preparation runs
  scopeClosed,  \* whose scope admits no operation any more
  io,           \* native I/O in a scope: "none", "running" or "cleanup" that it began
  unreleased,   \* scopes whose cleanup failed
  overdue,      \* history: whose session was cancelled during its cleanup
  runnerFaults

isolate == <<instance, fenced, owners, admittedNow>>
event == <<born, entered, cancelling, aborted, preparing>>
scope == <<scopeClosed, io, unreleased>>
history == <<overdue, runnerFaults>>
runnerVars == <<isolate, rotation, at, armed, event, scope, history>>

Places == {"new", "waiting", "preparing", "started", "open", "settled", "cleaning", "late", "done"}

RunnerInit ==
  /\ instance = [generation |-> 1, initialized |-> TRUE, unavailable |-> FALSE, admitted |-> 0]
  /\ fenced = FALSE /\ owners = {} /\ admittedNow = {} /\ rotation = {}
  /\ at = [e \in Events |-> "new"] /\ born = [e \in Events |-> 0]
  /\ entered = [e \in Events |-> "no"] /\ armed = {} /\ cancelling = {} /\ aborted = {}
  /\ preparing = {} /\ scopeClosed = {} /\ io = [e \in Events |-> "none"] /\ unreleased = {}
  /\ overdue = {} /\ runnerFaults = 0

May(fails) == /\ fails => runnerFaults < RunnerMaxFaults
              /\ runnerFaults' = IF fails THEN runnerFaults + 1 ELSE runnerFaults

-----------------------------------------------------------------------------
(* Generations                                                             *)

\* rotate: the next generation, which opens unless there is a quarantine or its reset fails.
Rotated(quarantined, fails) ==
  [generation |-> instance.generation + 1, initialized |-> ~fails,
   unavailable |-> quarantined \/ fails, admitted |-> IF fails THEN instance.admitted ELSE 0]

\* abandon, while event e goes to `to' and its timer is over: one batch at a time, of every event
\* that is pending.  Their scopes are closed, and who has no outcome yet is rejected.
Abandon(e, to, fails) ==
  LET moved == [at EXCEPT ![e] = to] IN
  IF fenced \/ ~instance.initialized
  THEN /\ ~fails /\ at' = moved /\ armed' = armed \ {e}
       /\ UNCHANGED <<isolate, scopeClosed, runnerFaults>>
  ELSE /\ fenced' = TRUE /\ owners' = admittedNow /\ admittedNow' = {}
       /\ at' = [f \in Events |->
            IF f \in admittedNow /\ moved[f] \in {"preparing", "started", "open"}
            THEN "settled" ELSE moved[f]]
       /\ armed' = armed \ (admittedNow \cup {e}) /\ scopeClosed' = scopeClosed \cup admittedNow
       /\ instance' = Rotated(TRUE, fails) /\ May(fails)

\* release: the last owner opens the next generation, if it has come up.
Release(e) ==
  LET opens == fenced /\ owners \ {e} = {} /\ instance.initialized IN
  /\ owners' = owners \ {e} /\ fenced' = (fenced /\ ~opens)
  /\ instance' = IF opens THEN [instance EXCEPT !.unavailable = FALSE] ELSE instance

-----------------------------------------------------------------------------
(* Admission                                                               *)

Barred(e) == e \in aborted \/ instance.unavailable
Full == instance.admitted >= HardLimit
Blocked == Full /\ admittedNow # {}
Asks(e) == at[e] \in {"new", "waiting"}

\* execute refuses: no instance, no place in the queue or among the pending events, or the
\* deadline of a waiting event has passed.
Refused(e) ==
  /\ Asks(e)
  /\ \/ Barred(e)
     \/ Blocked /\ (at[e] = "waiting" \/ Cardinality(rotation) >= QueueLimit)
     \/ ~Full /\ Cardinality(admittedNow) >= MaxConcurrent
  /\ at' = [at EXCEPT ![e] = "done"] /\ rotation' = rotation \ {e}
  /\ UNCHANGED <<isolate, armed, event, scope, history>>

Waits(e) ==
  /\ at[e] = "new" /\ ~Barred(e) /\ Blocked /\ Cardinality(rotation) < QueueLimit
  /\ at' = [at EXCEPT ![e] = "waiting"] /\ rotation' = rotation \cup {e}
  /\ UNCHANGED <<isolate, armed, event, scope, history>>

\* The event enters Wasm, and its watchdog runs from then on.
Starts(e) == entered' = [entered EXCEPT ![e] = "started"] /\ armed' = armed \cup {e}

\* The event is pending from now on; it enters at once if its owner prepares nothing.  (That a
\* generation is full and idle, for which execute tests too, does not happen: RetiresWhenIdle.)
Admitted(e, prepares) ==
  /\ Asks(e) /\ ~Barred(e) /\ ~Full /\ Cardinality(admittedNow) < MaxConcurrent
  /\ instance' = [instance EXCEPT !.admitted = @ + 1]
  /\ admittedNow' = admittedNow \cup {e} /\ born' = [born EXCEPT ![e] = instance.generation]
  /\ at' = [at EXCEPT ![e] = IF prepares THEN "preparing" ELSE "started"]
  /\ IF prepares THEN preparing' = preparing \cup {e} /\ UNCHANGED <<entered, armed>>
     ELSE Starts(e) /\ UNCHANGED preparing
  /\ UNCHANGED <<fenced, owners, rotation, cancelling, aborted, scope, history>>

-----------------------------------------------------------------------------
(* In the instance                                                         *)

\* The preparation of an event that was rejected meanwhile only ends.
PrepareEnds(e, ok) ==
  /\ e \in preparing /\ preparing' = preparing \ {e}
  /\ IF at[e] = "preparing" /\ ok /\ e \notin aborted
     THEN at' = [at EXCEPT ![e] = "started"] /\ Starts(e)
     ELSE /\ at' = IF at[e] = "preparing" THEN [at EXCEPT ![e] = "settled"] ELSE at
          /\ UNCHANGED <<entered, armed>>
  /\ UNCHANGED <<isolate, rotation, born, cancelling, aborted, scope, history>>

\* run returns a value, or one that does not decode; a session has its clean terminal receipt.
Ends(e) ==
  /\ at[e] \in {"started", "open"} /\ at' = [at EXCEPT ![e] = "settled"] /\ armed' = armed \ {e}
  /\ UNCHANGED <<isolate, rotation, event, scope, history>>

\* open: a value that is no session is rejected, and leaves its timer to the finalizer.
OpensNothing(e) ==
  /\ at[e] = "started" /\ at' = [at EXCEPT ![e] = "settled"]
  /\ UNCHANGED <<isolate, rotation, armed, event, scope, history>>

\* The headers leave; the session has a deadline of its own, or that of its cancellation.
Opens(e) ==
  /\ at[e] = "started" /\ at' = [at EXCEPT ![e] = "open"]
  /\ entered' = [entered EXCEPT ![e] = "opened"]
  /\ UNCHANGED <<isolate, rotation, armed, born, cancelling, aborted, preparing, scope, history>>

\* A trap, or a session that did not shut down cleanly.
Traps(e, fails) ==
  /\ at[e] \in {"started", "open"} /\ Abandon(e, at[e], fails)
  /\ UNCHANGED <<rotation, event, io, unreleased, overdue>>

\* A watchdog asks only whether a generation is abandoned already.  (The finalizer of an event that
\* has its outcome runs before any timer does.)
Expires(e, fails) ==
  /\ e \in armed /\ at[e] # "settled" /\ Abandon(e, at[e], fails)
  /\ UNCHANGED <<rotation, event, io, unreleased, overdue>>

-----------------------------------------------------------------------------
(* Cancellation and native I/O                                             *)

\* scope.abort: the scope is closed, and native I/O told to stop, which may fail.
AbortScope(e, fails) ==
  /\ scopeClosed' = scopeClosed \cup {e} /\ May(fails) /\ UNCHANGED io
  /\ unreleased' = IF fails THEN unreleased \cup {e} ELSE unreleased

\* onAbort: what is in Wasm gets the deadline of a cancellation, once.
OnAbort(e, fails) ==
  /\ AbortScope(e, fails)
  /\ IF entered[e] # "no" /\ e \notin cancelling
     THEN cancelling' = cancelling \cup {e} /\ armed' = armed \cup {e}
     ELSE UNCHANGED <<cancelling, armed>>
  /\ UNCHANGED <<isolate, rotation, at, born, entered, preparing>>

\* The signal of the request; the runner listens from admission to the finalizer.
Aborts(e, fails) ==
  /\ e \notin aborted /\ aborted' = aborted \cup {e} /\ UNCHANGED overdue
  /\ \/ /\ Asks(e) /\ ~fails
        /\ UNCHANGED <<isolate, rotation, at, armed, born, entered, cancelling, preparing, scope,
                       runnerFaults>>
     \/ at[e] \in {"preparing", "started", "open", "settled"} /\ OnAbort(e, fails)

\* session.cancel, for as long as the event is pending: also after its terminal receipt, while
\* its finalizer, which has cleared its timer, awaits the scope.
Cancels(e, fails) ==
  /\ entered[e] = "opened" /\ e \in admittedNow /\ OnAbort(e, fails)
  /\ overdue' = IF at[e] = "cleaning" THEN overdue \cup {e} ELSE overdue
  /\ UNCHANGED aborted

BeginsIo(e) ==
  /\ at[e] \in {"started", "open"} /\ e \notin scopeClosed /\ io[e] = "none"
  /\ io' = [io EXCEPT ![e] = "running"]
  /\ UNCHANGED <<isolate, rotation, at, armed, event, scopeClosed, unreleased, history>>

\* A late completion may begin cleanup of its own, also in a closed scope.
EndsIo(e, cleans) ==
  /\ io[e] # "none" /\ (cleans => io[e] = "running")
  /\ io' = [io EXCEPT ![e] = IF cleans THEN "cleanup" ELSE "none"]
  /\ UNCHANGED <<isolate, rotation, at, armed, event, scopeClosed, unreleased, history>>

-----------------------------------------------------------------------------
(* The finalizer, in the owner's own context                               *)

Finalizes(e, fails) ==
  /\ at[e] = "settled" /\ at' = [at EXCEPT ![e] = "cleaning"] /\ armed' = armed \ {e}
  /\ AbortScope(e, fails)
  /\ UNCHANGED <<isolate, rotation, event, overdue>>

Cleanable(e) == at[e] = "cleaning" /\ e \notin preparing

\* What drain waits for, and finds.
Clean(e) == io[e] = "none" /\ e \notin unreleased

\* The generation is retired at the end of the last event, if it has admitted enough.
Confirms(e, fails) ==
  /\ Cleanable(e) /\ Clean(e)
  /\ at' = [at EXCEPT ![e] = "done"] /\ rotation' = rotation \ {e}
  /\ admittedNow' = admittedNow \ {e} /\ May(fails)
  /\ IF ~instance.unavailable /\ admittedNow = {e} /\ instance.admitted >= RetireAt
     THEN instance' = Rotated(FALSE, fails) /\ UNCHANGED <<fenced, owners>>
     ELSE Release(e) /\ ~fails
  /\ UNCHANGED <<armed, event, scope, overdue>>

\* settled() is false at its deadline or for an abort that failed, or a scope of another make
\* rejects: also an event that succeeded abandons its generation.
LeavesUncertain(e, fails) ==
  /\ Cleanable(e) /\ ~Clean(e) /\ rotation' = rotation \ {e}
  /\ IF born[e] = instance.generation THEN Abandon(e, "late", fails)
     ELSE /\ at' = [at EXCEPT ![e] = "late"] /\ ~fails
          /\ UNCHANGED <<isolate, armed, scopeClosed, runnerFaults>>
  /\ UNCHANGED <<event, io, unreleased, overdue>>

\* Another make of scope gives no evidence of a release at all.
Rejects(e) ==
  /\ Cleanable(e) /\ e \notin unreleased /\ unreleased' = unreleased \cup {e} /\ May(TRUE)
  /\ UNCHANGED <<isolate, rotation, at, armed, event, scopeClosed, io, overdue>>

\* The scope goes on watching its native I/O.
LateRelease(e) ==
  /\ at[e] = "late" /\ Clean(e) /\ at' = [at EXCEPT ![e] = "done"] /\ Release(e)
  /\ UNCHANGED <<admittedNow, rotation, armed, event, scope, history>>

-----------------------------------------------------------------------------
\* The owner of an event (its preparation, its turns, its finalizer) and its watchdog, which run.
OwnerStep(e) ==
  \/ at[e] = "waiting" /\ (Refused(e) \/ \E p \in BOOLEAN: Admitted(e, p))
  \/ \E b \in BOOLEAN:
       PrepareEnds(e, b) \/ Finalizes(e, b) \/ Confirms(e, b) \/ LeavesUncertain(e, b)
WatchdogStep(e) == \E b \in BOOLEAN: Expires(e, b)

EventNext(e) ==
  \/ Refused(e) \/ Waits(e) \/ Ends(e) \/ OpensNothing(e) \/ Opens(e)
  \/ BeginsIo(e) \/ Rejects(e) \/ LateRelease(e)
  \/ \E b \in BOOLEAN:
       \/ Admitted(e, b) \/ PrepareEnds(e, b) \/ Traps(e, b) \/ Expires(e, b)
       \/ Aborts(e, b) \/ Cancels(e, b) \/ EndsIo(e, b)
       \/ Finalizes(e, b) \/ Confirms(e, b) \/ LeavesUncertain(e, b)

RunnerNext == \E e \in Events: EventNext(e)

RunnerSpec == RunnerInit /\ [][RunnerNext]_runnerVars

-----------------------------------------------------------------------------
(* Properties                                                              *)

Stale(e) == at[e] \in {"settled", "cleaning", "late"} /\ born[e] # instance.generation

\* Nothing enters a generation while an event of an abandoned one may still have native I/O.
QuarantineHolds == (\E e \in Events: Stale(e)) => instance.unavailable

\* Admission is closed only for a reset that failed, for an owner that has not confirmed its
\* release, or for a session that was cancelled during its cleanup (whose watchdog nothing stops).
ClosedForAReason ==
  instance.unavailable => ~instance.initialized \/ overdue # {} \/ \E e \in Events: Stale(e)

\* Any other watchdog runs for an event of the generation that it would abandon.
WatchdogsOwned ==
  \A e \in armed \ overdue: at[e] # "settled" => e \in admittedNow /\ born[e] = instance.generation

\* An open, idle generation has admitted less than retires it.
RetiresWhenIdle == ~instance.unavailable /\ admittedNow = {} => instance.admitted < RetireAt

EventsContained == QuarantineHolds /\ ClosedForAReason /\ WatchdogsOwned /\ RetiresWhenIdle

\* An event that was begun is refused, or admitted and cleaned up.
EventWaits(e) == at[e] \notin {"new", "late", "done"}
=============================================================================
