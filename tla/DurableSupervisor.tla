-------------------------- MODULE DurableSupervisor --------------------------
(***************************************************************************)
(* The fenced Generation Supervisor under its Controller loop, over one     *)
(* compare-and-swap store shared by every Host incarnation                  *)
(* (durable_supervisor.rs, host_suspension.rs, controller.rs, durable.rs    *)
(* of crates/lenso-plugin-control-plane).                                   *)
(*                                                                          *)
(* A Host process runs one operation at a time (the Controller owns the     *)
(* Supervisor), but an operation is a sequence of commits and awaits: a     *)
(* crash, another Host's commit, the clock, a runtime failure or a released *)
(* lease may come between any two of them.  op[h] says where the operation  *)
(* of Host h is.                                                            *)
(***************************************************************************)
EXTENDS ControlState

CONSTANTS
    Hosts,           \* Host incarnations that may share the store
    Exclusive,       \* TRUE: an outer owner starts a Host only when no other runs
    SuspendTimeout,  \* budget of drain_and_suspend
    FaultKinds,      \* the kinds of fault that may happen
    MaxFaults,       \* bound: faults of all kinds together
    MaxCommands,     \* bound: operator commands
    MaxStarts,       \* bound: attempts to start a Host
    MaxLeases        \* bound: leases open at a time on one slot

ASSUME BoundsAssumption ==
    /\ Exclusive \in BOOLEAN
    /\ {SuspendTimeout, MaxFaults, MaxCommands, MaxStarts, MaxLeases} \subseteq Nat

VARIABLES
    store,     \* the durable state in the ControlStateStore
    mem,       \* mem[h]: the Supervisor's own copy, InitialState when it has none
    plan,      \* plan[h]: the next state recover is building
    mode,      \* mode[h]: whether Host h runs and admits commands
    op,        \* op[h]: the operation in progress and its local variables
    slots,     \* slots[h]: Generations with a live runtime handle in the slot map
    leases,    \* leases[h][g]: leases open on that slot
    dead,      \* dead[h]: slots whose runtime reports terminal_failure
    now,       \* the clock
    faults,    \* faults so far
    commands,  \* operator commands so far
    starts     \* start attempts so far

local == <<plan, mode>>
live  == <<slots, leases, dead>>
env   == <<now, commands, starts>>
vars  == <<store, mem, plan, mode, op, slots, leases, dead, now, faults, commands, starts>>

Steps == {"idle", "opening", "replacing", "fencing", "restaging",
          "candidate", "maintenance", "staging", "unstaged", "ready",
          "reconcile", "inactive", "candidates", "stop", "retiring",
          "suspending", "draining", "bounded"}

\* todo: what the loop of the operation has left; time: the now_unix_nanos it
\* was called with, or a suspension deadline; clean: no shutdown failed yet;
\* after: the loop to resume once Generation gen is retired for that reason.
Operations ==
    [at : Steps, edge : Edges \union {None}, gen : Generations \union {None},
     reason : Reasons \union {None}, todo : SUBSET Generations, time : Nat,
     clean : BOOLEAN, after : {"inactive", "candidates"}]

Idle == [at |-> "idle", edge |-> None, gen |-> None, reason |-> None, todo |-> {},
         time |-> 0, clean |-> TRUE, after |-> "candidates"]

Init ==
    /\ store = InitialState
    /\ mem = [h \in Hosts |-> InitialState]
    /\ plan = [h \in Hosts |-> InitialState]
    /\ mode = [h \in Hosts |-> "down"]
    /\ op = [h \in Hosts |-> Idle]
    /\ slots = [h \in Hosts |-> {}]
    /\ leases = [h \in Hosts |-> [g \in Generations |-> 0]]
    /\ dead = [h \in Hosts |-> {}]
    /\ now = 0 /\ faults = 0 /\ commands = 0 /\ starts = 0

-----------------------------------------------------------------------------
(* The store, and the ways an operation goes on                             *)

Fault(kind) == kind \in FaultKinds /\ faults < MaxFaults /\ faults' = faults + 1

Stamped(h, next) == [next EXCEPT !.revision = mem[h].revision + 1]

\* Mutant: the revision is not compared.
AcceptedUnchecked(h, next) == Closed(next)

\* compare_and_swap accepts next: nobody wrote since h did, and it validates.
Accepted(h, next) == store.revision = mem[h].revision /\ Closed(next)

Write(h, next) ==
    /\ Accepted(h, next)
    /\ store' = Stamped(h, next)
    /\ UNCHANGED faults

Adopt(h, next) == mem' = [mem EXCEPT ![h] = Stamped(h, next)]

Commit(h, next) == Write(h, next) /\ Adopt(h, next)

\* TransitionRejected: fenced by another writer.
Refused(h, next) == ~Accepted(h, next) /\ UNCHANGED <<store, faults>>

\* StoreFailure: nothing written, or renamed into place with a late error.
IoError(h, next) ==
    \/ Fault("store") /\ UNCHANGED store
    \/ Fault("ack") /\ Accepted(h, next) /\ store' = Stamped(h, next)

CommitFails(h, next) == Refused(h, next) \/ IoError(h, next)

Goto(h, o) == op' = [op EXCEPT ![h] = o]

\* The operation returned to its caller, with a result or an error.
Reply(h) == Goto(h, Idle) /\ UNCHANGED <<mem, plan, mode, live>>

\* The Host stops: everything process-local is dropped.
Leave(h, how) ==
    /\ mem' = [mem EXCEPT ![h] = InitialState]
    /\ plan' = [plan EXCEPT ![h] = InitialState]
    /\ mode' = [mode EXCEPT ![h] = how]
    /\ slots' = [slots EXCEPT ![h] = {}]
    /\ leases' = [leases EXCEPT ![h] = [g \in Generations |-> 0]]
    /\ dead' = [dead EXCEPT ![h] = {}]
    /\ Goto(h, Idle)

Exit(h) == Leave(h, "down")

\* An expect("active slot must be live") fails and the task unwinds.
Panic(h) == Leave(h, "panicked") /\ UNCHANGED <<store, faults>>

Drop(h, g) ==
    /\ slots' = [slots EXCEPT ![h] = @ \ {g}]
    /\ leases' = [leases EXCEPT ![h][g] = 0]
    /\ dead' = [dead EXCEPT ![h] = @ \ {g}]

Insert(h, g) ==
    /\ slots' = [slots EXCEPT ![h] = @ \union {g}]
    /\ leases' = [leases EXCEPT ![h][g] = 0]
    /\ UNCHANGED dead

At(h, step) == op[h].at = step
Running(h) == mode[h] \in {"serving", "closing"}
Unleased(h) == \A g \in slots[h] : leases[h][g] = 0

\* The Controller takes a command only between operations and never while
\* it is shutting down.
Command(h) ==
    /\ mode[h] = "serving" /\ At(h, "idle")
    /\ commands < MaxCommands
    /\ commands' = commands + 1
    /\ UNCHANGED <<now, starts>>

-----------------------------------------------------------------------------
(* Starting a Host: HostBuilder::build, replace_suspended and recover       *)

StartGuard(step) ==
    CASE step = "opening"   -> Live(store) = {}
      [] step = "replacing" -> store.suspended
      [] step = "fencing"   -> TRUE

\* load: the snapshot on which the first compare-and-swap is based.
Load(h, step) ==
    /\ mode[h] \in {"down", "panicked"}
    /\ starts < MaxStarts
    /\ Exclusive => \A k \in Hosts : mode[k] \in {"down", "panicked"}
    /\ StartGuard(step)
    /\ mem' = [mem EXCEPT ![h] = store]
    /\ mode' = [mode EXCEPT ![h] = "starting"]
    /\ Goto(h, [Idle EXCEPT !.at = step, !.time = now])
    /\ starts' = starts + 1
    /\ UNCHANGED <<store, plan, live, now, faults, commands>>

Serve(h) == mode' = [mode EXCEPT ![h] = "serving"] /\ Goto(h, Idle)

StartFresh(h, next) ==
    /\ \/ Commit(h, next) /\ Serve(h) /\ UNCHANGED <<plan, live>>
       \/ CommitFails(h, next) /\ Exit(h)
    /\ UNCHANGED env

OpenHost(h) == At(h, "opening") /\ StartFresh(h, OpenState(mem[h]))

ReplaceHost(h) == At(h, "replacing") /\ StartFresh(h, ReplaceSuspended(mem[h]))

\* recover, first commit: every earlier Supervisor is fenced from here on.
RecoverFence(h) ==
    LET next == FenceForRecovery(mem[h])
    IN  /\ At(h, "fencing")
        /\ \/ /\ Commit(h, next)
              /\ plan' = [plan EXCEPT ![h] = Stamped(h, next)]
              /\ Goto(h, [op[h] EXCEPT !.at = "restaging", !.todo = Live(next)])
              /\ UNCHANGED <<mode, live>>
           \/ CommitFails(h, next) /\ Exit(h)
        /\ UNCHANGED env

\* What recover does with one record of the fenced state.
RecoverRecord(h, g) ==
    LET r == mem[h].records[g]
        Planned(p) == plan' = [plan EXCEPT ![h] = p]
        expired == r.lifecycle = "Standby" /\ ~Open(r.rollbackDeadline, op[h].time)
    IN  /\ At(h, "restaging") /\ g \in op[h].todo
        /\ Goto(h, [op[h] EXCEPT !.todo = @ \ {g}])
        /\ \/ /\ r.lifecycle \in {"Staged", "Ready", "Draining"}
              /\ Planned(Abandon(plan[h], g, "RecoveryCleanup"))
              /\ UNCHANGED <<live, faults>>
           \/ /\ expired
              /\ Planned(Abandon(plan[h], g, "RollbackWindowExpired"))
              /\ UNCHANGED <<live, faults>>
           \/ /\ r.lifecycle \in {"Active", "Standby"} /\ ~expired
              /\ \/ Insert(h, g) /\ UNCHANGED <<plan, faults>>
                 \/ Fault("stage") /\ Planned(Unstaged(plan[h], g)) /\ UNCHANGED live
        /\ UNCHANGED <<store, mem, mode, env>>

\* A Generation's authority is missing or mismatched, or staging it is
\* rejected: recovered slots are shut down and the start fails.
RecoverAbort(h) ==
    /\ At(h, "restaging")
    /\ \E g \in op[h].todo : mem[h].records[g].lifecycle \in {"Active", "Standby"}
    /\ Fault("authority")
    /\ Exit(h)
    /\ UNCHANGED <<store, env>>

\* The standbys that may replace an active Generation that did not restage.
Successors(h) ==
    LET lost == mem[h].active
    IN  IF plan[h].active # None \/ lost = None
        THEN {}
        ELSE {g \in slots[h] : /\ mem[h].records[lost].automatic
                               /\ plan[h].records[g].lifecycle = "Standby"
                               /\ plan[h].records[g].transition = mem[h].records[lost].transition
                               /\ Open(plan[h].records[g].rollbackDeadline, op[h].time)}

RecoverFinish(h) ==
    /\ At(h, "restaging") /\ op[h].todo = {}
    /\ \E next \in IF Successors(h) = {}
                   THEN {plan[h]}
                   ELSE {Promote(plan[h], g) : g \in Successors(h)} :
          \/ /\ Commit(h, next)
             /\ Serve(h)
             /\ plan' = [plan EXCEPT ![h] = InitialState]
             /\ UNCHANGED live
          \/ CommitFails(h, next) /\ Exit(h)
    /\ UNCHANGED env

-----------------------------------------------------------------------------
(* transition                                                               *)

\* Validate the edge and record the candidate as Staged.
Transition(h, e) ==
    LET next == StageCandidate(mem[h], e, now)
        began == [Idle EXCEPT !.at = IF e.mode = "Maintenance" THEN "candidate" ELSE "staging",
                              !.edge = e, !.time = now]
    IN  /\ Command(h)
        /\ ValidEdge(mem[h], e)
        /\ IF e.mode = "Overlap" /\ e.from \notin slots[h]
           THEN Panic(h)
           ELSE /\ NewCandidate(mem[h], e.to)
                /\ \/ Commit(h, next) /\ Goto(h, began) /\ UNCHANGED <<local, live>>
                   \/ CommitFails(h, next) /\ Reply(h)

\* A commit after which the operation returns whatever its result.
CommitAndReply(h, next) ==
    /\ \/ Commit(h, next) /\ Goto(h, Idle) /\ UNCHANGED <<local, live>>
       \/ CommitFails(h, next) /\ Reply(h)
    /\ UNCHANGED env

\* Maintenance: a leased predecessor is kept and the candidate given up.
RefuseLeased(h) ==
    /\ At(h, "candidate") /\ op[h].edge.from \in slots[h]
    /\ leases[h][op[h].edge.from] # 0
    /\ CommitAndReply(h, FailCandidate(mem[h], op[h].edge.to))

\* Maintenance: take the predecessor's slot and shut it down.
StopPredecessor(h) ==
    LET from == op[h].edge.from
    IN  /\ At(h, "candidate")
        /\ IF from \notin slots[h]
           THEN Panic(h)
           ELSE /\ leases[h][from] = 0
                /\ Drop(h, from)
                /\ \/ Goto(h, [op[h] EXCEPT !.at = "maintenance"]) /\ UNCHANGED faults
                   \/ /\ Fault("shutdown")
                      /\ Goto(h, [op[h] EXCEPT !.at = "maintenance", !.clean = FALSE])
                /\ UNCHANGED <<store, mem, local>>
        /\ UNCHANGED env

RetirePredecessor(h) ==
    LET next == StopForMaintenance(mem[h], op[h].edge, op[h].clean)
    IN  /\ At(h, "maintenance")
        /\ \/ /\ Commit(h, next)
              /\ Goto(h, IF op[h].clean THEN [op[h] EXCEPT !.at = "staging"] ELSE Idle)
              /\ UNCHANGED <<local, live>>
           \/ CommitFails(h, next) /\ Reply(h)
        /\ UNCHANGED env

StageFails(h) ==
    /\ At(h, "staging")
    /\ Fault("stage")
    /\ Goto(h, [op[h] EXCEPT !.at = "unstaged"])
    /\ UNCHANGED <<store, mem, local, live, env>>

RecordStageFailure(h) ==
    /\ At(h, "unstaged")
    /\ CommitAndReply(h, FailCandidate(mem[h], op[h].edge.to))

\* stage returned a handle; it is shut down again when Ready is not recorded.
StageSucceeds(h) ==
    LET next == MarkReady(mem[h], op[h].edge.to)
    IN  /\ At(h, "staging")
        /\ \/ /\ Commit(h, next)
              /\ Goto(h, [op[h] EXCEPT !.at = "ready"])
              /\ UNCHANGED <<local, live>>
           \/ CommitFails(h, next) /\ Reply(h)
        /\ UNCHANGED env

\* The route switch; only then does the handle become a slot.
Publish(h) ==
    LET next == Switch(mem[h], op[h].edge, op[h].time)
    IN  /\ At(h, "ready")
        /\ \/ Commit(h, next) /\ Insert(h, op[h].edge.to) /\ Goto(h, Idle) /\ UNCHANGED local
           \/ CommitFails(h, next) /\ Reply(h)
        /\ UNCHANGED env

-----------------------------------------------------------------------------
(* rollback, begin_shutdown                                                 *)

Rollback(h, g) ==
    LET next == Roll(mem[h], g, now)
    IN  /\ Command(h)
        /\ RollbackTarget(mem[h], g, now)
        /\ \/ Commit(h, next) /\ UNCHANGED <<local, live, op>>
           \/ CommitFails(h, next) /\ Reply(h)

\* The Shutdown command, or the command channel closing.
StartShutdown(h) ==
    LET next == BeginShutdown(mem[h], now)
    IN  /\ Command(h)
        /\ \/ /\ Commit(h, next)
              /\ mode' = [mode EXCEPT ![h] = "closing"]
              /\ UNCHANGED <<plan, live, op>>
           \/ CommitFails(h, next) /\ Exit(h)

\* Every slot is gone: the Controller reports the retired state and ends.
Stop(h) ==
    /\ mode[h] = "closing" /\ At(h, "idle") /\ slots[h] = {}
    /\ Exit(h)
    /\ UNCHANGED <<store, faults, env>>

-----------------------------------------------------------------------------
(* maintain: one pass per interval tick                                     *)

\* Inactive Generations whose failure the pass has yet to record.
InactiveFailures(h, s) ==
    {g \in dead[h] \ {s.active} : /\ s.records[g].health = "Healthy"
                                  /\ s.records[g].lifecycle \in Retained}

\* Mutant: the pass looks at standbys only.
EnterCandidatesStandbyOnly(o, s) ==
    LET due == {g \in Generations : s.records[g].lifecycle = "Standby"}
    IN  IF due = {} THEN Idle
        ELSE [o EXCEPT !.at = "candidates", !.todo = due, !.after = "candidates"]

\* Where a pass stands once its current loop is exhausted in state s.
EnterCandidates(o, s) ==
    LET due == {g \in Generations : s.records[g].lifecycle \in Retained}
    IN  IF due = {} THEN Idle ELSE [o EXCEPT !.at = "candidates", !.todo = due, !.after = "candidates"]

EnterInactive(h, o, s) ==
    LET failures == InactiveFailures(h, s)
    IN  IF failures = {}
        THEN EnterCandidates(o, s)
        ELSE [o EXCEPT !.at = "inactive", !.todo = failures]

Resume(o, s) ==
    IF o.todo # {}
    THEN [o EXCEPT !.at = o.after, !.gen = None, !.reason = None]
    ELSE IF o.after = "inactive"
         THEN EnterCandidates([o EXCEPT !.gen = None, !.reason = None], s)
         ELSE Idle

\* A commit of the pass; the Controller ends the Host when it fails.
CommitOrExit(h, next, o) ==
    /\ \/ Commit(h, next) /\ Goto(h, o) /\ UNCHANGED <<local, live>>
       \/ CommitFails(h, next) /\ Exit(h)
    /\ UNCHANGED env

\* Mutant: only a Generation with an automatic policy is watched.
WatchedAutomatic(h) ==
    /\ mem[h].active # None
    /\ mem[h].records[mem[h].active].health = "Healthy"
    /\ mem[h].records[mem[h].active].automatic

\* The active Generation's runtime is asked for a failure not yet recorded.
Watched(h) ==
    /\ mem[h].active # None
    /\ mem[h].records[mem[h].active].health = "Healthy"

\* reconcile_active_generation
Tick(h) ==
    LET s == mem[h]
        a == s.active
        pass == [Idle EXCEPT !.time = now]
    IN  /\ Running(h) /\ At(h, "idle")
        /\ IF Watched(h) /\ a \notin slots[h]
           THEN Panic(h) /\ UNCHANGED env
           ELSE IF Watched(h) /\ a \in dead[h]
           THEN CommitOrExit(h, MarkFailed(s, a), [pass EXCEPT !.at = "reconcile"])
           ELSE /\ Goto(h, EnterInactive(h, pass, s))
                /\ UNCHANGED <<store, mem, local, live, faults, env>>

\* The second half of mark_generation_failed: fall back or fence.
React(h) ==
    LET s == mem[h]
        t == op[h].time
        targets == AutomaticTargets(s, t)
    IN  /\ At(h, "reconcile")
        /\ \E next \in IF targets = {} THEN {FenceActive(s, t)}
                       ELSE {Roll(s, g, t) : g \in targets} :
              CommitOrExit(h, next, EnterInactive(h, op[h], next))

MarkInactiveFailed(h, g) ==
    /\ At(h, "inactive") /\ g \in op[h].todo
    /\ CommitOrExit(h, MarkFailed(mem[h], g),
                    [op[h] EXCEPT !.at = "stop", !.gen = g, !.todo = @ \ {g},
                                  !.reason = "TerminalFailure", !.after = "inactive"])

\* Mutant: the window of a standby is read from the wrong deadline.
DueReasonByDrain(h, g) ==
    LET r == mem[h].records[g]
    IN  IF r.lifecycle = "Standby" /\ ~Open(r.drainDeadline, op[h].time)
        THEN "RollbackWindowExpired" ELSE None

\* Mutant: a lease keeps a draining Generation for as long as it is held.
DueReasonUnbounded(h, g) ==
    LET r == mem[h].records[g]
    IN  IF r.lifecycle = "Draining" /\ leases[h][g] = 0 THEN "Drained" ELSE None

\* maintain_candidate: why a retained record is retired now, None if it is not.
DueReason(h, g) ==
    LET r == mem[h].records[g]
        t == op[h].time
    IN  IF r.lifecycle = "Standby"
        THEN IF Open(r.rollbackDeadline, t) THEN None ELSE "RollbackWindowExpired"
        ELSE IF r.health = "Failed" THEN "TerminalFailure"
        ELSE IF leases[h][g] # 0
        THEN IF Open(r.drainDeadline, t) THEN None ELSE "DrainDeadlineExceeded"
        ELSE IF Open(r.rollbackDeadline, t) THEN None
        ELSE IF r.reason = None THEN "Drained" ELSE r.reason

Drained(h, g) ==
    LET r == mem[h].records[g]
    IN  /\ r.lifecycle = "Draining" /\ r.health = "Healthy" /\ leases[h][g] = 0
        /\ Open(r.rollbackDeadline, op[h].time)

\* The record cannot be judged: its deadline or its slot is missing.
Unjudgeable(h, g) ==
    LET r == mem[h].records[g]
    IN  \/ r.lifecycle = "Standby" /\ r.rollbackDeadline = None
        \/ r.lifecycle = "Draining" /\ r.health = "Healthy" /\ g \notin slots[h]
        \/ r.lifecycle = "Draining" /\ leases[h][g] # 0 /\ r.drainDeadline = None

MaintainCandidate(h, g) ==
    LET rest == [op[h] EXCEPT !.todo = @ \ {g}, !.after = "candidates"]
        why == DueReason(h, g)
    IN  /\ At(h, "candidates") /\ g \in op[h].todo
        /\ IF Unjudgeable(h, g)
           THEN Exit(h) /\ UNCHANGED <<store, faults, env>>
           ELSE IF Drained(h, g)
           THEN CommitOrExit(h, ToStandby(mem[h], g), Resume(rest, mem[h]))
           ELSE /\ Goto(h, IF why = None THEN Resume(rest, mem[h])
                           ELSE [rest EXCEPT !.at = "stop", !.gen = g, !.reason = why])
                /\ UNCHANGED <<store, mem, local, live, faults, env>>

\* shutdown_and_retire, up to the await of runtime.shutdown.
StopRetained(h) ==
    LET g == op[h].gen
    IN  /\ At(h, "stop")
        /\ IF g \notin slots[h]
           THEN Exit(h) /\ UNCHANGED <<store, faults>>
           ELSE /\ Drop(h, g)
                /\ \/ Goto(h, [op[h] EXCEPT !.at = "retiring"]) /\ UNCHANGED faults
                   \/ /\ Fault("shutdown")
                      /\ Goto(h, [op[h] EXCEPT !.at = "retiring", !.clean = FALSE])
                /\ UNCHANGED <<store, mem, local>>
        /\ UNCHANGED env

\* shutdown_and_retire, after it: an unclean shutdown ends the Host too.
RetireStopped(h) ==
    LET next == Retire(mem[h], op[h].gen, op[h].reason, op[h].clean)
    IN  /\ At(h, "retiring")
        /\ \/ /\ op[h].clean
              /\ Commit(h, next)
              /\ Goto(h, Resume(op[h], next))
              /\ UNCHANGED <<local, live>>
           \/ ~op[h].clean /\ Write(h, next) /\ Exit(h)
           \/ CommitFails(h, next) /\ Exit(h)
        /\ UNCHANGED env

-----------------------------------------------------------------------------
(* suspend and drain_and_suspend                                            *)

Suspended(h) == [mem[h] EXCEPT !.suspended = TRUE]

Suspend(h) ==
    /\ Command(h)
    /\ Unleased(h)
    /\ Goto(h, [Idle EXCEPT !.at = "suspending", !.todo = slots[h]])
    /\ UNCHANGED <<store, mem, local, live, faults>>

\* One slot is taken and shut down; a slot already failed counts as unclean
\* only in the bounded suspension.
SuspendSlot(h, g) ==
    LET rest == [op[h] EXCEPT !.todo = @ \ {g}]
        failed == At(h, "bounded") /\ g \in dead[h]
    IN  /\ \/ At(h, "suspending")
           \/ At(h, "bounded") /\ now < op[h].time
        /\ g \in op[h].todo
        /\ Drop(h, g)
        /\ \/ /\ Goto(h, IF failed THEN [rest EXCEPT !.clean = FALSE] ELSE rest)
              /\ UNCHANGED faults
           \/ Fault("shutdown") /\ Goto(h, [rest EXCEPT !.clean = FALSE])
        /\ UNCHANGED <<store, mem, local, env>>

\* suspend: a fenced commit is a rejection, which the Controller survives.
FinishSuspend(h) ==
    /\ At(h, "suspending") /\ op[h].todo = {}
    /\ IF op[h].clean
       THEN \/ Write(h, Suspended(h)) /\ Exit(h)
            \/ Refused(h, Suspended(h)) /\ Reply(h)
            \/ IoError(h, Suspended(h)) /\ Exit(h)
       ELSE Exit(h) /\ UNCHANGED <<store, faults>>
    /\ UNCHANGED env

\* drain_and_suspend: the client fixed the deadline when it asked, and part
\* of the budget may be spent before the Controller is between operations.
DrainAndSuspend(h, spent) ==
    /\ Command(h)
    /\ Goto(h, [Idle EXCEPT !.at = "draining", !.time = After(now, SuspendTimeout - spent)])
    /\ UNCHANGED <<store, mem, local, live, faults>>

LeasesDrained(h) ==
    /\ At(h, "draining") /\ Unleased(h)
    /\ Goto(h, [op[h] EXCEPT !.at = "bounded", !.todo = slots[h]])
    /\ UNCHANGED <<store, mem, local, live, faults, env>>

SuspendTimesOut(h) ==
    /\ \/ At(h, "draining") /\ ~Unleased(h)
       \/ At(h, "bounded")
    /\ now >= op[h].time
    /\ Exit(h)
    /\ UNCHANGED <<store, faults, env>>

FinishBounded(h) ==
    /\ At(h, "bounded") /\ op[h].todo = {} /\ now < op[h].time
    /\ IF op[h].clean
       THEN \/ Write(h, Suspended(h)) /\ Exit(h)
            \/ CommitFails(h, Suspended(h)) /\ Exit(h)
       ELSE Exit(h) /\ UNCHANGED <<store, faults>>
    /\ UNCHANGED env

-----------------------------------------------------------------------------
(* Routes and the environment                                               *)

\* lease_at_epoch: h is still the author of the durable route it serves.
Authoritative(h) ==
    /\ store.supervisorEpoch = mem[h].supervisorEpoch
    /\ store.routingEpoch = mem[h].routingEpoch
    /\ store.revision = mem[h].revision
    /\ store.active = mem[h].active

CanLease(h, g) ==
    /\ mode[h] = "serving" /\ At(h, "idle")
    /\ Authoritative(h)
    /\ g = mem[h].active /\ g \in slots[h]

Lease(h, g) ==
    /\ CanLease(h, g)
    /\ leases[h][g] < MaxLeases
    /\ leases' = [leases EXCEPT ![h][g] = @ + 1]
    /\ UNCHANGED <<store, mem, local, op, slots, dead, faults, env>>

\* Drop for DurableGenerationLease, at any moment.
Release(h, g) ==
    /\ leases[h][g] > 0
    /\ leases' = [leases EXCEPT ![h][g] = @ - 1]
    /\ UNCHANGED <<store, mem, local, op, slots, dead, faults, env>>

\* The runtime of a live slot fails terminally.
Die(h, g) ==
    /\ g \in slots[h] \ dead[h]
    /\ Fault("terminal")
    /\ dead' = [dead EXCEPT ![h] = @ \union {g}]
    /\ UNCHANGED <<store, mem, local, op, slots, leases, env>>

Crash(h) ==
    /\ mode[h] \notin {"down", "panicked"}
    /\ Fault("crash")
    /\ Exit(h)
    /\ UNCHANGED <<store, env>>

AdvanceTime ==
    /\ now < MaxTime
    /\ now' = now + 1
    /\ UNCHANGED <<store, mem, local, op, live, faults, commands, starts>>

-----------------------------------------------------------------------------
Start(h) ==
    \/ \E step \in {"opening", "replacing", "fencing"} : Load(h, step)
    \/ OpenHost(h) \/ ReplaceHost(h) \/ RecoverFence(h) \/ RecoverFinish(h)
    \/ \E g \in Generations : RecoverRecord(h, g)
    \/ RecoverAbort(h)

Operator(h) ==
    \/ \E e \in Edges : Transition(h, e)
    \/ \E g \in Generations : Rollback(h, g)
    \/ StartShutdown(h) \/ Suspend(h)
    \/ \E spent \in {0, SuspendTimeout} : DrainAndSuspend(h, spent)

\* Steps the Controller task takes on its own once an operation has begun.
Continue(h) ==
    \/ RefuseLeased(h) \/ StopPredecessor(h) \/ RetirePredecessor(h)
    \/ RecordStageFailure(h) \/ StageSucceeds(h) \/ Publish(h)
    \/ React(h) \/ StopRetained(h) \/ RetireStopped(h)
    \/ \E g \in Generations : MarkInactiveFailed(h, g) \/ MaintainCandidate(h, g)
    \/ \E g \in Generations : SuspendSlot(h, g)
    \/ FinishSuspend(h) \/ LeasesDrained(h) \/ SuspendTimesOut(h) \/ FinishBounded(h)
    \/ Stop(h)

Work(h, g) == Lease(h, g) \/ Release(h, g) \/ Die(h, g)

Next ==
    \/ \E h \in Hosts : \/ Start(h) \/ Operator(h) \/ Tick(h) \/ Continue(h)
                        \/ StageFails(h) \/ Crash(h)
    \/ \E h \in Hosts, g \in Generations : Work(h, g)
    \/ AdvanceTime

Spec == Init /\ [][Next]_vars

\* The Controller's loop polls its interval and its own futures, and the clock
\* advances.  Nothing is assumed of operators, leases or faults.
Fairness ==
    /\ WF_vars(AdvanceTime)
    /\ \A h \in Hosts : WF_vars(Tick(h)) /\ WF_vars(Continue(h))

FairSpec == Spec /\ Fairness
=============================================================================
