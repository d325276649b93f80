---------------------------- MODULE ControlState ----------------------------
(***************************************************************************)
(* The durable control state of one App and the pure updates the Generation *)
(* Supervisor builds from it (crates/lenso-plugin-control-plane/src/        *)
(* durable.rs and durable_supervisor.rs).  A Generation is identified by    *)
(* its digest and a transition by its content, as in the code where the     *)
(* digest is content-addressed.  Left out: schema version, App id, ready    *)
(* timeout, activation direction and compatibility receipts, on which no    *)
(* guard of the supervisor depends after a transition has been validated.   *)
(***************************************************************************)
EXTENDS Naturals, FiniteSets

CONSTANTS
    Generations,     \* digests of the Generations the product may stage
    None,            \* Rust's Option::None
    DrainTimeout,    \* drain_timeout_nanos of every rollout policy
    RollbackWindow,  \* rollback_window_nanos of the policies that open one
    MaxTime          \* clock bound: deadlines are clipped to it

ASSUME NoneAssumption == None \notin Generations /\ None \notin Nat
ASSUME TimeAssumption ==
    DrainTimeout \in Nat /\ RollbackWindow \in Nat /\ MaxTime \in Nat

Lifecycles == {"Absent", "Staged", "Ready", "Active", "Draining", "Standby", "Retired"}
Healths    == {"Healthy", "Failed"}
Reasons    == {"StagingFailed", "Replaced", "Drained", "DrainDeadlineExceeded",
               "RollbackWindowExpired", "TerminalFailure", "SupervisorShutdown",
               "RecoveryCleanup", "HostBuildReplaced"}
ASSUME ReasonAssumption == None \notin Reasons

\* A record in one of these lifecycles owns, or may own, a runtime handle.
LiveLifecycles == {"Staged", "Ready", "Active", "Draining", "Standby"}
\* A predecessor kept alive behind the route.
Retained == {"Draining", "Standby"}

Edges ==
    [from      : Generations \union {None},
     to        : Generations,
     mode      : {"Initial", "Overlap", "Maintenance"},
     window    : {0, RollbackWindow},
     automatic : BOOLEAN]

Records ==
    [lifecycle        : Lifecycles,
     health           : Healths,
     transition       : Edges \union {None},
     drainDeadline    : Nat \union {None},
     rollbackDeadline : Nat \union {None},
     automatic        : BOOLEAN,
     reason           : Reasons \union {None}]

ControlStates ==
    [revision        : Nat,
     supervisorEpoch : Nat,
     routingEpoch    : Nat,
     suspended       : BOOLEAN,
     active          : Generations \union {None},
     records         : [Generations -> Records]]

\* "Absent" stands for a digest with no entry in the generations vector.
NoRecord ==
    [lifecycle |-> "Absent", health |-> "Healthy", transition |-> None,
     drainDeadline |-> None, rollbackDeadline |-> None, automatic |-> FALSE,
     reason |-> None]

InitialState ==
    [revision |-> 0, supervisorEpoch |-> 0, routingEpoch |-> 0,
     suspended |-> FALSE, active |-> None,
     records |-> [g \in Generations |-> NoRecord]]

-----------------------------------------------------------------------------
(* Time *)

\* checked_add on a clock that stops at MaxTime: the last instant stands for
\* every later one, so a deadline that would lie beyond it is clipped to it.
After(t, d) == IF t + d > MaxTime THEN MaxTime ELSE t + d

\* deadline(record)? > now, where the deadline is present
Open(deadline, t) == deadline # None /\ deadline > t

RollbackDeadline(e, t) == IF e.window = 0 THEN None ELSE After(t, e.window)

-----------------------------------------------------------------------------
(* Reading a state *)

Live(s) == {g \in Generations : s.records[g].lifecycle \in LiveLifecycles}

\* DurableControlState::validate: the route names the one Active record.
Closed(s) ==
    {g \in Generations : s.records[g].lifecycle = "Active"} = {s.active} \ {None}

\* validate_edge: e leaves the routed Generation, if there is one.
ValidEdge(s, e) ==
    /\ e.from = s.active
    /\ e.mode = "Initial" <=> s.active = None
    /\ e.mode = "Initial" => ~e.automatic

\* Mutant: only the routed Generation is excluded.
NewCandidateUnrouted(s, g) == s.records[g].lifecycle # "Active"

\* transition: a candidate has no record, or that of an earlier, retired run.
NewCandidate(s, g) == s.records[g].lifecycle \in {"Absent", "Retired"}

\* Mutant: the records need not bind the same Transition Spec.
RollbackTargetAnyTransition(s, g, t) ==
    /\ s.records[g].lifecycle \in Retained
    /\ Open(s.records[g].rollbackDeadline, t)
    /\ s.active # None

\* rollback_inner: g is the retained predecessor of the active Generation.
RollbackTarget(s, g, t) ==
    /\ s.records[g].lifecycle \in Retained
    /\ Open(s.records[g].rollbackDeadline, t)
    /\ s.active # None
    /\ s.records[s.active].transition = s.records[g].transition

\* mark_generation_failed: the predecessors the policy may fall back to.
AutomaticTargets(s, t) ==
    IF s.records[s.active].automatic
    THEN {g \in Generations : /\ RollbackTarget(s, g, t)
                              /\ s.records[g].health = "Healthy"}
    ELSE {}

-----------------------------------------------------------------------------
(* Updates; each returns the next state of one compare-and-swap.           *)

\* update_record: one record replaced, the others as they were.
Amend(s, g, r) == [s EXCEPT !.records = [@ EXCEPT ![g] = r]]

StageCandidate(s, e, t) ==
    Amend(s, e.to,
          [NoRecord EXCEPT !.lifecycle = "Staged", !.transition = e,
                           !.rollbackDeadline = RollbackDeadline(e, t),
                           !.automatic = e.automatic])

\* Mutant: the lifecycle of a candidate that did not stage is not reset.
FailCandidateHealthOnly(s, g) ==
    Amend(s, g, [s.records[g] EXCEPT !.health = "Failed", !.reason = "StagingFailed"])

FailCandidate(s, g) ==
    Amend(s, g, [s.records[g] EXCEPT !.lifecycle = "Retired", !.health = "Failed",
                                     !.reason = "StagingFailed"])

MarkReady(s, g) == Amend(s, g, [s.records[g] EXCEPT !.lifecycle = "Ready"])

MarkFailed(s, g) == Amend(s, g, [s.records[g] EXCEPT !.health = "Failed"])

\* Mutant: the stopped predecessor keeps the route.
StopForMaintenanceRouted(s, e, ok) ==
    Amend(s, e.from, [s.records[e.from] EXCEPT !.lifecycle = "Retired",
                                               !.reason = "Replaced"])

\* The predecessor of a maintenance edge is retired before the candidate is
\* staged.  The routing epoch is left alone.
StopForMaintenance(s, e, ok) ==
    LET stopped == [Amend(s, e.from,
                          [s.records[e.from] EXCEPT
                              !.lifecycle = "Retired", !.reason = "Replaced",
                              !.health = IF ok THEN @ ELSE "Failed"])
                    EXCEPT !.active = None]
    IN  IF ok THEN stopped ELSE FailCandidate(stopped, e.to)

\* The route switch of a transition whose candidate is Ready.
Switch(s, e, t) ==
    LET routed == [Amend(s, e.to, [s.records[e.to] EXCEPT !.lifecycle = "Active"])
                   EXCEPT !.routingEpoch = @ + 1, !.active = e.to]
    IN  IF e.mode # "Overlap"
        THEN routed
        ELSE Amend(routed, e.from,
                   [routed.records[e.from] EXCEPT
                       !.lifecycle = "Draining",
                       !.drainDeadline = After(t, DrainTimeout),
                       !.transition = e,
                       !.rollbackDeadline = RollbackDeadline(e, t),
                       !.automatic = e.automatic])

Roll(s, g, t) ==
    LET routed == [Amend(s, g, [s.records[g] EXCEPT !.lifecycle = "Active",
                                                    !.drainDeadline = None])
                   EXCEPT !.routingEpoch = @ + 1, !.active = g]
    IN  Amend(routed, s.active,
              [s.records[s.active] EXCEPT !.lifecycle = "Draining",
                                          !.drainDeadline = After(t, DrainTimeout)])

FenceActive(s, t) ==
    [Amend(s, s.active,
           [s.records[s.active] EXCEPT !.lifecycle = "Draining",
                                       !.drainDeadline = After(t, DrainTimeout)])
     EXCEPT !.routingEpoch = @ + 1, !.active = None]

ToStandby(s, g) ==
    Amend(s, g, [s.records[g] EXCEPT !.lifecycle = "Standby", !.drainDeadline = None])

Retire(s, g, reason, ok) ==
    Amend(s, g, [s.records[g] EXCEPT !.lifecycle = "Retired", !.drainDeadline = None,
                                     !.rollbackDeadline = None, !.reason = reason,
                                     !.health = IF ok THEN @ ELSE "Failed"])

\* An update that clears the route, if one is set, under a new routing epoch.
Unroute(s) ==
    [s EXCEPT !.active = None,
              !.routingEpoch = IF s.active = None THEN @ ELSE @ + 1]

BeginShutdown(s, t) ==
    [Unroute(s) EXCEPT !.records = [g \in Generations |->
        IF s.records[g].lifecycle \in {"Active", "Draining", "Standby"}
        THEN [s.records[g] EXCEPT !.lifecycle = "Draining",
                                  !.reason = "SupervisorShutdown",
                                  !.rollbackDeadline = None,
                                  !.drainDeadline = After(t, DrainTimeout)]
        ELSE s.records[g]]]

\* Mutant: a new Host does not withdraw the suspension of the one before.
OpenStateSuspended(s) == [s EXCEPT !.supervisorEpoch = @ + 1]

\* Mutant: the supervisor epoch is not taken.
OpenStateSameEpoch(s) == [s EXCEPT !.suspended = FALSE]

\* HostBuilder::build: a new Supervisor takes the next supervisor epoch.
OpenState(s) == [s EXCEPT !.suspended = FALSE, !.supervisorEpoch = @ + 1]

ReplaceSuspended(s) ==
    [Unroute(OpenState(s)) EXCEPT !.records = [g \in Generations |->
        IF g \in Live(s)
        THEN [s.records[g] EXCEPT !.lifecycle = "Retired", !.drainDeadline = None,
                                  !.reason = "HostBuildReplaced"]
        ELSE s.records[g]]]

\* The first commit of recover: it fences the previous Supervisor.
FenceForRecovery(s) == [OpenState(s) EXCEPT !.routingEpoch = @ + 1]

\* recover: a record that is not restaged is retired with a reason.
Abandon(s, g, reason) ==
    Amend(s, g, [s.records[g] EXCEPT !.lifecycle = "Retired", !.reason = reason])

\* recover: a Generation whose restaging failed loses the route it held.
Unstaged(s, g) ==
    [FailCandidate(s, g) EXCEPT !.active = IF @ = g THEN None ELSE @]

\* Mutant: the takeover keeps the routing epoch.
PromoteSameEpoch(s, g) ==
    [Amend(s, g, [s.records[g] EXCEPT !.lifecycle = "Active"]) EXCEPT !.active = g]

\* recover: the standby that takes over from the active that did not restage.
Promote(s, g) ==
    [Amend(s, g, [s.records[g] EXCEPT !.lifecycle = "Active"])
     EXCEPT !.active = g, !.routingEpoch = @ + 1]
=============================================================================
