-------------------------- MODULE SupervisorProofs --------------------------
(***************************************************************************)
(* Fencing holds for every number of Hosts and Generations, every timeout  *)
(* and every combination of the modelled faults.                           *)
(*                                                                         *)
(* First the updates of ControlState: each returns a control state, keeps  *)
(* or takes the supervisor epoch, and never gives the route to another     *)
(* Generation under the same routing epoch; then what each does to the     *)
(* route and to which records.  Then the steps of a Host: every one is     *)
(* shown to be a HostStep, which leaves the store alone or replaces the    *)
(* exact state it had read, and whose memory afterwards is what it was,    *)
(* nothing, or the state now stored.  HostStep preserves the fencing       *)
(* invariants.                                                             *)
(*                                                                         *)
(* Next, the records of a Supervisor make sense in every state that any    *)
(* number of Hosts, crashes, races and late errors can reach, and what is  *)
(* written to the store is a step of GenerationRouting.  Every update is   *)
(* shown to be Proper for the states it is applied to; every step of a     *)
(* Host leaves the store alone or replaces it by a proper update of itself.*)
(*                                                                         *)
(* Last, what a Supervisor keeps it keeps as long as was promised: a leased*)
(* runtime until its drain deadline, a standby until its rollback deadline.*)
(* Every step of a Host is shown to be Tended: the operation it leaves may *)
(* stop only what has failed, has outlived its deadline or is not leased.  *)
(***************************************************************************)
EXTENDS SupervisorProperties, FiniteSetTheorems, TLAPS

-----------------------------------------------------------------------------
(* The updates of the durable state                                        *)

\* n may follow s: within a routing epoch the route is at most withdrawn.
Pinned(s, n) ==
    /\ n.routingEpoch >= s.routingEpoch
    /\ n.routingEpoch = s.routingEpoch => n.active \in {s.active, None}

\* What an update by the Supervisor that holds the current epoch may do.
Follows(s, n) ==
    /\ n \in ControlStates
    /\ n.supervisorEpoch = s.supervisorEpoch
    /\ Pinned(s, n)

\* What the first commit of a new Supervisor may do.
TakesOver(s, n) ==
    /\ n \in ControlStates
    /\ n.supervisorEpoch = s.supervisorEpoch + 1
    /\ Pinned(s, n)

\* A clipped deadline is still an instant (the checked_add of transition).
LEMMA AfterType == ASSUME NEW t \in Nat, NEW d \in Nat PROVE After(t, d) \in Nat
  BY TimeAssumption DEF After

\* The rollback deadline of an edge is an instant or absent.
LEMMA RollbackDeadlineType ==
  ASSUME NEW e \in Edges, NEW t \in Nat
  PROVE  RollbackDeadline(e, t) \in Nat \union {None}
  BY AfterType, TimeAssumption DEF RollbackDeadline, Edges

\* The names the updates write.
LEMMA Names ==
  /\ {"Absent", "Staged", "Ready", "Active", "Draining", "Standby", "Retired"} = Lifecycles
  /\ {"Healthy", "Failed"} = Healths
  /\ {"StagingFailed", "Replaced", "Drained", "DrainDeadlineExceeded",
      "RollbackWindowExpired", "TerminalFailure", "SupervisorShutdown",
      "RecoveryCleanup", "HostBuildReplaced"} = Reasons
  BY DEF Lifecycles, Healths, Reasons

\* The initial state is a control state.
LEMMA InitialStateType == InitialState \in ControlStates
  <1>1. NoRecord \in Records
    BY DEF NoRecord, Records, Lifecycles, Healths
  <1> QED BY <1>1 DEF InitialState, ControlStates

\* A record stays a record when its fields are given values of their types.
LEMMA RecordFields ==
  ASSUME NEW r \in Records
  PROVE  /\ \A l \in Lifecycles : [r EXCEPT !.lifecycle = l] \in Records
         /\ \A h \in Healths : [r EXCEPT !.health = h] \in Records
         /\ \A e \in Edges \union {None} : [r EXCEPT !.transition = e] \in Records
         /\ \A d \in Nat \union {None} : /\ [r EXCEPT !.drainDeadline = d] \in Records
                                         /\ [r EXCEPT !.rollbackDeadline = d] \in Records
         /\ \A b \in BOOLEAN : [r EXCEPT !.automatic = b] \in Records
         /\ \A x \in Reasons \union {None} : [r EXCEPT !.reason = x] \in Records
  BY Zenon DEF Records

\* Pinned and Follows compose: the updates of one commit are one update.
LEMMA FollowsTransitive ==
  ASSUME NEW r \in ControlStates, NEW s, NEW t, Follows(r, s), Follows(s, t)
  PROVE  Follows(r, t)
  <1>1. /\ r.routingEpoch \in Nat /\ s.routingEpoch \in Nat /\ t.routingEpoch \in Nat
        /\ t \in ControlStates
    BY DEF Follows, ControlStates
  <1> QED BY <1>1 DEF Follows, Pinned

\* The records are replaced and the route and the epochs left alone.
LEMMA RecordsFollow ==
  ASSUME NEW s \in ControlStates, NEW f \in [Generations -> Records]
  PROVE  Follows(s, [s EXCEPT !.records = f])
  <1> DEFINE n == [s EXCEPT !.records = f]
  <1>1. /\ n \in ControlStates
        /\ n.supervisorEpoch = s.supervisorEpoch
        /\ n.routingEpoch = s.routingEpoch /\ n.active = s.active
    BY Zenon DEF ControlStates
  <1>2. s.routingEpoch \in Nat
    BY DEF ControlStates
  <1> HIDE DEF n
  <1>3. Follows(s, n)
    BY <1>1, <1>2 DEF Follows, Pinned
  <1> QED BY <1>3 DEF n

\* update_record: one record is replaced and nothing else changes.
LEMMA AmendFollows ==
  ASSUME NEW s \in ControlStates, NEW g, NEW r, g \in Generations => r \in Records
  PROVE  Follows(s, Amend(s, g, r))
  <1>1. [s.records EXCEPT ![g] = r] \in [Generations -> Records]
    BY DEF ControlStates
  <1> QED BY <1>1, RecordsFollow DEF Amend

\* The route moves to g under the next routing epoch.
LEMMA RouteFollows ==
  ASSUME NEW s \in ControlStates, NEW g \in Generations \union {None}
  PROVE  Follows(s, [s EXCEPT !.routingEpoch = @ + 1, !.active = g])
  <1> DEFINE n == [s EXCEPT !.routingEpoch = @ + 1, !.active = g]
  <1>1. s.routingEpoch \in Nat /\ s.routingEpoch + 1 \in Nat
    BY DEF ControlStates
  <1>2. /\ n \in ControlStates
        /\ n.supervisorEpoch = s.supervisorEpoch
        /\ n.routingEpoch = s.routingEpoch + 1
    BY <1>1, Zenon DEF ControlStates
  <1> HIDE DEF n
  <1>3. Follows(s, n)
    BY <1>1, <1>2 DEF Follows, Pinned
  <1> QED BY <1>3 DEF n

\* The route is withdrawn, or the Host suspended, in the same routing epoch.
LEMMA FlagsFollow ==
  ASSUME NEW s \in ControlStates
  PROVE  /\ Follows(s, [s EXCEPT !.active = None])
         /\ Follows(s, [s EXCEPT !.suspended = TRUE])
  <1> DEFINE n == [s EXCEPT !.active = None]
             m == [s EXCEPT !.suspended = TRUE]
  <1>1. s.routingEpoch \in Nat
    BY DEF ControlStates
  <1>2. /\ n \in ControlStates /\ m \in ControlStates
        /\ n.supervisorEpoch = s.supervisorEpoch /\ m.supervisorEpoch = s.supervisorEpoch
        /\ n.routingEpoch = s.routingEpoch /\ m.routingEpoch = s.routingEpoch
        /\ n.active = None /\ m.active = s.active
    BY Zenon DEF ControlStates
  <1> HIDE DEF n, m
  <1>3. Follows(s, n) /\ Follows(s, m)
    BY <1>1, <1>2 DEF Follows, Pinned
  <1> QED BY <1>3 DEF n, m

\* A record is read from a control state.
LEMMA RecordType ==
  ASSUME NEW s \in ControlStates, NEW g \in Generations
  PROVE  s.records[g] \in Records
  BY DEF ControlStates

-----------------------------------------------------------------------------
(* One record                                                               *)

\* StageCandidate: the candidate of an edge gets a fresh Staged record.
LEMMA StageCandidateFollows ==
  ASSUME NEW s \in ControlStates, NEW e \in Edges, NEW t \in Nat
  PROVE  Follows(s, StageCandidate(s, e, t))
  <1> DEFINE d == RollbackDeadline(e, t)
             r == [NoRecord EXCEPT !.lifecycle = "Staged", !.transition = e,
                                   !.rollbackDeadline = d, !.automatic = e.automatic]
  <1>1. d \in Nat \union {None} /\ e.automatic \in BOOLEAN
    BY RollbackDeadlineType DEF Edges
  <1> HIDE DEF d
  <1>2. r \in Records
    BY <1>1, Names, Zenon DEF NoRecord, Records
  <1> QED BY <1>2, AmendFollows DEF StageCandidate, d

\* MarkReady, MarkFailed, FailCandidate and ToStandby change one record.
LEMMA MarksFollow ==
  ASSUME NEW s \in ControlStates, NEW g
  PROVE  /\ Follows(s, MarkReady(s, g)) /\ Follows(s, MarkFailed(s, g))
         /\ Follows(s, FailCandidate(s, g)) /\ Follows(s, ToStandby(s, g))
  <1>1. Follows(s, MarkReady(s, g))
    <2>1. g \in Generations => [s.records[g] EXCEPT !.lifecycle = "Ready"] \in Records
      BY RecordType, RecordFields, Names
    <2> QED BY <2>1, AmendFollows DEF MarkReady
  <1>2. Follows(s, MarkFailed(s, g))
    <2>1. g \in Generations => [s.records[g] EXCEPT !.health = "Failed"] \in Records
      BY RecordType, RecordFields, Names
    <2> QED BY <2>1, AmendFollows DEF MarkFailed
  <1>3. Follows(s, FailCandidate(s, g))
    <2>1. ASSUME NEW r \in Records
          PROVE  [r EXCEPT !.lifecycle = "Retired", !.health = "Failed",
                           !.reason = "StagingFailed"] \in Records
      BY RecordFields, Names
    <2> QED BY <2>1, RecordType, AmendFollows DEF FailCandidate
  <1>4. Follows(s, ToStandby(s, g))
    <2>1. ASSUME NEW r \in Records
          PROVE  [r EXCEPT !.lifecycle = "Standby", !.drainDeadline = None] \in Records
      BY RecordFields, Names
    <2> QED BY <2>1, RecordType, AmendFollows DEF ToStandby
  <1> QED BY <1>1, <1>2, <1>3, <1>4

\* shutdown_and_retire, and the records recover does not restage.
LEMMA RetireFollows ==
  ASSUME NEW s \in ControlStates, NEW g, NEW reason \in Reasons \union {None}, NEW ok
  PROVE  Follows(s, Retire(s, g, reason, ok)) /\ Follows(s, Abandon(s, g, reason))
  <1>1. ASSUME NEW r \in Records
        PROVE  [r EXCEPT !.lifecycle = "Retired", !.drainDeadline = None,
                         !.rollbackDeadline = None, !.reason = reason,
                         !.health = IF ok THEN @ ELSE "Failed"] \in Records
    <2> DEFINE h == IF ok THEN r.health ELSE "Failed"
    <2>1. h \in Healths
      BY Names DEF Records
    <2> HIDE DEF h
    <2>2. [r EXCEPT !.lifecycle = "Retired", !.drainDeadline = None,
                    !.rollbackDeadline = None, !.reason = reason, !.health = h] \in Records
      BY <2>1, RecordFields, Names
    <2> QED BY <2>2, Zenon DEF h, Records
  <1>2. ASSUME NEW r \in Records
        PROVE  [r EXCEPT !.lifecycle = "Retired", !.reason = reason] \in Records
    BY RecordFields, Names
  <1>3. Follows(s, Retire(s, g, reason, ok))
    BY <1>1, RecordType, AmendFollows DEF Retire
  <1>4. Follows(s, Abandon(s, g, reason))
    BY <1>2, RecordType, AmendFollows DEF Abandon
  <1> QED BY <1>3, <1>4

-----------------------------------------------------------------------------
(* Several records, or a record and the route                               *)

\* StopForMaintenance: the predecessor leaves the route in the same epoch.
LEMMA StopForMaintenanceFollows ==
  ASSUME NEW s \in ControlStates, NEW e, NEW ok
  PROVE  Follows(s, StopForMaintenance(s, e, ok))
  <1> DEFINE R(r) == [r EXCEPT !.lifecycle = "Retired", !.reason = "Replaced",
                               !.health = IF ok THEN @ ELSE "Failed"]
             retired == Amend(s, e.from, R(s.records[e.from]))
             stopped == [retired EXCEPT !.active = None]
  <1>1. ASSUME NEW r \in Records PROVE R(r) \in Records
    <2> DEFINE h == IF ok THEN r.health ELSE "Failed"
    <2>1. h \in Healths
      BY Names DEF Records
    <2> HIDE DEF h
    <2>2. [r EXCEPT !.lifecycle = "Retired", !.reason = "Replaced", !.health = h] \in Records
      BY <2>1, RecordFields, Names
    <2> QED BY <2>2, Zenon DEF h, Records
  <1> HIDE DEF R
  <1>2. Follows(s, retired)
    BY <1>1, RecordType, AmendFollows
  <1> HIDE DEF retired
  <1>3. Follows(s, stopped)
    BY <1>2, FlagsFollow, FollowsTransitive DEF Follows
  <1> HIDE DEF stopped
  <1>4. Follows(s, FailCandidate(stopped, e.to))
    BY <1>3, MarksFollow, FollowsTransitive DEF Follows
  <1> QED BY <1>3, <1>4 DEF StopForMaintenance, stopped, retired, R

\* The route switch of a transition, a rollback and a fence: a new routing
\* epoch, whatever happens to the records.
LEMMA RoutedAmendFollows ==
  ASSUME NEW s \in ControlStates, NEW k, NEW r, k \in Generations => r \in Records,
         NEW g \in Generations \union {None}
  PROVE  Follows(s, [Amend(s, k, r) EXCEPT !.routingEpoch = @ + 1, !.active = g])
  <1> DEFINE n == Amend(s, k, r)
  <1>1. Follows(s, n) /\ n \in ControlStates
    BY AmendFollows DEF Follows
  <1> HIDE DEF n
  <1>2. Follows(n, [n EXCEPT !.routingEpoch = @ + 1, !.active = g])
    BY <1>1, RouteFollows
  <1>3. Follows(s, [n EXCEPT !.routingEpoch = @ + 1, !.active = g])
    BY <1>1, <1>2, FollowsTransitive
  <1> QED BY <1>3 DEF n

\* publish: the candidate takes the route and its predecessor drains.
LEMMA SwitchFollows ==
  ASSUME NEW s \in ControlStates, NEW e \in Edges, NEW t \in Nat
  PROVE  Follows(s, Switch(s, e, t))
  <1> DEFINE routed == [Amend(s, e.to, [s.records[e.to] EXCEPT !.lifecycle = "Active"])
                        EXCEPT !.routingEpoch = @ + 1, !.active = e.to]
             after == After(t, DrainTimeout)
             d == RollbackDeadline(e, t)
             R(r) == [r EXCEPT !.lifecycle = "Draining", !.drainDeadline = after,
                               !.transition = e, !.rollbackDeadline = d,
                               !.automatic = e.automatic]
  <1>1. e.to \in Generations /\ e.automatic \in BOOLEAN
    BY DEF Edges
  <1>2. after \in Nat /\ d \in Nat \union {None}
    BY AfterType, RollbackDeadlineType, TimeAssumption
  <1> HIDE DEF after, d
  <1>3. Follows(s, routed)
    <2>1. [s.records[e.to] EXCEPT !.lifecycle = "Active"] \in Records
      BY <1>1, RecordType, RecordFields, Names
    <2> QED BY <1>1, <2>1, RoutedAmendFollows
  <1> HIDE DEF routed
  <1>4. ASSUME NEW r \in Records PROVE R(r) \in Records
    <2>1. e \in Edges \union {None}
      OBVIOUS
    <2> QED BY <1>1, <1>2, <2>1, RecordFields, Names
  <1> HIDE DEF R
  <1>5. Follows(s, Amend(routed, e.from, R(routed.records[e.from])))
    BY <1>3, <1>4, RecordType, AmendFollows, FollowsTransitive DEF Follows
  <1> QED BY <1>3, <1>5 DEF Switch, routed, R, after, d

\* rollback_inner: the predecessor takes the route back.
LEMMA RollFollows ==
  ASSUME NEW s \in ControlStates, NEW g \in Generations, NEW t \in Nat
  PROVE  Follows(s, Roll(s, g, t))
  <1> DEFINE routed == [Amend(s, g, [s.records[g] EXCEPT !.lifecycle = "Active",
                                                         !.drainDeadline = None])
                        EXCEPT !.routingEpoch = @ + 1, !.active = g]
             after == After(t, DrainTimeout)
  <1>1. after \in Nat
    BY AfterType, TimeAssumption
  <1> HIDE DEF after
  <1>2. Follows(s, routed)
    <2>1. [s.records[g] EXCEPT !.lifecycle = "Active", !.drainDeadline = None] \in Records
      BY RecordType, RecordFields, Names
    <2> QED BY <2>1, RoutedAmendFollows
  <1> HIDE DEF routed
  <1>3. ASSUME NEW r \in Records
        PROVE  [r EXCEPT !.lifecycle = "Draining", !.drainDeadline = after] \in Records
    BY <1>1, RecordFields, Names
  <1> DEFINE r == [s.records[s.active] EXCEPT !.lifecycle = "Draining",
                                              !.drainDeadline = after]
  <1>4. s.active \in Generations => r \in Records
    BY <1>3, RecordType
  <1> HIDE DEF r
  <1>5. Follows(s, Amend(routed, s.active, r))
    BY <1>2, <1>4, AmendFollows, FollowsTransitive DEF Follows
  <1> QED BY <1>5 DEF Roll, routed, after, r

\* fence_failed_active: the route is withdrawn under a new routing epoch.
LEMMA FenceActiveFollows ==
  ASSUME NEW s \in ControlStates, NEW t \in Nat
  PROVE  Follows(s, FenceActive(s, t))
  <1> DEFINE after == After(t, DrainTimeout)
  <1>1. after \in Nat
    BY AfterType, TimeAssumption
  <1> HIDE DEF after
  <1>2. ASSUME NEW r \in Records
        PROVE  [r EXCEPT !.lifecycle = "Draining", !.drainDeadline = after] \in Records
    BY <1>1, RecordFields, Names
  <1> QED BY <1>2, RecordType, RoutedAmendFollows DEF FenceActive, after

\* Unroute: the epoch advances exactly when a route is withdrawn.
LEMMA UnrouteFollows ==
  ASSUME NEW s \in ControlStates
  PROVE  Follows(s, Unroute(s))
  <1> DEFINE x == IF s.active = None THEN s.routingEpoch ELSE s.routingEpoch + 1
             n == [s EXCEPT !.active = None, !.routingEpoch = x]
  <1>1. s.routingEpoch \in Nat /\ x \in Nat /\ x >= s.routingEpoch
    BY DEF ControlStates
  <1> HIDE DEF x
  <1>2. /\ n \in ControlStates
        /\ n.supervisorEpoch = s.supervisorEpoch
        /\ n.routingEpoch = x /\ n.active = None
    BY <1>1, Zenon DEF ControlStates
  <1>3. Unroute(s) = n
    BY Zenon DEF Unroute, x, n, ControlStates
  <1> HIDE DEF n
  <1>4. Follows(s, n)
    BY <1>1, <1>2 DEF Follows, Pinned
  <1> QED BY <1>3, <1>4

\* begin_shutdown: the route is withdrawn and every kept record drains.
LEMMA BeginShutdownFollows ==
  ASSUME NEW s \in ControlStates, NEW t \in Nat
  PROVE  Follows(s, BeginShutdown(s, t))
  <1> DEFINE after == After(t, DrainTimeout)
             R(r) == [r EXCEPT !.lifecycle = "Draining", !.reason = "SupervisorShutdown",
                               !.rollbackDeadline = None, !.drainDeadline = after]
             f == [g \in Generations |->
                     IF s.records[g].lifecycle \in {"Active", "Draining", "Standby"}
                     THEN R(s.records[g]) ELSE s.records[g]]
             n == Unroute(s)
  <1>1. after \in Nat
    BY AfterType, TimeAssumption
  <1> HIDE DEF after
  <1>2. ASSUME NEW r \in Records PROVE R(r) \in Records
    BY <1>1, RecordFields, Names
  <1> HIDE DEF R
  <1>3. f \in [Generations -> Records]
    BY <1>2, RecordType
  <1> HIDE DEF f
  <1>4. Follows(s, n) /\ n \in ControlStates
    BY UnrouteFollows DEF Follows
  <1> HIDE DEF n
  <1>5. Follows(s, [n EXCEPT !.records = f])
    BY <1>3, <1>4, RecordsFollow, FollowsTransitive
  <1> QED BY <1>5 DEF BeginShutdown, f, n, R, after

-----------------------------------------------------------------------------
(* The first commit of a Supervisor                                         *)

\* What follows a takeover is still a takeover.
LEMMA TakeoverFollows ==
  ASSUME NEW r \in ControlStates, NEW s, NEW t, TakesOver(r, s), Follows(s, t)
  PROVE  TakesOver(r, t)
  <1>1. /\ r.routingEpoch \in Nat /\ s.routingEpoch \in Nat /\ t.routingEpoch \in Nat
        /\ t \in ControlStates
    BY DEF Follows, TakesOver, ControlStates
  <1> QED BY <1>1 DEF Follows, TakesOver, Pinned

\* open: the next supervisor epoch.
LEMMA OpenStateTakesOver ==
  ASSUME NEW s \in ControlStates
  PROVE  TakesOver(s, OpenState(s))
  <1> DEFINE n == [s EXCEPT !.suspended = FALSE, !.supervisorEpoch = @ + 1]
  <1>1. s.routingEpoch \in Nat /\ s.supervisorEpoch + 1 \in Nat
    BY DEF ControlStates
  <1>2. /\ n \in ControlStates
        /\ n.supervisorEpoch = s.supervisorEpoch + 1
        /\ n.routingEpoch = s.routingEpoch /\ n.active = s.active
    BY <1>1, Zenon DEF ControlStates
  <1> HIDE DEF n
  <1>3. TakesOver(s, n)
    BY <1>1, <1>2 DEF TakesOver, Pinned
  <1> QED BY <1>3 DEF n, OpenState

\* replace_suspended_host: every live record is retired unstaged.
LEMMA ReplaceSuspendedTakesOver ==
  ASSUME NEW s \in ControlStates
  PROVE  TakesOver(s, ReplaceSuspended(s))
  <1> DEFINE R(r) == [r EXCEPT !.lifecycle = "Retired", !.drainDeadline = None,
                               !.reason = "HostBuildReplaced"]
             f == [g \in Generations |-> IF g \in Live(s) THEN R(s.records[g])
                                         ELSE s.records[g]]
             n == OpenState(s)
             m == Unroute(n)
  <1>1. ASSUME NEW r \in Records PROVE R(r) \in Records
    BY RecordFields, Names
  <1> HIDE DEF R
  <1>2. f \in [Generations -> Records]
    BY <1>1, RecordType
  <1> HIDE DEF f
  <1>3. TakesOver(s, n) /\ n \in ControlStates
    BY OpenStateTakesOver DEF TakesOver
  <1> HIDE DEF n
  <1>4. Follows(n, m) /\ m \in ControlStates
    BY <1>3, UnrouteFollows DEF Follows
  <1> HIDE DEF m
  <1>5. Follows(m, [m EXCEPT !.records = f])
    BY <1>2, <1>4, RecordsFollow
  <1>6. TakesOver(s, [m EXCEPT !.records = f])
    BY <1>3, <1>4, <1>5, TakeoverFollows
  <1> QED BY <1>6 DEF ReplaceSuspended, f, n, m, R

\* recover, first commit: the next supervisor epoch and routing epoch.
LEMMA FenceForRecoveryTakesOver ==
  ASSUME NEW s \in ControlStates
  PROVE  TakesOver(s, FenceForRecovery(s))
  <1> DEFINE n == OpenState(s)
             m == [n EXCEPT !.routingEpoch = @ + 1]
  <1>1. /\ TakesOver(s, n) /\ n \in ControlStates
        /\ s.routingEpoch \in Nat /\ n.routingEpoch \in Nat /\ n.routingEpoch + 1 \in Nat
    BY OpenStateTakesOver DEF TakesOver, ControlStates
  <1> HIDE DEF n
  <1>2. /\ m \in ControlStates
        /\ m.supervisorEpoch = n.supervisorEpoch
        /\ m.routingEpoch = n.routingEpoch + 1
    BY <1>1, Zenon DEF ControlStates
  <1> HIDE DEF m
  <1>3. TakesOver(s, m)
    BY <1>1, <1>2 DEF TakesOver, Pinned
  <1> QED BY <1>3 DEF FenceForRecovery, n, m

-----------------------------------------------------------------------------
(* The second commit of recover                                             *)

\* A failed restaging keeps both epochs and at most withdraws the route.
LEMMA UnstagedKeeps ==
  ASSUME NEW s \in ControlStates, NEW g
  PROVE  /\ Follows(s, Unstaged(s, g))
         /\ Unstaged(s, g).routingEpoch = s.routingEpoch
         /\ Unstaged(s, g).active \in {s.active, None}
  <1> DEFINE n == FailCandidate(s, g)
             a == IF n.active = g THEN None ELSE n.active
             m == [n EXCEPT !.active = a]
  <1>1. Follows(s, n) /\ n \in ControlStates
    BY MarksFollow DEF Follows
  <1>2. n.routingEpoch = s.routingEpoch /\ n.active = s.active
    BY Zenon DEF FailCandidate, Amend, ControlStates
  <1>3. s.routingEpoch \in Nat
    BY DEF ControlStates
  <1>4. a \in Generations \union {None} /\ a \in {s.active, None}
    BY <1>1, <1>2 DEF ControlStates
  <1>5. Unstaged(s, g) = m
    BY DEF Unstaged
  <1> HIDE DEF n, a
  <1>6. /\ m \in ControlStates
        /\ m.supervisorEpoch = n.supervisorEpoch
        /\ m.routingEpoch = n.routingEpoch /\ m.active = a
    BY <1>1, <1>4, Zenon DEF ControlStates
  <1> HIDE DEF m
  <1>7. Follows(s, m)
    BY <1>1, <1>2, <1>3, <1>4, <1>6 DEF Follows, Pinned
  <1> QED BY <1>2, <1>4, <1>5, <1>6, <1>7

\* An abandoned record leaves the route and the epochs as they are.
LEMMA AbandonKeeps ==
  ASSUME NEW s \in ControlStates, NEW g, NEW reason
  PROVE  /\ Abandon(s, g, reason).routingEpoch = s.routingEpoch
         /\ Abandon(s, g, reason).active = s.active
  BY Zenon DEF Abandon, Amend, ControlStates

\* The standby takes the route under a new routing epoch.
LEMMA PromoteFollows ==
  ASSUME NEW s \in ControlStates, NEW g \in Generations
  PROVE  Follows(s, Promote(s, g))
  <1> DEFINE r == [s.records[g] EXCEPT !.lifecycle = "Active"]
             n == Amend(s, g, r)
  <1>1. r \in Records
    BY RecordType, RecordFields, Names
  <1> HIDE DEF r
  <1>2. Follows(s, [n EXCEPT !.routingEpoch = @ + 1, !.active = g])
    BY <1>1, RoutedAmendFollows
  <1>3. n \in ControlStates
    BY <1>1, AmendFollows DEF Follows
  <1> HIDE DEF n
  <1>4. [n EXCEPT !.active = g, !.routingEpoch = @ + 1]
          = [n EXCEPT !.routingEpoch = @ + 1, !.active = g]
    BY <1>3, Zenon DEF ControlStates
  <1> QED BY <1>2, <1>4 DEF Promote, n, r

-----------------------------------------------------------------------------
(* What the updates change: the route, and the records one by one           *)

\* The records of n are those of s, but for those of g and k.
SameBut(s, n, g, k) ==
    \A x \in Generations : x # g /\ x # k => n.records[x] = s.records[x]

\* The route is left alone.
SameRoute(s, n) ==
    n.active = s.active /\ n.routingEpoch = s.routingEpoch /\ n.suspended = s.suspended

\* The route is given to g, or withdrawn, under the next routing epoch.
Reroutes(s, n, g) ==
    n.active = g /\ n.routingEpoch = s.routingEpoch + 1 /\ n.suspended = s.suspended

\* The route is withdrawn, and who pinned it is told by the next routing epoch.
Withdraws(s, n) ==
    n.active = None /\ n.routingEpoch \in {s.routingEpoch, s.routingEpoch + 1}

\* An update of one record and the route.
RoutedAmend(s, k, r, g) == [Amend(s, k, r) EXCEPT !.routingEpoch = @ + 1, !.active = g]

\* The record of a Generation that drains from time t on.
DrainingFrom(r, t) ==
    [r EXCEPT !.lifecycle = "Draining", !.drainDeadline = After(t, DrainTimeout)]

\* r continues q in lifecycle l: the same transition and health.
Becomes(q, r, l) ==
    /\ r.lifecycle = l
    /\ r.transition = q.transition
    /\ r.health = q.health
    /\ l = "Draining" => r.drainDeadline \in Nat

\* What becomes of the two ends of a maintenance edge once e.from is stopped.
Stopped(s, n, e, ok) ==
    /\ SameBut(s, n, e.from, e.to) /\ n \in ControlStates
    /\ n.active = None /\ n.routingEpoch = s.routingEpoch
    /\ n.suspended = s.suspended
    /\ n.records[e.from].lifecycle = "Retired"
    /\ n.records[e.to] = s.records[e.to] \/ n.records[e.to].lifecycle = "Retired"
    /\ IF ok THEN n.records[e.to] = s.records[e.to]
             ELSE n.records[e.to].lifecycle = "Retired"

\* The fields that replaced records leave alone.
LEMMA RecordsFields ==
  ASSUME NEW s \in ControlStates, NEW f, NEW n, n = [s EXCEPT !.records = f]
  PROVE  n.records = f /\ SameRoute(s, n)
  BY Zenon DEF ControlStates, SameRoute

\* update_record replaces one record and leaves the route alone.
LEMMA AmendChanges ==
  ASSUME NEW s \in ControlStates, NEW g, NEW r, NEW n, n = Amend(s, g, r)
  PROVE  SameBut(s, n, g, g) /\ SameRoute(s, n) /\ (g \in Generations => n.records[g] = r)
  <1> DEFINE f == [s.records EXCEPT ![g] = r]
  <1>1. s.records \in [Generations -> Records]
    BY DEF ControlStates
  <1>2. /\ \A k \in Generations : k # g => f[k] = s.records[k]
        /\ g \in Generations => f[g] = r
    BY <1>1
  <1>3. n = [s EXCEPT !.records = f]
    BY DEF Amend
  <1> HIDE DEF f
  <1>4. n.records = f /\ SameRoute(s, n)
    BY <1>3, RecordsFields
  <1> QED BY <1>2, <1>4 DEF SameBut

\* One record is replaced and the route moved, under the next routing epoch.
LEMMA RoutedAmendChanges ==
  ASSUME NEW s \in ControlStates, NEW k, NEW r, k \in Generations => r \in Records,
         NEW g \in Generations \union {None}, NEW n,
         n = RoutedAmend(s, k, r, g)
  PROVE  /\ SameBut(s, n, k, k) /\ Reroutes(s, n, g) /\ n \in ControlStates
         /\ k \in Generations => n.records[k] = r
  <1> DEFINE m == Amend(s, k, r)
             e == m.routingEpoch + 1
  <1>1. SameBut(s, m, k, k) /\ SameRoute(s, m) /\ (k \in Generations => m.records[k] = r)
    BY AmendChanges
  <1>2. m \in ControlStates /\ n \in ControlStates
    BY AmendFollows, RoutedAmendFollows DEF Follows, RoutedAmend
  <1>3. n = [m EXCEPT !.routingEpoch = e, !.active = g]
    BY DEF RoutedAmend
  <1> HIDE DEF m, e
  <1>4. /\ n.records = m.records /\ n.active = g
        /\ n.routingEpoch = e /\ n.suspended = m.suspended
    BY <1>2, <1>3, Zenon DEF ControlStates
  <1>5. e = m.routingEpoch + 1
    BY DEF e
  <1> QED BY <1>1, <1>2, <1>4, <1>5 DEF SameBut, SameRoute, Reroutes

\* A candidate that is given up.
LEMMA FailCandidateChanges ==
  ASSUME NEW s \in ControlStates, NEW g \in Generations, NEW n, n = FailCandidate(s, g)
  PROVE  /\ SameBut(s, n, g, g) /\ SameRoute(s, n) /\ n \in ControlStates
         /\ n.records[g].lifecycle = "Retired"
  <1> DEFINE r == [s.records[g] EXCEPT !.lifecycle = "Retired", !.health = "Failed",
                                       !.reason = "StagingFailed"]
  <1>1. n = Amend(s, g, r)
    BY DEF FailCandidate
  <1>2. s.records[g] \in Records /\ n \in ControlStates
    BY RecordType, MarksFollow DEF Follows
  <1>3. r.lifecycle = "Retired"
    BY <1>2, Zenon DEF Records
  <1> HIDE DEF r
  <1> QED BY <1>1, <1>2, <1>3, AmendChanges

\* A candidate whose runtime is staged.
LEMMA MarkReadyChanges ==
  ASSUME NEW s \in ControlStates, NEW g \in Generations, NEW n, n = MarkReady(s, g)
  PROVE  /\ SameBut(s, n, g, g) /\ SameRoute(s, n) /\ n \in ControlStates
         /\ Becomes(s.records[g], n.records[g], "Ready")
  <1> DEFINE r == [s.records[g] EXCEPT !.lifecycle = "Ready"]
  <1>1. n = Amend(s, g, r)
    BY DEF MarkReady
  <1>2. s.records[g] \in Records /\ n \in ControlStates
    BY RecordType, MarksFollow DEF Follows
  <1>3. Becomes(s.records[g], r, "Ready")
    BY <1>2, Zenon DEF Records, Becomes
  <1> HIDE DEF r
  <1> QED BY <1>1, <1>2, <1>3, AmendChanges

\* A Generation whose failure is recorded; nothing else of it changes.
LEMMA MarkFailedChanges ==
  ASSUME NEW s \in ControlStates, NEW g \in Generations, NEW n, n = MarkFailed(s, g)
  PROVE  /\ SameBut(s, n, g, g) /\ SameRoute(s, n) /\ n \in ControlStates
         /\ n.records[g].lifecycle = s.records[g].lifecycle
         /\ n.records[g].transition = s.records[g].transition
         /\ n.records[g].drainDeadline = s.records[g].drainDeadline
         /\ n.records[g].rollbackDeadline = s.records[g].rollbackDeadline
         /\ n.records[g].health = "Failed"
  <1> DEFINE q == s.records[g]
             r == [q EXCEPT !.health = "Failed"]
  <1>1. n = Amend(s, g, r)
    BY DEF MarkFailed
  <1>2. q \in Records /\ n \in ControlStates
    BY RecordType, MarksFollow DEF Follows
  <1> HIDE DEF q
  <1>3. /\ r.lifecycle = q.lifecycle /\ r.transition = q.transition
        /\ r.drainDeadline = q.drainDeadline /\ r.rollbackDeadline = q.rollbackDeadline
        /\ r.health = "Failed"
    BY <1>2, Zenon DEF Records
  <1> HIDE DEF r
  <1>4. SameBut(s, n, g, g) /\ SameRoute(s, n) /\ n.records[g] = r
    BY <1>1, AmendChanges
  <1> QED BY <1>2, <1>3, <1>4 DEF q

\* A drained predecessor whose window is open.
LEMMA ToStandbyChanges ==
  ASSUME NEW s \in ControlStates, NEW g \in Generations, NEW n, n = ToStandby(s, g)
  PROVE  /\ SameBut(s, n, g, g) /\ SameRoute(s, n) /\ n \in ControlStates
         /\ Becomes(s.records[g], n.records[g], "Standby")
         /\ n.records[g].rollbackDeadline = s.records[g].rollbackDeadline
  <1> DEFINE r == [s.records[g] EXCEPT !.lifecycle = "Standby", !.drainDeadline = None]
  <1>1. n = Amend(s, g, r)
    BY DEF ToStandby
  <1>2. s.records[g] \in Records /\ n \in ControlStates
    BY RecordType, MarksFollow DEF Follows
  <1>3. /\ Becomes(s.records[g], r, "Standby")
        /\ r.rollbackDeadline = s.records[g].rollbackDeadline
    BY <1>2, Zenon DEF Records, Becomes
  <1> HIDE DEF r
  <1> QED BY <1>1, <1>2, <1>3, AmendChanges

\* The candidate of an edge gets a fresh record.
LEMMA StageCandidateChanges ==
  ASSUME NEW s \in ControlStates, NEW e \in Edges, NEW t \in Nat, NEW n,
         n = StageCandidate(s, e, t)
  PROVE  /\ SameBut(s, n, e.to, e.to) /\ SameRoute(s, n) /\ n \in ControlStates
         /\ n.records[e.to].lifecycle = "Staged"
         /\ n.records[e.to].transition = e
         /\ n.records[e.to].health = "Healthy"
  <1> DEFINE d == RollbackDeadline(e, t)
             r == [NoRecord EXCEPT !.lifecycle = "Staged", !.transition = e,
                                   !.rollbackDeadline = d, !.automatic = e.automatic]
  <1>1. n = Amend(s, e.to, r)
    BY DEF StageCandidate
  <1> HIDE DEF d
  <1>2. r.lifecycle = "Staged" /\ r.transition = e /\ r.health = "Healthy"
    BY Zenon DEF NoRecord
  <1>3. e.to \in Generations /\ n \in ControlStates
    BY StageCandidateFollows DEF Edges, Follows
  <1> HIDE DEF r
  <1> QED BY <1>1, <1>2, <1>3, AmendChanges

\* A record that is retired, whatever it was.
LEMMA RetireChanges ==
  ASSUME NEW s \in ControlStates, NEW g \in Generations, NEW reason \in Reasons \union {None},
         NEW ok, NEW n, n = Retire(s, g, reason, ok)
  PROVE  /\ SameBut(s, n, g, g) /\ SameRoute(s, n) /\ n \in ControlStates
         /\ n.records[g].lifecycle = "Retired"
  <1> DEFINE r == [s.records[g] EXCEPT !.lifecycle = "Retired", !.drainDeadline = None,
                                       !.rollbackDeadline = None, !.reason = reason,
                                       !.health = IF ok THEN @ ELSE "Failed"]
  <1>1. n = Amend(s, g, r)
    BY DEF Retire
  <1>2. s.records[g] \in Records /\ n \in ControlStates
    BY RecordType, RetireFollows DEF Follows
  <1>3. r.lifecycle = "Retired"
    BY <1>2, Zenon DEF Records
  <1> HIDE DEF r
  <1> QED BY <1>1, <1>2, <1>3, AmendChanges

\* A record that recover gives up.
LEMMA AbandonChanges ==
  ASSUME NEW s \in ControlStates, NEW g \in Generations, NEW reason \in Reasons \union {None},
         NEW n, n = Abandon(s, g, reason)
  PROVE  /\ SameBut(s, n, g, g) /\ SameRoute(s, n) /\ n \in ControlStates
         /\ n.records[g].lifecycle = "Retired"
  <1> DEFINE r == [s.records[g] EXCEPT !.lifecycle = "Retired", !.reason = reason]
  <1>1. n = Amend(s, g, r)
    BY DEF Abandon
  <1>2. s.records[g] \in Records /\ n \in ControlStates
    BY RecordType, RetireFollows DEF Follows
  <1>3. r.lifecycle = "Retired"
    BY <1>2, Zenon DEF Records
  <1> HIDE DEF r
  <1> QED BY <1>1, <1>2, <1>3, AmendChanges

\* The predecessor of a maintenance edge is retired and loses the route; after
\* an unclean shutdown the candidate is given up too.
LEMMA StopForMaintenanceChanges ==
  ASSUME NEW s \in ControlStates, NEW e \in Edges, NEW ok,
         e.from \in Generations, e.to # e.from, NEW n, n = StopForMaintenance(s, e, ok)
  PROVE  Stopped(s, n, e, ok)
  <1> USE DEF Stopped
  <1> DEFINE q == s.records[e.from]
             h == IF ok THEN q.health ELSE "Failed"
             r == [q EXCEPT !.lifecycle = "Retired", !.reason = "Replaced", !.health = h]
             retired == Amend(s, e.from, r)
             stopped == [retired EXCEPT !.active = None]
  <1>1. e.to \in Generations /\ q \in Records /\ n \in ControlStates
    BY RecordType, StopForMaintenanceFollows DEF Edges, Follows
  <1>2. n = IF ok THEN stopped ELSE FailCandidate(stopped, e.to)
    BY Zenon DEF StopForMaintenance
  <1>3. h \in Healths
    BY <1>1, Names DEF Records
  <1> HIDE DEF q, h
  <1>4. r.lifecycle = "Retired" /\ r \in Records
    <2>1. r.lifecycle = "Retired"
      BY <1>1, Zenon DEF Records
    <2>2. r \in Records
      BY <1>1, <1>3, RecordFields, Names
    <2> QED BY <2>1, <2>2
  <1> HIDE DEF r
  <1>5. /\ SameBut(s, retired, e.from, e.from) /\ SameRoute(s, retired)
        /\ retired.records[e.from] = r /\ retired \in ControlStates
    BY <1>4, AmendChanges, AmendFollows DEF Follows
  <1> HIDE DEF retired
  <1>6. /\ stopped.records = retired.records /\ stopped.active = None
        /\ stopped.routingEpoch = retired.routingEpoch
        /\ stopped.suspended = retired.suspended
    BY <1>5, Zenon DEF ControlStates
  <1>7. stopped \in ControlStates
    BY <1>5, FlagsFollow DEF Follows
  <1> HIDE DEF stopped
  <1>8. CASE ok
    <2>1. n = stopped
      BY <1>2, <1>8
    <2>2. n.records[e.to] = s.records[e.to]
      BY <1>1, <1>5, <1>6, <2>1 DEF SameBut
    <2> QED BY <1>1, <1>4, <1>5, <1>6, <1>8, <2>1, <2>2 DEF SameBut, SameRoute
  <1>9. CASE ~ok
    <2>1. /\ SameBut(stopped, n, e.to, e.to) /\ SameRoute(stopped, n)
          /\ n.records[e.to].lifecycle = "Retired"
      BY <1>1, <1>2, <1>7, <1>9, FailCandidateChanges
    <2>2. n.records[e.from] = r
      BY <1>5, <1>6, <2>1 DEF SameBut
    <2> QED BY <1>1, <1>4, <1>5, <1>6, <1>9, <2>1, <2>2 DEF SameBut, SameRoute
  <1> QED BY <1>8, <1>9

\* n has the route of s switched along e: its candidate takes it, the predecessor
\* of an overlap drains under the edge that replaced it.
SwitchedAlong(s, n, e) ==
    /\ Reroutes(s, n, e.to) /\ n \in ControlStates
    /\ Becomes(s.records[e.to], n.records[e.to], "Active")
    /\ SameBut(s, n, e.to, IF e.mode = "Overlap" THEN e.from ELSE e.to)
    /\ e.mode = "Overlap" =>
          /\ n.records[e.from].lifecycle = "Draining"
          /\ n.records[e.from].transition = e
          /\ n.records[e.from].health = s.records[e.from].health
          /\ n.records[e.from].drainDeadline \in Nat

\* The route switch of a transition.
LEMMA SwitchChanges ==
  ASSUME NEW s \in ControlStates, NEW e \in Edges, NEW t \in Nat,
         e.mode = "Overlap" => e.from \in Generations /\ e.from # e.to,
         NEW n, n = Switch(s, e, t)
  PROVE  SwitchedAlong(s, n, e)
  <1> DEFINE q == [s.records[e.to] EXCEPT !.lifecycle = "Active"]
             routed == RoutedAmend(s, e.to, q, e.to)
             after == After(t, DrainTimeout)
             d == RollbackDeadline(e, t)
             R(r) == [r EXCEPT !.lifecycle = "Draining", !.drainDeadline = after,
                               !.transition = e, !.rollbackDeadline = d,
                               !.automatic = e.automatic]
             p == R(routed.records[e.from])
  <1>1. n = IF e.mode # "Overlap" THEN routed ELSE Amend(routed, e.from, p)
    BY DEF Switch, RoutedAmend
  <1>2. /\ e.to \in Generations /\ e.automatic \in BOOLEAN
        /\ s.records[e.to] \in Records /\ n \in ControlStates
    BY RecordType, SwitchFollows DEF Edges, Follows
  <1>3. after \in Nat /\ d \in Nat \union {None}
    BY AfterType, RollbackDeadlineType, TimeAssumption
  <1> HIDE DEF after, d
  <1>4. q \in Records /\ Becomes(s.records[e.to], q, "Active")
    <2>1. q \in Records
      BY <1>2, RecordFields, Names
    <2>2. Becomes(s.records[e.to], q, "Active")
      BY <1>2, Zenon DEF Records, Becomes
    <2> QED BY <2>1, <2>2
  <1> HIDE DEF q
  <1>5. /\ SameBut(s, routed, e.to, e.to) /\ Reroutes(s, routed, e.to)
        /\ routed.records[e.to] = q /\ routed \in ControlStates
    BY <1>2, <1>4, RoutedAmendChanges
  <1> HIDE DEF routed
  <1>6. ASSUME NEW r \in Records
        PROVE  /\ R(r).lifecycle = "Draining" /\ R(r).transition = e
               /\ R(r).health = r.health /\ R(r).drainDeadline = after
    BY Zenon DEF Records
  <1> HIDE DEF R
  <1>7. CASE e.mode # "Overlap"
    BY <1>1, <1>2, <1>4, <1>5, <1>7 DEF SwitchedAlong
  <1>8. CASE e.mode = "Overlap"
    <2>1. routed.records[e.from] = s.records[e.from] /\ s.records[e.from] \in Records
      BY <1>5, <1>8, RecordType DEF SameBut
    <2>2. /\ p.lifecycle = "Draining" /\ p.transition = e
          /\ p.health = s.records[e.from].health /\ p.drainDeadline = after
      BY <1>6, <2>1
    <2> HIDE DEF p
    <2>3. SameBut(routed, n, e.from, e.from) /\ SameRoute(routed, n) /\ n.records[e.from] = p
      BY <1>1, <1>5, <1>8, AmendChanges
    <2>4. n.records[e.to] = q
      BY <1>2, <1>5, <1>8, <2>3 DEF SameBut
    <2>5. SameBut(s, n, e.to, e.from) /\ Reroutes(s, n, e.to)
      BY <1>5, <2>3 DEF SameBut, SameRoute, Reroutes
    <2> QED BY <1>2, <1>3, <1>4, <1>8, <2>2, <2>3, <2>4, <2>5 DEF SwitchedAlong
  <1> QED BY <1>7, <1>8

\* A record that drains from now on.
LEMMA DrainingRecord ==
  ASSUME NEW q \in Records, NEW t \in Nat, NEW r,
         r = DrainingFrom(q, t)
  PROVE  Becomes(q, r, "Draining") /\ r \in Records
  <1> DEFINE after == After(t, DrainTimeout)
  <1>1. after \in Nat
    BY AfterType, TimeAssumption
  <1>2. r = [q EXCEPT !.lifecycle = "Draining", !.drainDeadline = after]
    BY DEF DrainingFrom
  <1> HIDE DEF after
  <1>3. Becomes(q, r, "Draining")
    BY <1>1, <1>2, Zenon DEF Records, Becomes
  <1>4. r \in Records
    <2>1. [q EXCEPT !.lifecycle = "Draining", !.drainDeadline = after] \in Records
      BY <1>1, RecordFields, Names
    <2> QED BY <1>2, <2>1
  <1> QED BY <1>3, <1>4

\* The retained predecessor g takes the route back; the active record drains.
LEMMA RollChanges ==
  ASSUME NEW s \in ControlStates, NEW g \in Generations, NEW t \in Nat,
         s.active \in Generations, g # s.active, NEW n, n = Roll(s, g, t)
  PROVE  /\ SameBut(s, n, g, s.active) /\ Reroutes(s, n, g) /\ n \in ControlStates
         /\ Becomes(s.records[g], n.records[g], "Active")
         /\ Becomes(s.records[s.active], n.records[s.active], "Draining")
  <1> DEFINE q == [s.records[g] EXCEPT !.lifecycle = "Active", !.drainDeadline = None]
             routed == RoutedAmend(s, g, q, g)
             r == DrainingFrom(s.records[s.active], t)
  <1>1. n = Amend(routed, s.active, r)
    BY DEF Roll, RoutedAmend, DrainingFrom
  <1>2. /\ s.records[g] \in Records /\ s.records[s.active] \in Records
        /\ n \in ControlStates
    BY RecordType, RollFollows DEF Follows
  <1>3. q \in Records /\ Becomes(s.records[g], q, "Active")
    <2>1. q \in Records
      BY <1>2, RecordFields, Names
    <2>2. Becomes(s.records[g], q, "Active")
      BY <1>2, Zenon DEF Records, Becomes
    <2> QED BY <2>1, <2>2
  <1>4. Becomes(s.records[s.active], r, "Draining")
    BY <1>2, DrainingRecord
  <1> HIDE DEF q, r
  <1>5. /\ SameBut(s, routed, g, g) /\ Reroutes(s, routed, g)
        /\ routed.records[g] = q /\ routed \in ControlStates
    BY <1>3, RoutedAmendChanges
  <1> HIDE DEF routed
  <1>6. /\ SameBut(routed, n, s.active, s.active) /\ SameRoute(routed, n)
        /\ n.records[s.active] = r
    BY <1>1, <1>5, AmendChanges
  <1>7. /\ SameBut(s, n, g, s.active) /\ Reroutes(s, n, g) /\ n.records[g] = q
    BY <1>5, <1>6 DEF SameBut, SameRoute, Reroutes
  <1> QED BY <1>2, <1>3, <1>4, <1>6, <1>7

\* The route is withdrawn and its Generation drains.
LEMMA FenceActiveChanges ==
  ASSUME NEW s \in ControlStates, NEW t \in Nat, s.active \in Generations,
         NEW n, n = FenceActive(s, t)
  PROVE  /\ SameBut(s, n, s.active, s.active) /\ Reroutes(s, n, None) /\ n \in ControlStates
         /\ Becomes(s.records[s.active], n.records[s.active], "Draining")
  <1> DEFINE r == DrainingFrom(s.records[s.active], t)
  <1>1. n = RoutedAmend(s, s.active, r, None)
    BY DEF FenceActive, RoutedAmend, DrainingFrom
  <1>2. r \in Records /\ Becomes(s.records[s.active], r, "Draining")
    BY RecordType, DrainingRecord
  <1> HIDE DEF r
  <1> QED BY <1>1, <1>2, RoutedAmendChanges

\* A withdrawn route takes an epoch of its own; the records stay.
LEMMA UnrouteChanges ==
  ASSUME NEW s \in ControlStates, NEW n, n = Unroute(s)
  PROVE  /\ n.records = s.records /\ n.suspended = s.suspended
         /\ Withdraws(s, n) /\ n \in ControlStates
  <1> DEFINE x == IF s.active = None THEN s.routingEpoch ELSE s.routingEpoch + 1
  <1>1. n = [s EXCEPT !.active = None, !.routingEpoch = x]
    BY Zenon DEF Unroute, ControlStates
  <1>2. x \in {s.routingEpoch, s.routingEpoch + 1}
    OBVIOUS
  <1> HIDE DEF x
  <1>3. /\ n.records = s.records /\ n.active = None /\ n.suspended = s.suspended
        /\ n.routingEpoch = x
    BY <1>1, Zenon DEF ControlStates
  <1>4. n \in ControlStates
    BY UnrouteFollows DEF Follows
  <1> QED BY <1>2, <1>3, <1>4 DEF Withdraws

\* begin_shutdown: what was routed or kept drains, the rest stays.
LEMMA BeginShutdownChanges ==
  ASSUME NEW s \in ControlStates, NEW t \in Nat, NEW n, n = BeginShutdown(s, t)
  PROVE  /\ Withdraws(s, n) /\ n.suspended = s.suspended /\ n \in ControlStates
         /\ \A g \in Generations :
               IF s.records[g].lifecycle \in {"Active", "Draining", "Standby"}
               THEN Becomes(s.records[g], n.records[g], "Draining")
               ELSE n.records[g] = s.records[g]
  <1> DEFINE after == After(t, DrainTimeout)
             R(r) == [r EXCEPT !.lifecycle = "Draining", !.reason = "SupervisorShutdown",
                               !.rollbackDeadline = None, !.drainDeadline = after]
             f == [g \in Generations |->
                     IF s.records[g].lifecycle \in {"Active", "Draining", "Standby"}
                     THEN R(s.records[g]) ELSE s.records[g]]
             m == Unroute(s)
  <1>1. n = [m EXCEPT !.records = f]
    BY DEF BeginShutdown
  <1>2. after \in Nat /\ n \in ControlStates
    BY AfterType, TimeAssumption, BeginShutdownFollows DEF Follows
  <1> HIDE DEF after
  <1>3. ASSUME NEW r \in Records PROVE Becomes(r, R(r), "Draining")
    BY <1>2, Zenon DEF Records, Becomes
  <1> HIDE DEF R
  <1>4. \A g \in Generations :
           IF s.records[g].lifecycle \in {"Active", "Draining", "Standby"}
           THEN Becomes(s.records[g], f[g], "Draining")
           ELSE f[g] = s.records[g]
    BY <1>3, RecordType
  <1> HIDE DEF f
  <1>5. m \in ControlStates /\ Withdraws(s, m) /\ m.suspended = s.suspended
    BY UnrouteChanges
  <1> HIDE DEF m
  <1>6. n.records = f /\ SameRoute(m, n)
    BY <1>1, <1>5, Zenon DEF ControlStates, SameRoute
  <1> QED BY <1>2, <1>4, <1>5, <1>6 DEF SameRoute, Withdraws

\* A new Supervisor withdraws the suspension and nothing else.
LEMMA OpenStateChanges ==
  ASSUME NEW s \in ControlStates, NEW n, n = OpenState(s)
  PROVE  /\ n.records = s.records /\ n.active = s.active
         /\ n.routingEpoch = s.routingEpoch /\ n.suspended = FALSE /\ n \in ControlStates
  <1>1. n = [s EXCEPT !.suspended = FALSE, !.supervisorEpoch = @ + 1]
    BY DEF OpenState
  <1>2. /\ n.records = s.records /\ n.active = s.active
        /\ n.routingEpoch = s.routingEpoch /\ n.suspended = FALSE
    BY <1>1, Zenon DEF ControlStates
  <1> QED BY <1>2, OpenStateTakesOver DEF TakesOver

\* replace_suspended_host: every live record is retired, and the route withdrawn.
LEMMA ReplaceSuspendedChanges ==
  ASSUME NEW s \in ControlStates, NEW n, n = ReplaceSuspended(s)
  PROVE  /\ Withdraws(s, n) /\ n.suspended = FALSE /\ n \in ControlStates
         /\ \A g \in Generations :
               IF g \in Live(s) THEN n.records[g].lifecycle = "Retired"
                                ELSE n.records[g] = s.records[g]
  <1> DEFINE R(r) == [r EXCEPT !.lifecycle = "Retired", !.drainDeadline = None,
                               !.reason = "HostBuildReplaced"]
             f == [g \in Generations |-> IF g \in Live(s) THEN R(s.records[g])
                                         ELSE s.records[g]]
             o == OpenState(s)
             m == Unroute(o)
  <1>1. n = [m EXCEPT !.records = f]
    BY DEF ReplaceSuspended
  <1>2. ASSUME NEW r \in Records PROVE R(r).lifecycle = "Retired"
    BY Zenon DEF Records
  <1> HIDE DEF R
  <1>3. \A g \in Generations : IF g \in Live(s) THEN f[g].lifecycle = "Retired"
                                                ELSE f[g] = s.records[g]
    BY <1>2, RecordType
  <1> HIDE DEF f
  <1>4. o \in ControlStates /\ o.routingEpoch = s.routingEpoch /\ o.suspended = FALSE
    BY OpenStateChanges
  <1> HIDE DEF o
  <1>5. m \in ControlStates /\ Withdraws(s, m) /\ m.suspended = FALSE
    BY <1>4, UnrouteChanges DEF Withdraws
  <1> HIDE DEF m
  <1>6. n.records = f /\ SameRoute(m, n)
    BY <1>1, <1>5, Zenon DEF ControlStates, SameRoute
  <1> QED BY <1>3, <1>5, <1>6, ReplaceSuspendedTakesOver DEF SameRoute, Withdraws, TakesOver

\* The first commit of recover fences whoever pinned the route.
LEMMA FenceForRecoveryChanges ==
  ASSUME NEW s \in ControlStates, NEW n, n = FenceForRecovery(s)
  PROVE  /\ n.records = s.records /\ n.active = s.active
         /\ n.routingEpoch = s.routingEpoch + 1 /\ n.suspended = FALSE /\ n \in ControlStates
  <1> DEFINE o == OpenState(s)
  <1>1. n = [o EXCEPT !.routingEpoch = @ + 1]
    BY DEF FenceForRecovery
  <1>2. /\ o \in ControlStates /\ o.records = s.records /\ o.suspended = FALSE
        /\ o.active = s.active /\ o.routingEpoch = s.routingEpoch
    BY OpenStateChanges
  <1> HIDE DEF o
  <1>3. /\ n.records = o.records /\ n.suspended = o.suspended /\ n.active = o.active
        /\ n.routingEpoch = o.routingEpoch + 1
    BY <1>1, <1>2, Zenon DEF ControlStates
  <1> QED BY <1>2, <1>3, FenceForRecoveryTakesOver DEF TakesOver

\* A Generation that did not restage is retired and loses the route it held.
LEMMA UnstagedChanges ==
  ASSUME NEW s \in ControlStates, NEW g \in Generations, NEW n, n = Unstaged(s, g)
  PROVE  /\ SameBut(s, n, g, g) /\ n.records[g].lifecycle = "Retired"
         /\ n.active = (IF s.active = g THEN None ELSE s.active)
         /\ n \in ControlStates
  <1> DEFINE m == FailCandidate(s, g)
             a == IF m.active = g THEN None ELSE m.active
  <1>1. n = [m EXCEPT !.active = a]
    BY DEF Unstaged
  <1>2. /\ SameBut(s, m, g, g) /\ SameRoute(s, m)
        /\ m.records[g].lifecycle = "Retired" /\ m \in ControlStates
    BY FailCandidateChanges
  <1> HIDE DEF m
  <1>3. a = IF s.active = g THEN None ELSE s.active
    BY <1>2 DEF SameRoute
  <1> HIDE DEF a
  <1>4. n.records = m.records /\ n.active = a
    BY <1>1, <1>2, Zenon DEF ControlStates
  <1> QED BY <1>2, <1>3, <1>4, UnstagedKeeps DEF SameBut, Follows

\* The standby takes the route of the Generation that did not restage.
LEMMA PromoteChanges ==
  ASSUME NEW s \in ControlStates, NEW g \in Generations, NEW n, n = Promote(s, g)
  PROVE  /\ SameBut(s, n, g, g) /\ Reroutes(s, n, g) /\ n \in ControlStates
         /\ Becomes(s.records[g], n.records[g], "Active")
  <1> DEFINE r == [s.records[g] EXCEPT !.lifecycle = "Active"]
             m == Amend(s, g, r)
  <1>1. s.records[g] \in Records
    BY RecordType
  <1>2. r \in Records /\ Becomes(s.records[g], r, "Active")
    <2>1. r \in Records
      BY <1>1, RecordFields, Names
    <2>2. Becomes(s.records[g], r, "Active")
      BY <1>1, Zenon DEF Records, Becomes
    <2> QED BY <2>1, <2>2
  <1>3. n = [m EXCEPT !.active = g, !.routingEpoch = @ + 1]
    BY DEF Promote
  <1>4. m \in ControlStates /\ RoutedAmend(s, g, r, g) = [m EXCEPT !.routingEpoch = @ + 1, !.active = g]
    BY <1>2, AmendFollows DEF Follows, RoutedAmend
  <1> HIDE DEF r, m
  <1>5. n = RoutedAmend(s, g, r, g)
    BY <1>3, <1>4, Zenon DEF ControlStates
  <1> QED BY <1>2, <1>5, RoutedAmendChanges

-----------------------------------------------------------------------------
(* The steps of a Host                                                      *)

StatesOK == /\ store \in ControlStates
            /\ mem \in [Hosts -> ControlStates]
            /\ plan \in [Hosts -> ControlStates]
Modes  == {"down", "starting", "serving", "closing", "panicked"}
OpsOK  == mode \in [Hosts -> Modes] /\ op \in [Hosts -> Operations]
LiveOK == /\ slots \in [Hosts -> SUBSET Generations]
          /\ leases \in [Hosts -> [Generations -> Nat]]
          /\ dead \in [Hosts -> SUBSET Generations]
CountsOK == now \in Nat /\ faults \in Nat /\ commands \in Nat /\ starts \in Nat

\* The conjuncts of the type invariant, by the part of a step that touches them.
LEMMA TypeParts == TypeOK <=> StatesOK /\ OpsOK /\ LiveOK /\ CountsOK
  BY DEF TypeOK, StatesOK, OpsOK, LiveOK, CountsOK, Modes

\* Host h replaced the exact state it had read.
Advanced(h) ==
    /\ store.revision = mem[h].revision
    /\ store' \in ControlStates
    /\ store'.revision = store.revision + 1
    /\ store'.supervisorEpoch >= store.supervisorEpoch
    /\ Pinned(store, store')

Others(h) ==
    \A k \in Hosts \ {h} : /\ mem'[k] = mem[k] /\ plan'[k] = plan[k]
                           /\ mode'[k] = mode[k] /\ op'[k] = op[k]

HostStep(h) ==
    /\ Others(h)
    /\ store' = store \/ Advanced(h)
    /\ mem'[h] \in {mem[h], InitialState, store'}
    /\ Owner(h)' =>
          \/ Owner(h) /\ mem'[h].supervisorEpoch = mem[h].supervisorEpoch
          \/ /\ mem'[h].supervisorEpoch > store.supervisorEpoch
             /\ mem'[h].supervisorEpoch <= store'.supervisorEpoch

EdgeSteps == {"candidate", "maintenance", "staging", "ready"}

\* EdgeKnown and RecoveryPlan, of one Host.
LocalOK(h) ==
    /\ op[h].at \in EdgeSteps => op[h].edge \in Edges
    /\ At(h, "restaging") =>
          /\ plan[h].supervisorEpoch = mem[h].supervisorEpoch
          /\ plan[h].routingEpoch = mem[h].routingEpoch
          /\ plan[h].active \in {mem[h].active, None}

\* LocalOK, of every Host, is the two conjuncts of the invariant it is named for.
LEMMA LocalParts == (\A h \in Hosts : LocalOK(h)) <=> EdgeKnown /\ RecoveryPlan
  BY DEF LocalOK, EdgeKnown, RecoveryPlan, EdgeSteps

-----------------------------------------------------------------------------
(* HostStep preserves fencing                                               *)

\* A HostStep keeps every Supervisor exact or behind, and the first revision.
LEMMA HostStepFences ==
  ASSUME FencingInv, NEW h \in Hosts, HostStep(h), TypeOK'
  PROVE  FencedOrExact' /\ InitialRevision'
  <1>1. /\ store.revision \in Nat /\ store'.revision \in Nat
        /\ \A k \in Hosts : mem[k].revision \in Nat
        /\ InitialState.revision = 0
    BY DEF FencingInv, TypeOK, ControlStates, InitialState
  <1>2. ASSUME NEW k \in Hosts
        PROVE  /\ mem'[k].revision <= store'.revision
               /\ mem'[k].revision = store'.revision => mem'[k] = store'
    <2>1. /\ mem[k].revision <= store.revision
          /\ mem[k].revision = store.revision => mem[k] = store
          /\ store.revision = 0 => store = InitialState
      BY DEF FencingInv, FencedOrExact, InitialRevision
    <2>2. mem'[k] \in {mem[k], InitialState, store'}
      BY DEF HostStep, Others
    <2>3. store' = store \/ store'.revision = store.revision + 1
      BY DEF HostStep, Advanced
    <2> QED BY <1>1, <2>1, <2>2, <2>3
  <1>3. InitialRevision'
    <2>1. store' = store \/ store'.revision = store.revision + 1
      BY DEF HostStep, Advanced
    <2>2. InitialRevision
      BY DEF FencingInv
    <2> QED BY <1>1, <2>1, <2>2 DEF InitialRevision
  <1> QED BY <1>2, <1>3 DEF FencedOrExact

\* A HostStep keeps the supervisor epochs of the running Hosts distinct.
LEMMA HostStepEpochs ==
  ASSUME FencingInv, NEW h \in Hosts, HostStep(h), TypeOK'
  PROVE  EpochOwners'
  <1>1. /\ store.supervisorEpoch \in Nat /\ store'.supervisorEpoch \in Nat
        /\ \A k \in Hosts : mem[k].supervisorEpoch \in Nat /\ mem'[k].supervisorEpoch \in Nat
    BY DEF FencingInv, TypeOK, ControlStates
  <1>2. store'.supervisorEpoch >= store.supervisorEpoch
    BY <1>1 DEF HostStep, Advanced
  <1>3. ASSUME NEW k \in Hosts \ {h}
        PROVE  (Owner(k)' <=> Owner(k)) /\ mem'[k] = mem[k]
    BY DEF HostStep, Others, Owner, Running, At
  <1>4. \A k \in Hosts : Owner(k) =>
           /\ mem[k].supervisorEpoch <= store.supervisorEpoch
           /\ \A l \in Hosts \ {k} :
                 Owner(l) => mem[k].supervisorEpoch # mem[l].supervisorEpoch
    BY DEF FencingInv, EpochOwners
  <1>5. Owner(h)' => /\ mem'[h].supervisorEpoch <= store'.supervisorEpoch
                     /\ \A k \in Hosts \ {h} : Owner(k) =>
                           mem'[h].supervisorEpoch # mem[k].supervisorEpoch
    <2>1. CASE Owner(h)' /\ Owner(h) /\ mem'[h].supervisorEpoch = mem[h].supervisorEpoch
      BY <2>1, <1>1, <1>2, <1>4
    <2>2. CASE /\ mem'[h].supervisorEpoch > store.supervisorEpoch
               /\ mem'[h].supervisorEpoch <= store'.supervisorEpoch
      BY <2>2, <1>1, <1>4
    <2> QED BY <2>1, <2>2 DEF HostStep
  <1>6. ASSUME NEW k \in Hosts, Owner(k)'
        PROVE  /\ mem'[k].supervisorEpoch <= store'.supervisorEpoch
               /\ \A l \in Hosts \ {k} :
                     Owner(l)' => mem'[k].supervisorEpoch # mem'[l].supervisorEpoch
    <2>1. CASE k = h
      BY <2>1, <1>3, <1>5, <1>6
    <2>2. CASE k # h
      <3>1. mem'[k].supervisorEpoch <= store'.supervisorEpoch
        BY <2>2, <1>1, <1>2, <1>3, <1>4, <1>6
      <3>2. ASSUME NEW l \in Hosts \ {k}, Owner(l)'
            PROVE  mem'[k].supervisorEpoch # mem'[l].supervisorEpoch
        <4>1. CASE l = h
          BY <2>2, <3>2, <4>1, <1>3, <1>5, <1>6
        <4>2. CASE l # h
          BY <2>2, <3>2, <4>2, <1>3, <1>4, <1>6
        <4> QED BY <4>1, <4>2
      <3> QED BY <3>1, <3>2
    <2> QED BY <2>1, <2>2
  <1> QED BY <1>6 DEF EpochOwners

\* What every action of a Host is shown to be.
Sound(h) == HostStep(h) /\ LocalOK(h)' /\ TypeOK'

\* A sound step preserves the inductive invariant.
LEMMA SoundPreserves ==
  ASSUME FencingInv, NEW h \in Hosts, Sound(h)
  PROVE  FencingInv'
  <1>1. FencedOrExact' /\ InitialRevision' /\ EpochOwners'
    BY HostStepFences, HostStepEpochs DEF Sound
  <1>2. ASSUME NEW k \in Hosts PROVE LocalOK(k)'
    <2>1. CASE k = h
      BY <2>1 DEF Sound
    <2>2. CASE k # h
      <3>1. LocalOK(k)
        BY LocalParts DEF FencingInv
      <3> QED BY <2>2, <3>1 DEF Sound, HostStep, Others, LocalOK, At
    <2> QED BY <2>1, <2>2
  <1>3. EdgeKnown' /\ RecoveryPlan'
    BY <1>2 DEF LocalOK, EdgeKnown, RecoveryPlan, EdgeSteps, At
  <1> QED BY <1>1, <1>3 DEF Sound, FencingInv

-----------------------------------------------------------------------------
(* What a commit does                                                       *)

\* The revision the store stamps on a state does not touch the rest of it.
LEMMA StampedType ==
  ASSUME TypeOK, NEW h \in Hosts, NEW next \in ControlStates
  PROVE  /\ Stamped(h, next) \in ControlStates
         /\ Stamped(h, next).revision = mem[h].revision + 1
         /\ Stamped(h, next).supervisorEpoch = next.supervisorEpoch
         /\ Stamped(h, next).routingEpoch = next.routingEpoch
         /\ Stamped(h, next).active = next.active
  <1> DEFINE r == mem[h].revision + 1
  <1>1. r \in Nat
    BY DEF TypeOK, ControlStates
  <1> HIDE DEF r
  <1>2. /\ [next EXCEPT !.revision = r] \in ControlStates
        /\ [next EXCEPT !.revision = r].revision = r
        /\ [next EXCEPT !.revision = r].supervisorEpoch = next.supervisorEpoch
        /\ [next EXCEPT !.revision = r].routingEpoch = next.routingEpoch
        /\ [next EXCEPT !.revision = r].active = next.active
    BY <1>1, Zenon DEF ControlStates
  <1> QED BY <1>2 DEF Stamped, r

\* An accepted write of a state that follows, or takes over from, the memory
\* of its author advances the store.
LEMMA WriteAdvances ==
  ASSUME FencingInv, NEW h \in Hosts, NEW next, Accepted(h, next),
         store' = Stamped(h, next),
         Follows(mem[h], next) \/ TakesOver(mem[h], next)
  PROVE  /\ Advanced(h)
         /\ store'.supervisorEpoch = next.supervisorEpoch
         /\ mem[h].supervisorEpoch = store.supervisorEpoch
  <1>1. mem[h] = store /\ store \in ControlStates
    BY DEF Accepted, FencingInv, FencedOrExact, TypeOK
  <1>2. next \in ControlStates /\ Pinned(mem[h], next)
    BY DEF Follows, TakesOver
  <1>3. /\ store' \in ControlStates
        /\ store'.revision = store.revision + 1
        /\ store'.supervisorEpoch = next.supervisorEpoch
        /\ store'.routingEpoch = next.routingEpoch
        /\ store'.active = next.active
    BY <1>1, <1>2, StampedType DEF FencingInv
  <1>4. store.supervisorEpoch \in Nat
    BY <1>1 DEF ControlStates
  <1>5. next.supervisorEpoch >= store.supervisorEpoch
    BY <1>1, <1>4 DEF Follows, TakesOver
  <1> QED BY <1>1, <1>2, <1>3, <1>5 DEF Advanced, Pinned

\* A commit that succeeds: the author's memory is the state now stored.
LEMMA CommitAdvances ==
  ASSUME FencingInv, NEW h \in Hosts, NEW next, Commit(h, next),
         Follows(mem[h], next) \/ TakesOver(mem[h], next)
  PROVE  /\ Advanced(h) /\ faults' = faults
         /\ mem' = [mem EXCEPT ![h] = store']
         /\ store' = Stamped(h, next)
         /\ store'.supervisorEpoch = next.supervisorEpoch
         /\ mem[h].supervisorEpoch = store.supervisorEpoch
  BY WriteAdvances DEF Commit, Write, Adopt

\* A commit that fails leaves the store alone, or advances it unannounced.
LEMMA FailureAdvances ==
  ASSUME FencingInv, NEW h \in Hosts, NEW next, CommitFails(h, next),
         Follows(mem[h], next) \/ TakesOver(mem[h], next)
  PROVE  (store' = store \/ Advanced(h)) /\ faults' \in Nat
  <1>1. faults \in Nat
    BY DEF FencingInv, TypeOK
  <1>2. CASE Refused(h, next)
    BY <1>1, <1>2 DEF Refused
  <1>3. CASE Fault("store") /\ UNCHANGED store
    BY <1>1, <1>3 DEF Fault
  <1>4. CASE Fault("ack") /\ Accepted(h, next) /\ store' = Stamped(h, next)
    BY <1>1, <1>4, WriteAdvances DEF Fault
  <1> QED BY <1>2, <1>3, <1>4 DEF CommitFails, IoError

-----------------------------------------------------------------------------
(* How a step leaves the operation                                          *)

\* An operation that is past the validation of its edge, and not a recovery.
Ordinary(o) ==
    /\ o \in Operations
    /\ o.at # "restaging"
    /\ o.at \in EdgeSteps => o.edge \in Edges

\* Idle has the type of an operation.
LEMMA IdleOrdinary == Ordinary(Idle)
  BY DEF Ordinary, Idle, Operations, Steps, EdgeSteps

\* The fields of an operation keep their types when they are given new values.
LEMMA OperationFields ==
  ASSUME NEW o \in Operations
  PROVE  /\ \A x \in Steps : [o EXCEPT !.at = x] \in Operations
         /\ \A x \in Edges \union {None} : [o EXCEPT !.edge = x] \in Operations
         /\ \A x \in Generations \union {None} : [o EXCEPT !.gen = x] \in Operations
         /\ \A x \in Reasons \union {None} : [o EXCEPT !.reason = x] \in Operations
         /\ \A x \in SUBSET Generations : [o EXCEPT !.todo = x] \in Operations
         /\ \A x \in Nat : [o EXCEPT !.time = x] \in Operations
         /\ \A x \in BOOLEAN : [o EXCEPT !.clean = x] \in Operations
         /\ \A x \in {"inactive", "candidates"} : [o EXCEPT !.after = x] \in Operations
  BY Zenon DEF Operations

\* A step that keeps the Supervisor and its memory, whatever the store did.
LEMMA Stays ==
  ASSUME FencingInv, NEW h \in Hosts, store' = store \/ Advanced(h),
         UNCHANGED <<mem, plan, mode>>, NEW o, Ordinary(o), Goto(h, o)
  PROVE  HostStep(h) /\ LocalOK(h)' /\ StatesOK' /\ OpsOK'
  <1>1. StatesOK /\ OpsOK
    BY TypeParts DEF FencingInv
  <1>2. op' = [op EXCEPT ![h] = o] /\ o \in Operations /\ o.at # "restaging"
    BY DEF Goto, Ordinary
  <1>3. StatesOK' /\ OpsOK'
    BY <1>1, <1>2 DEF StatesOK, OpsOK, Advanced
  <1>4. op'[h] = o /\ \A k \in Hosts \ {h} : op'[k] = op[k]
    BY <1>1, <1>2 DEF OpsOK
  <1>5. LocalOK(h)'
    BY <1>4 DEF LocalOK, Ordinary, At
  <1>6. Owner(h)' => Owner(h)
    BY <1>2, <1>4 DEF Owner, Running, At
  <1>7. HostStep(h)
    BY <1>4, <1>6 DEF HostStep, Others
  <1> QED BY <1>3, <1>5, <1>7

\* A step that commits and keeps the Supervisor running.
LEMMA Commits ==
  ASSUME FencingInv, NEW h \in Hosts, NEW next, Follows(mem[h], next), Commit(h, next),
         UNCHANGED plan, NEW o, Ordinary(o), op' = [op EXCEPT ![h] = o],
         \/ UNCHANGED mode
         \/ Running(h) /\ mode' = [mode EXCEPT ![h] = "closing"]
  PROVE  HostStep(h) /\ LocalOK(h)' /\ StatesOK' /\ OpsOK' /\ faults' \in Nat
  <1>1. StatesOK /\ OpsOK /\ CountsOK
    BY TypeParts DEF FencingInv
  <1>2. /\ Advanced(h) /\ faults' = faults
        /\ mem' = [mem EXCEPT ![h] = store']
        /\ store'.supervisorEpoch = next.supervisorEpoch
    BY CommitAdvances
  <1>3. next.supervisorEpoch = mem[h].supervisorEpoch
    BY DEF Follows
  <1>4. o \in Operations /\ o.at # "restaging"
    BY DEF Ordinary
  <1>5. /\ op'[h] = o /\ mem'[h] = store'
        /\ \A k \in Hosts \ {h} : op'[k] = op[k] /\ mem'[k] = mem[k] /\ mode'[k] = mode[k]
    BY <1>1, <1>2 DEF OpsOK, StatesOK
  <1>6. StatesOK'
    BY <1>1, <1>2 DEF StatesOK, Advanced
  <1>7. OpsOK'
    BY <1>1, <1>4 DEF OpsOK, Modes
  <1>8. LocalOK(h)'
    BY <1>5 DEF LocalOK, Ordinary, At
  <1>9. Owner(h)' => Owner(h)
    BY <1>4, <1>5 DEF Owner, Running, At
  <1>10. HostStep(h)
    BY <1>2, <1>3, <1>5, <1>9 DEF HostStep, Others
  <1> QED BY <1>1, <1>2, <1>6, <1>7, <1>8, <1>10 DEF CountsOK

\* A step with which the Host stops or panics.
LEMMA Leaves ==
  ASSUME FencingInv, NEW h \in Hosts, store' = store \/ Advanced(h),
         NEW how \in {"down", "panicked"}, Leave(h, how)
  PROVE  HostStep(h) /\ LocalOK(h)' /\ StatesOK' /\ OpsOK' /\ LiveOK'
  <1>1. StatesOK /\ OpsOK /\ LiveOK
    BY TypeParts DEF FencingInv
  <1>2. InitialState \in ControlStates /\ Ordinary(Idle)
    BY InitialStateType, IdleOrdinary
  <1>3. StatesOK'
    BY <1>1, <1>2 DEF StatesOK, Leave, Advanced
  <1>4. OpsOK'
    BY <1>1, <1>2 DEF OpsOK, Leave, Goto, Ordinary, Modes
  <1>5. LiveOK'
    BY <1>1 DEF LiveOK, Leave
  <1>6. /\ op'[h] = Idle /\ mem'[h] = InitialState /\ mode'[h] = how
        /\ Others(h)
    BY <1>1 DEF StatesOK, OpsOK, Leave, Goto, Others
  <1>7. LocalOK(h)'
    BY <1>2, <1>6 DEF LocalOK, Ordinary, At
  <1>8. ~Owner(h)'
    BY <1>2, <1>6 DEF Owner, Running, At, Ordinary
  <1>9. HostStep(h)
    BY <1>6, <1>8 DEF HostStep
  <1> QED BY <1>3, <1>4, <1>5, <1>7, <1>9

\* Taking a slot out, and putting one in, keep the types of the slot map.
LEMMA SlotTypes ==
  ASSUME LiveOK, NEW h \in Hosts, NEW g
  PROVE  /\ Drop(h, g) => LiveOK'
         /\ g \in Generations /\ Insert(h, g) => LiveOK'
         /\ UNCHANGED live => LiveOK'
  <1>1. ASSUME NEW n \in Nat
        PROVE  [leases EXCEPT ![h][g] = n] \in [Hosts -> [Generations -> Nat]]
    BY DEF LiveOK
  <1>2. Drop(h, g) => LiveOK'
    <2>1. ASSUME NEW f \in [Hosts -> SUBSET Generations]
          PROVE  [f EXCEPT ![h] = @ \ {g}] \in [Hosts -> SUBSET Generations]
      OBVIOUS
    <2>2. Drop(h, g) => /\ slots' \in [Hosts -> SUBSET Generations]
                        /\ dead' \in [Hosts -> SUBSET Generations]
      BY <2>1 DEF LiveOK, Drop
    <2>3. Drop(h, g) => leases' \in [Hosts -> [Generations -> Nat]]
      BY <1>1 DEF Drop
    <2> QED BY <2>2, <2>3 DEF LiveOK
  <1>3. g \in Generations /\ Insert(h, g) => LiveOK'
    BY <1>1 DEF LiveOK, Insert
  <1>4. UNCHANGED live => LiveOK'
    BY DEF LiveOK, live
  <1> QED BY <1>2, <1>3, <1>4

\* The parts of a step, assembled.
LEMMA Assemble ==
  ASSUME NEW h \in Hosts, HostStep(h), LocalOK(h)', StatesOK', OpsOK', LiveOK', CountsOK'
  PROVE  Sound(h)
  BY DEF Sound, TypeOK, StatesOK, OpsOK, LiveOK, CountsOK, Modes

\* The counters after a step: the clock and the budgets stand still, or one
\* command is counted, and a fault may be.
LEMMA CountTypes ==
  ASSUME CountsOK, NEW h \in Hosts, faults' \in Nat
  PROVE  /\ UNCHANGED env => CountsOK'
         /\ Command(h) => CountsOK'
  BY DEF CountsOK, env, Command

\* A fault of any kind is counted.
LEMMA FaultType ==
  ASSUME CountsOK, NEW kind, Fault(kind)
  PROVE  faults' \in Nat
  BY DEF CountsOK, Fault

\* A step of a Host that touches neither its memory nor its operation.
LEMMA Untouched ==
  ASSUME FencingInv, NEW h \in Hosts, UNCHANGED <<store, mem, plan, mode, op>>,
         LiveOK', CountsOK'
  PROVE  Sound(h)
  <1>1. StatesOK /\ OpsOK /\ LocalOK(h)
    BY TypeParts, LocalParts DEF FencingInv
  <1>2. StatesOK' /\ OpsOK'
    BY <1>1 DEF StatesOK, OpsOK
  <1>3. LocalOK(h)'
    BY <1>1 DEF LocalOK, At
  <1>4. HostStep(h)
    BY DEF HostStep, Others, Owner, Running, At
  <1> QED BY <1>2, <1>3, <1>4, Assemble

\* A step that only moves the operation on.
LEMMA Moves ==
  ASSUME FencingInv, NEW h \in Hosts, UNCHANGED <<store, mem>>, UNCHANGED local,
         NEW o, Ordinary(o), Goto(h, o), LiveOK', CountsOK'
  PROVE  Sound(h)
  BY Stays, Assemble DEF local

\* A step that reports the failure of a commit and ends the operation.
LEMMA Replies ==
  ASSUME FencingInv, NEW h \in Hosts, NEW next, Follows(mem[h], next),
         CommitFails(h, next), Reply(h), UNCHANGED env \/ Command(h)
  PROVE  Sound(h)
  <1>1. (store' = store \/ Advanced(h)) /\ faults' \in Nat
    BY FailureAdvances
  <1>2. HostStep(h) /\ LocalOK(h)' /\ StatesOK' /\ OpsOK'
    BY <1>1, Stays, IdleOrdinary DEF Reply
  <1>3. LiveOK' /\ CountsOK'
    BY <1>1, TypeParts, SlotTypes, CountTypes DEF Reply, FencingInv
  <1> QED BY <1>2, <1>3, Assemble

\* A commit after which the Supervisor goes on with operation o.
LEMMA GoesOn ==
  ASSUME FencingInv, NEW h \in Hosts, NEW next, Follows(mem[h], next), Commit(h, next),
         NEW o, Ordinary(o), Goto(h, o), UNCHANGED <<local, live>>,
         UNCHANGED env \/ Command(h)
  PROVE  Sound(h)
  <1>1. HostStep(h) /\ LocalOK(h)' /\ StatesOK' /\ OpsOK' /\ faults' \in Nat
    BY Commits DEF local, Goto
  <1>2. LiveOK' /\ CountsOK'
    BY <1>1, TypeParts, SlotTypes, CountTypes DEF FencingInv
  <1> QED BY <1>1, <1>2, Assemble

\* The Host stops without a commit.
LEMMA Quits ==
  ASSUME FencingInv, NEW h \in Hosts, UNCHANGED store, faults' \in Nat,
         NEW how \in {"down", "panicked"}, Leave(h, how), UNCHANGED env \/ Command(h)
  PROVE  Sound(h)
  BY Leaves, TypeParts, CountTypes, Assemble DEF FencingInv

\* The Host stops after a commit that succeeded or failed.
LEMMA CommitsAndQuits ==
  ASSUME FencingInv, NEW h \in Hosts, NEW next,
         Follows(mem[h], next) \/ TakesOver(mem[h], next),
         Write(h, next) \/ CommitFails(h, next), Exit(h),
         UNCHANGED env \/ Command(h)
  PROVE  Sound(h)
  <1>1. (store' = store \/ Advanced(h)) /\ faults' \in Nat
    BY FailureAdvances, WriteAdvances, TypeParts DEF Write, FencingInv, CountsOK
  <1>2. HostStep(h) /\ LocalOK(h)' /\ StatesOK' /\ OpsOK' /\ LiveOK'
    BY <1>1, Leaves DEF Exit
  <1>3. CountsOK'
    BY <1>1, TypeParts, CountTypes DEF FencingInv
  <1> QED BY <1>2, <1>3, Assemble

-----------------------------------------------------------------------------
(* Starting a Host                                                          *)

\* The memory of a Host is a control state and its operation an operation.
LEMMA HostTypes ==
  ASSUME FencingInv, NEW h \in Hosts
  PROVE  /\ mem[h] \in ControlStates /\ plan[h] \in ControlStates
         /\ op[h] \in Operations /\ op[h].time \in Nat /\ now \in Nat
         /\ op[h].todo \in SUBSET Generations
         /\ slots[h] \in SUBSET Generations
         /\ op[h].at \in EdgeSteps => op[h].edge \in Edges
         /\ CountsOK /\ LiveOK /\ StatesOK /\ OpsOK
  <1>1. CountsOK /\ LiveOK /\ StatesOK /\ OpsOK
    BY TypeParts DEF FencingInv
  <1>2. op[h] \in Operations
    BY <1>1 DEF OpsOK
  <1>3. op[h].time \in Nat /\ op[h].todo \in SUBSET Generations
    BY <1>2 DEF Operations
  <1>4. LocalOK(h)
    BY LocalParts DEF FencingInv
  <1> QED BY <1>1, <1>2, <1>3, <1>4 DEF StatesOK, CountsOK, LiveOK, LocalOK

\* load reads the exact durable state.
LEMMA LoadSound ==
  ASSUME FencingInv, NEW h \in Hosts, NEW step \in {"opening", "replacing", "fencing"},
         Load(h, step)
  PROVE  Sound(h)
  <1> DEFINE o == [Idle EXCEPT !.at = step, !.time = now]
  <1>1. CountsOK /\ LiveOK /\ StatesOK /\ OpsOK /\ now \in Nat
    BY HostTypes
  <1>2. o \in Operations /\ o.at = step
    BY <1>1, IdleOrdinary DEF Ordinary, Operations, Idle, Steps
  <1>3. /\ mem' = [mem EXCEPT ![h] = store] /\ mode' = [mode EXCEPT ![h] = "starting"]
        /\ op' = [op EXCEPT ![h] = o] /\ store' = store /\ plan' = plan
        /\ UNCHANGED live /\ starts' = starts + 1 /\ UNCHANGED <<now, faults, commands>>
    BY DEF Load, Goto
  <1> HIDE DEF o
  <1>4. StatesOK' /\ OpsOK' /\ LiveOK' /\ CountsOK'
    <2>1. StatesOK'
      BY <1>1, <1>3 DEF StatesOK
    <2>2. OpsOK'
      BY <1>1, <1>2, <1>3 DEF OpsOK, Modes
    <2>3. LiveOK' /\ CountsOK'
      BY <1>1, <1>3, SlotTypes DEF CountsOK
    <2> QED BY <2>1, <2>2, <2>3
  <1>5. /\ op'[h] = o /\ mem'[h] = store /\ mode'[h] = "starting"
        /\ Others(h)
    BY <1>1, <1>3 DEF StatesOK, OpsOK, Others
  <1>6. HostStep(h) /\ LocalOK(h)'
    BY <1>2, <1>3, <1>5 DEF HostStep, LocalOK, Owner, Running, At, EdgeSteps
  <1> QED BY <1>4, <1>6, Assemble

\* A first commit that succeeds gives its author the next supervisor epoch;
\* o and how say where the Host goes on.
LEMMA TakeoverSteps ==
  ASSUME FencingInv, NEW h \in Hosts, NEW next, TakesOver(mem[h], next), Commit(h, next),
         NEW o \in Operations, Goto(h, o), o.at \notin EdgeSteps,
         NEW m \in Modes, mode' = [mode EXCEPT ![h] = m],
         NEW p \in ControlStates, plan' = [plan EXCEPT ![h] = p],
         o.at = "restaging" => p = store',
         UNCHANGED live, UNCHANGED env
  PROVE  Sound(h)
  <1>1. CountsOK /\ LiveOK /\ StatesOK /\ OpsOK
    BY HostTypes
  <1>2. /\ Advanced(h) /\ faults' = faults
        /\ mem' = [mem EXCEPT ![h] = store']
        /\ store'.supervisorEpoch = next.supervisorEpoch
        /\ mem[h].supervisorEpoch = store.supervisorEpoch
    BY CommitAdvances
  <1>3. store.supervisorEpoch \in Nat /\ next.supervisorEpoch = store.supervisorEpoch + 1
    BY <1>1, <1>2 DEF StatesOK, ControlStates, TakesOver
  <1>4. StatesOK'
    BY <1>1, <1>2 DEF StatesOK, Advanced
  <1>5. OpsOK'
    BY <1>1 DEF OpsOK, Goto
  <1>6. LiveOK' /\ CountsOK'
    BY <1>1, <1>2, SlotTypes, CountTypes DEF CountsOK
  <1>7. /\ op'[h] = o /\ mem'[h] = store' /\ plan'[h] = p
        /\ Others(h)
    BY <1>1, <1>2 DEF StatesOK, OpsOK, Others, Goto
  <1>8. LocalOK(h)'
    BY <1>7 DEF LocalOK, At
  <1>9. HostStep(h)
    <2>1. mem'[h].supervisorEpoch > store.supervisorEpoch
      BY <1>2, <1>3, <1>7
    <2>2. mem'[h].supervisorEpoch <= store'.supervisorEpoch
      BY <1>2, <1>3, <1>7
    <2> QED BY <1>2, <1>7, <2>1, <2>2 DEF HostStep
  <1> QED BY <1>4, <1>5, <1>6, <1>8, <1>9, Assemble

\* build and replace_suspended.
LEMMA StartFreshSound ==
  ASSUME FencingInv, NEW h \in Hosts, OpenHost(h) \/ ReplaceHost(h)
  PROVE  Sound(h)
  <1>0. mem[h] \in ControlStates /\ plan[h] \in ControlStates /\ StatesOK
    BY HostTypes
  <1>1. PICK next : TakesOver(mem[h], next) /\ StartFresh(h, next)
    BY <1>0, OpenStateTakesOver, ReplaceSuspendedTakesOver DEF OpenHost, ReplaceHost
  <1>2. CASE Commit(h, next) /\ Serve(h) /\ UNCHANGED <<plan, live>>
    <2>1. plan' = [plan EXCEPT ![h] = plan[h]]
      BY <1>0, <1>2 DEF StatesOK
    <2>2. Idle \in Operations /\ Idle.at \notin EdgeSteps /\ Idle.at # "restaging"
      BY IdleOrdinary DEF Ordinary, Idle, EdgeSteps
    <2>3. UNCHANGED live /\ UNCHANGED env
      BY <1>1, <1>2 DEF StartFresh
    <2> QED BY <1>0, <1>1, <1>2, <2>1, <2>2, <2>3, TakeoverSteps DEF Serve, Modes
  <1>3. CASE CommitFails(h, next) /\ Exit(h)
    BY <1>1, <1>3, CommitsAndQuits DEF StartFresh
  <1> QED BY <1>1, <1>2, <1>3 DEF StartFresh

\* The first commit of recover.
LEMMA RecoverFenceSound ==
  ASSUME FencingInv, NEW h \in Hosts, RecoverFence(h)
  PROVE  Sound(h)
  <1> DEFINE next == FenceForRecovery(mem[h])
             o == [op[h] EXCEPT !.at = "restaging", !.todo = Live(next)]
  <1>1. /\ mem[h] \in ControlStates /\ op[h] \in Operations
        /\ TakesOver(mem[h], next) /\ next \in ControlStates /\ StatesOK /\ OpsOK
    BY HostTypes, FenceForRecoveryTakesOver DEF TakesOver
  <1>2. Live(next) \in SUBSET Generations
    BY DEF Live
  <1>3. o \in Operations /\ o.at = "restaging" /\ "restaging" \notin EdgeSteps
    BY <1>1, <1>2, Zenon DEF Operations, Steps, EdgeSteps
  <1>4. Stamped(h, next) \in ControlStates
    BY <1>1, StampedType DEF FencingInv
  <1> HIDE DEF next
  <1>5. CASE Commit(h, next) /\ plan' = [plan EXCEPT ![h] = Stamped(h, next)] /\ Goto(h, o)
             /\ UNCHANGED <<mode, live>> /\ UNCHANGED env
    <2>1. store' = Stamped(h, next)
      BY <1>5 DEF Commit, Write
    <2>2. mode' = [mode EXCEPT ![h] = mode[h]] /\ mode[h] \in Modes
      BY <1>1, <1>5 DEF OpsOK
    <2> HIDE DEF o
    <2> QED BY <1>1, <1>3, <1>4, <1>5, <2>1, <2>2, TakeoverSteps
  <1>6. CASE CommitFails(h, next) /\ Exit(h) /\ UNCHANGED env
    BY <1>1, <1>6, CommitsAndQuits
  <1> QED BY <1>5, <1>6 DEF RecoverFence, next

\* recover deals with one record: the plan keeps its epochs and at most loses
\* its route.
LEMMA RecoverRecordSound ==
  ASSUME FencingInv, NEW h \in Hosts, NEW g \in Generations, RecoverRecord(h, g)
  PROVE  Sound(h)
  <1> DEFINE o == [op[h] EXCEPT !.todo = @ \ {g}]
             Kept(p) == /\ p \in ControlStates
                        /\ p.supervisorEpoch = plan[h].supervisorEpoch
                        /\ p.routingEpoch = plan[h].routingEpoch
                        /\ p.active \in {plan[h].active, None}
  <1>1. /\ mem[h] \in ControlStates /\ plan[h] \in ControlStates /\ op[h] \in Operations
        /\ CountsOK /\ LiveOK /\ StatesOK /\ OpsOK
    BY HostTypes
  <1>2. LocalOK(h) /\ At(h, "restaging")
    BY LocalParts DEF FencingInv, RecoverRecord
  <1>3. o \in Operations /\ o.at = op[h].at
    <2>1. op[h].todo \ {g} \in SUBSET Generations
      BY HostTypes
    <2> HIDE <1>2
    <2> QED BY <1>1, <2>1, Zenon DEF Operations
  <1>4. /\ Kept(Abandon(plan[h], g, "RecoveryCleanup"))
        /\ Kept(Abandon(plan[h], g, "RollbackWindowExpired"))
    <2>1. ASSUME NEW reason \in Reasons PROVE Kept(Abandon(plan[h], g, reason))
      <3>1. Follows(plan[h], Abandon(plan[h], g, reason))
        <4>1. reason \in Reasons \union {None}
          OBVIOUS
        <4>2. Follows(plan[h], Retire(plan[h], g, reason, TRUE)) /\ Follows(plan[h], Abandon(plan[h], g, reason))
          BY <1>1, <4>1, RetireFollows
        <4> QED BY <4>2
      <3> QED BY <1>1, <3>1, AbandonKeeps DEF Follows
    <2> QED BY <2>1, Names
  <1>5. Kept(Unstaged(plan[h], g)) /\ Kept(plan[h])
    BY <1>1, UnstagedKeeps DEF Follows
  <1>6. /\ UNCHANGED <<store, mem, mode, env>> /\ Goto(h, o)
        /\ plan' = plan \/ \E p : Kept(p) /\ plan' = [plan EXCEPT ![h] = p]
        /\ LiveOK' /\ faults' \in Nat
    <2>1. /\ UNCHANGED <<store, mem, mode, env>> /\ Goto(h, o)
          /\ \/ /\ \E p : Kept(p) /\ plan' = [plan EXCEPT ![h] = p]
                /\ UNCHANGED live
                /\ UNCHANGED faults \/ Fault("stage")
             \/ Insert(h, g) /\ UNCHANGED <<plan, faults>>
      <3> HIDE DEF Kept, o
      <3> QED BY <1>4, <1>5 DEF RecoverRecord, o
    <2>2. LiveOK'
      BY <1>1, <2>1, SlotTypes
    <2>3. faults' \in Nat
      BY <1>1, <2>1, FaultType DEF CountsOK
    <2> QED BY <2>1, <2>2, <2>3
  <1> HIDE DEF o
  <1>7. PICK p : Kept(p) /\ plan' = [plan EXCEPT ![h] = p]
    <2>1. CASE plan' = plan
      BY <1>1, <1>5, <2>1 DEF StatesOK
    <2> QED BY <1>6, <2>1
  <1>8. StatesOK' /\ OpsOK' /\ CountsOK'
    <2>1. StatesOK'
      BY <1>1, <1>6, <1>7 DEF StatesOK
    <2>2. OpsOK'
      BY <1>1, <1>3, <1>6 DEF OpsOK, Goto
    <2>3. CountsOK'
      BY <1>1, <1>6, CountTypes
    <2> QED BY <2>1, <2>2, <2>3
  <1>9. op'[h] = o /\ plan'[h] = p /\ mem'[h] = mem[h] /\ Others(h)
    BY <1>1, <1>6, <1>7 DEF StatesOK, OpsOK, Others, Goto
  <1>10. LocalOK(h)'
    BY <1>2, <1>3, <1>7, <1>9 DEF LocalOK, At, EdgeSteps
  <1>11. HostStep(h)
    BY <1>2, <1>6, <1>9 DEF HostStep, Owner
  <1> QED BY <1>6, <1>8, <1>10, <1>11, Assemble

\* recover gives up: the recovered slots are shut down.
LEMMA RecoverAbortSound ==
  ASSUME FencingInv, NEW h \in Hosts, RecoverAbort(h)
  PROVE  Sound(h)
  BY HostTypes, FaultType, Quits DEF RecoverAbort, Exit

\* The second commit of recover.
LEMMA RecoverFinishSound ==
  ASSUME FencingInv, NEW h \in Hosts, RecoverFinish(h)
  PROVE  Sound(h)
  <1>1. /\ mem[h] \in ControlStates /\ plan[h] \in ControlStates
        /\ CountsOK /\ LiveOK /\ StatesOK /\ OpsOK /\ slots[h] \in SUBSET Generations
    BY HostTypes
  <1>2. Follows(mem[h], plan[h])
    <2>1. LocalOK(h) /\ At(h, "restaging")
      BY LocalParts DEF FencingInv, RecoverFinish
    <2>2. mem[h].routingEpoch \in Nat
      BY <1>1 DEF ControlStates
    <2> QED BY <1>1, <2>1, <2>2 DEF LocalOK, Follows, Pinned
  <1>3. \A g \in Successors(h) : Follows(mem[h], Promote(plan[h], g))
    BY <1>1, <1>2, PromoteFollows, FollowsTransitive DEF Successors
  <1>4. PICK next : /\ Follows(mem[h], next)
                    /\ \/ /\ Commit(h, next) /\ Serve(h)
                          /\ plan' = [plan EXCEPT ![h] = InitialState]
                          /\ UNCHANGED live
                       \/ CommitFails(h, next) /\ Exit(h)
                    /\ UNCHANGED env /\ At(h, "restaging")
    <2> HIDE DEF Successors
    <2> QED BY <1>2, <1>3 DEF RecoverFinish
  <1>5. CASE /\ Commit(h, next) /\ Serve(h)
             /\ plan' = [plan EXCEPT ![h] = InitialState]
             /\ UNCHANGED live
    <2>1. /\ Advanced(h) /\ faults' = faults
          /\ mem' = [mem EXCEPT ![h] = store']
          /\ store'.supervisorEpoch = mem[h].supervisorEpoch
      BY <1>4, <1>5, CommitAdvances DEF Follows
    <2>2. Idle \in Operations /\ Idle.at = "idle"
      BY IdleOrdinary DEF Ordinary, Idle
    <2>3. StatesOK' /\ OpsOK' /\ LiveOK' /\ CountsOK'
      <3>1. StatesOK'
        BY <1>1, <1>5, <2>1, InitialStateType DEF StatesOK, Advanced
      <3>2. OpsOK'
        BY <1>1, <1>5, <2>2 DEF OpsOK, Serve, Goto, Modes
      <3>3. LiveOK' /\ CountsOK'
        BY <1>1, <1>4, <1>5, <2>1, SlotTypes, CountTypes DEF CountsOK
      <3> QED BY <3>1, <3>2, <3>3
    <2>4. op'[h] = Idle /\ mem'[h] = store' /\ Others(h)
      BY <1>1, <1>5, <2>1 DEF StatesOK, OpsOK, Others, Serve, Goto
    <2>5. LocalOK(h)'
      BY <2>2, <2>4 DEF LocalOK, At, EdgeSteps
    <2>6. HostStep(h)
      BY <1>4, <2>1, <2>4 DEF HostStep, Owner
    <2> QED BY <2>3, <2>5, <2>6, Assemble
  <1>6. CASE CommitFails(h, next) /\ Exit(h)
    BY <1>4, <1>6, CommitsAndQuits
  <1> QED BY <1>4, <1>5, <1>6

-----------------------------------------------------------------------------
(* transition                                                               *)

\* The operation h is in, with a new step and possibly an unclean shutdown.
LEMMA NextSteps ==
  ASSUME FencingInv, NEW h \in Hosts, NEW x \in Steps \ {"restaging"},
         x \in EdgeSteps => op[h].at \in EdgeSteps
  PROVE  /\ Ordinary([op[h] EXCEPT !.at = x])
         /\ Ordinary([op[h] EXCEPT !.at = x, !.clean = FALSE])
         /\ \A T \in SUBSET Generations : Ordinary([op[h] EXCEPT !.at = x, !.todo = T])
  <1> DEFINE o == op[h]
  <1>1. o \in Operations /\ (o.at \in EdgeSteps => o.edge \in Edges)
    BY HostTypes
  <1> HIDE DEF o
  <1>2. ASSUME NEW T \in SUBSET Generations
        PROVE  /\ [o EXCEPT !.at = x] \in Operations
               /\ [o EXCEPT !.at = x, !.clean = FALSE] \in Operations
               /\ [o EXCEPT !.at = x, !.todo = T] \in Operations
               /\ [o EXCEPT !.at = x].at = x
               /\ [o EXCEPT !.at = x].edge = o.edge
               /\ [o EXCEPT !.at = x, !.clean = FALSE].at = x
               /\ [o EXCEPT !.at = x, !.clean = FALSE].edge = o.edge
               /\ [o EXCEPT !.at = x, !.todo = T].at = x
               /\ [o EXCEPT !.at = x, !.todo = T].edge = o.edge
    BY <1>1, Zenon DEF Operations
  <1>3. {} \in SUBSET Generations
    OBVIOUS
  <1>4. x # "restaging" /\ (x \in EdgeSteps => o.edge \in Edges)
    BY <1>1 DEF o
  <1>5. ASSUME NEW T \in SUBSET Generations
        PROVE  /\ Ordinary([o EXCEPT !.at = x])
               /\ Ordinary([o EXCEPT !.at = x, !.clean = FALSE])
               /\ Ordinary([o EXCEPT !.at = x, !.todo = T])
    <2> DEFINE p == [o EXCEPT !.at = x]
               q == [o EXCEPT !.at = x, !.clean = FALSE]
               r == [o EXCEPT !.at = x, !.todo = T]
    <2>1. /\ p \in Operations /\ q \in Operations /\ r \in Operations
          /\ p.at = x /\ q.at = x /\ r.at = x
          /\ p.edge = o.edge /\ q.edge = o.edge /\ r.edge = o.edge
      BY <1>2
    <2> HIDE DEF p, q, r
    <2>2. Ordinary(p) /\ Ordinary(q) /\ Ordinary(r)
      BY <1>4, <2>1 DEF Ordinary
    <2> QED BY <2>2 DEF p, q, r
  <1> QED BY <1>3, <1>5, Zenon DEF o

\* Every name of a step is one.
LEMMA StepNames ==
  /\ Steps = {"idle", "opening", "replacing", "fencing", "restaging",
              "candidate", "maintenance", "staging", "unstaged", "ready",
              "reconcile", "inactive", "candidates", "stop", "retiring",
              "suspending", "draining", "bounded"}
  /\ EdgeSteps = {"candidate", "maintenance", "staging", "ready"}
  BY DEF Steps, EdgeSteps

\* transition records the candidate, or panics on the missing active slot.
LEMMA TransitionSound ==
  ASSUME FencingInv, NEW h \in Hosts, NEW e \in Edges, Transition(h, e)
  PROVE  Sound(h)
  <1> DEFINE next == StageCandidate(mem[h], e, now)
             x == IF e.mode = "Maintenance" THEN "candidate" ELSE "staging"
             o == [Idle EXCEPT !.at = x, !.edge = e, !.time = now]
  <1>1. Follows(mem[h], next) /\ now \in Nat /\ CountsOK
    BY HostTypes, StageCandidateFollows
  <1>2. Ordinary(o)
    <2>1. x \in {"candidate", "staging"}
      OBVIOUS
    <2> HIDE DEF x
    <2>2. o.at = x /\ o.edge = e
      BY Zenon DEF Idle
    <2>3. o \in Operations
      BY <1>1, <2>1 DEF Operations, Idle, Steps
    <2> QED BY <2>1, <2>2, <2>3 DEF Ordinary
  <1> HIDE DEF next, o
  <1>3. CASE Panic(h) /\ Command(h)
    BY <1>1, <1>3, Quits DEF Panic, CountsOK
  <1>4. CASE Commit(h, next) /\ Goto(h, o) /\ UNCHANGED <<local, live>> /\ Command(h)
    BY <1>1, <1>2, <1>4, GoesOn
  <1>5. CASE CommitFails(h, next) /\ Reply(h) /\ Command(h)
    BY <1>1, <1>5, Replies
  <1> QED BY <1>3, <1>4, <1>5 DEF Transition, next, o

\* A commit that ends the operation either way.
LEMMA CommitAndReplySound ==
  ASSUME FencingInv, NEW h \in Hosts, NEW next, Follows(mem[h], next), CommitAndReply(h, next)
  PROVE  Sound(h)
  BY GoesOn, Replies, IdleOrdinary DEF CommitAndReply

\* The candidate is given up: its predecessor is leased, or it did not stage.
LEMMA GiveUpSound ==
  ASSUME FencingInv, NEW h \in Hosts, RefuseLeased(h) \/ RecordStageFailure(h)
  PROVE  Sound(h)
  <1>1. Follows(mem[h], FailCandidate(mem[h], op[h].edge.to))
    BY HostTypes, MarksFollow
  <1> QED BY <1>1, CommitAndReplySound DEF RefuseLeased, RecordStageFailure

\* The predecessor of a maintenance edge is stopped.
LEMMA StopPredecessorSound ==
  ASSUME FencingInv, NEW h \in Hosts, StopPredecessor(h)
  PROVE  Sound(h)
  <1>1. CountsOK /\ LiveOK
    BY HostTypes
  <1>2. CASE Panic(h) /\ UNCHANGED env
    BY <1>1, <1>2, Quits DEF Panic, CountsOK
  <1>3. CASE /\ Drop(h, op[h].edge.from)
             /\ \/ Goto(h, [op[h] EXCEPT !.at = "maintenance"]) /\ UNCHANGED faults
                \/ /\ Fault("shutdown")
                   /\ Goto(h, [op[h] EXCEPT !.at = "maintenance", !.clean = FALSE])
             /\ UNCHANGED <<store, mem, local>> /\ UNCHANGED env
             /\ At(h, "candidate")
    <2>1. faults' \in Nat
      BY <1>1, <1>3, FaultType DEF CountsOK
    <2>2. LiveOK' /\ CountsOK'
      BY <1>1, <1>3, <2>1, SlotTypes, CountTypes
    <2>3. /\ Ordinary([op[h] EXCEPT !.at = "maintenance"])
          /\ Ordinary([op[h] EXCEPT !.at = "maintenance", !.clean = FALSE])
      BY <1>3, NextSteps, StepNames DEF At
    <2> QED BY <1>3, <2>2, <2>3, Moves
  <1> QED BY <1>2, <1>3 DEF StopPredecessor

\* The stopped predecessor is retired and the candidate staged, or given up.
LEMMA RetirePredecessorSound ==
  ASSUME FencingInv, NEW h \in Hosts, RetirePredecessor(h)
  PROVE  Sound(h)
  <1> DEFINE next == StopForMaintenance(mem[h], op[h].edge, op[h].clean)
             o == IF op[h].clean THEN [op[h] EXCEPT !.at = "staging"] ELSE Idle
  <1>1. Follows(mem[h], next)
    BY HostTypes, StopForMaintenanceFollows
  <1>2. At(h, "maintenance") => Ordinary(o)
    BY NextSteps, StepNames, IdleOrdinary DEF At
  <1> HIDE DEF next, o
  <1> QED BY <1>1, <1>2, GoesOn, Replies DEF RetirePredecessor, next, o

\* stage fails, or returns a handle that becomes Ready.
LEMMA StageSound ==
  ASSUME FencingInv, NEW h \in Hosts, StageFails(h) \/ StageSucceeds(h)
  PROVE  Sound(h)
  <1>1. CountsOK /\ LiveOK /\ Follows(mem[h], MarkReady(mem[h], op[h].edge.to))
    BY HostTypes, MarksFollow
  <1>2. At(h, "staging") => /\ Ordinary([op[h] EXCEPT !.at = "unstaged"])
                            /\ Ordinary([op[h] EXCEPT !.at = "ready"])
    BY NextSteps, StepNames DEF At
  <1>3. CASE StageFails(h)
    <2>1. LiveOK' /\ CountsOK' /\ UNCHANGED local
      BY <1>1, <1>3, FaultType, SlotTypes, CountTypes DEF StageFails
    <2> QED BY <1>2, <1>3, <2>1, Moves DEF StageFails
  <1>4. CASE StageSucceeds(h)
    BY <1>1, <1>2, <1>4, GoesOn, Replies DEF StageSucceeds
  <1> QED BY <1>3, <1>4

\* The route switch.
LEMMA PublishSound ==
  ASSUME FencingInv, NEW h \in Hosts, Publish(h)
  PROVE  Sound(h)
  <1> DEFINE next == Switch(mem[h], op[h].edge, op[h].time)
  <1>1. CountsOK /\ LiveOK /\ op[h].edge \in Edges
    BY HostTypes, StepNames DEF Publish, At
  <1>2. Follows(mem[h], next) /\ op[h].edge.to \in Generations
    BY <1>1, HostTypes, SwitchFollows DEF Edges
  <1> HIDE DEF next
  <1>3. CASE /\ Commit(h, next) /\ Insert(h, op[h].edge.to) /\ Goto(h, Idle)
             /\ UNCHANGED local /\ UNCHANGED env
    <2>1. HostStep(h) /\ LocalOK(h)' /\ StatesOK' /\ OpsOK' /\ faults' \in Nat
      BY <1>2, <1>3, Commits, IdleOrdinary DEF local, Goto
    <2>2. LiveOK' /\ CountsOK'
      BY <1>1, <1>2, <1>3, <2>1, SlotTypes, CountTypes
    <2> QED BY <2>1, <2>2, Assemble
  <1>4. CASE CommitFails(h, next) /\ Reply(h) /\ UNCHANGED env
    BY <1>2, <1>4, Replies
  <1> QED BY <1>3, <1>4 DEF Publish, next

-----------------------------------------------------------------------------
(* rollback, begin_shutdown                                                 *)

\* An operation whose step has no edge to remember.
Plain(o) == o \in Operations /\ o.at \in Steps \ (EdgeSteps \union {"restaging"})

\* Such an operation needs nothing else.
LEMMA PlainOrdinary == ASSUME NEW o, Plain(o) PROVE Ordinary(o)
  BY DEF Plain, Ordinary

\* A commit that keeps the operation where it is, between two operations.
LEMMA RollbackSound ==
  ASSUME FencingInv, NEW h \in Hosts, NEW g \in Generations, Rollback(h, g)
  PROVE  Sound(h)
  <1> DEFINE next == Roll(mem[h], g, now)
  <1>1. Follows(mem[h], next) /\ OpsOK
    BY HostTypes, RollFollows
  <1> HIDE DEF next
  <1>2. Command(h) /\ op[h] \in Operations /\ Ordinary(op[h])
    BY HostTypes DEF Rollback, Command, At, Ordinary, EdgeSteps
  <1>3. CASE Commit(h, next) /\ UNCHANGED <<local, live, op>>
    <2>1. Goto(h, op[h])
      BY <1>1, <1>3 DEF Goto, OpsOK
    <2> QED BY <1>1, <1>2, <1>3, <2>1, GoesOn
  <1>4. CASE CommitFails(h, next) /\ Reply(h)
    BY <1>1, <1>2, <1>4, Replies
  <1> QED BY <1>3, <1>4 DEF Rollback, next

\* begin_shutdown withdraws the route and closes the Host to commands.
LEMMA StartShutdownSound ==
  ASSUME FencingInv, NEW h \in Hosts, StartShutdown(h)
  PROVE  Sound(h)
  <1> DEFINE next == BeginShutdown(mem[h], now)
  <1>1. Follows(mem[h], next) /\ OpsOK /\ CountsOK /\ LiveOK
    BY HostTypes, BeginShutdownFollows
  <1> HIDE DEF next
  <1>2. Command(h) /\ op[h] \in Operations /\ Ordinary(op[h]) /\ Running(h)
    BY HostTypes DEF StartShutdown, Command, At, Ordinary, EdgeSteps, Running
  <1>3. CASE Commit(h, next) /\ mode' = [mode EXCEPT ![h] = "closing"]
             /\ UNCHANGED <<plan, live, op>>
    <2>1. op' = [op EXCEPT ![h] = op[h]]
      BY <1>1, <1>3 DEF OpsOK
    <2>2. HostStep(h) /\ LocalOK(h)' /\ StatesOK' /\ OpsOK' /\ faults' \in Nat
      BY <1>1, <1>2, <1>3, <2>1, Commits
    <2>3. LiveOK' /\ CountsOK'
      BY <1>1, <1>2, <1>3, <2>2, SlotTypes, CountTypes
    <2> QED BY <2>2, <2>3, Assemble
  <1>4. CASE CommitFails(h, next) /\ Exit(h)
    BY <1>1, <1>2, <1>4, CommitsAndQuits
  <1> QED BY <1>3, <1>4 DEF StartShutdown, next

\* The Controller ends after a completed shutdown.
LEMMA StopSound ==
  ASSUME FencingInv, NEW h \in Hosts, Stop(h)
  PROVE  Sound(h)
  BY HostTypes, Quits DEF Stop, Exit, CountsOK

-----------------------------------------------------------------------------
(* maintain                                                                 *)

\* Where a pass may stand next is an operation without an edge.
LEMMA PassSteps ==
  ASSUME FencingInv, NEW h \in Hosts, NEW o \in Operations, NEW s
  PROVE  /\ Plain(EnterCandidates(o, s)) /\ Plain(EnterInactive(h, o, s))
         /\ Plain(Resume(o, s))
  <1>1. ASSUME NEW q \in Operations PROVE Plain(EnterCandidates(q, s))
    <2> DEFINE due == {g \in Generations : s.records[g].lifecycle \in Retained}
               p == [q EXCEPT !.at = "candidates", !.todo = due, !.after = "candidates"]
    <2>1. due \in SUBSET Generations
      OBVIOUS
    <2> HIDE DEF due
    <2>2. p \in Operations /\ p.at = "candidates"
      BY <2>1, StepNames, Zenon DEF Operations, Steps
    <2>3. Plain(Idle)
      BY IdleOrdinary DEF Plain, Ordinary, Idle, Steps, EdgeSteps
    <2> HIDE DEF p
    <2>4. Plain(p)
      BY <2>2, StepNames DEF Plain
    <2> QED BY <2>3, <2>4 DEF EnterCandidates, p, due
  <1>2. Plain(EnterInactive(h, o, s))
    <2> DEFINE f == InactiveFailures(h, s)
               p == [o EXCEPT !.at = "inactive", !.todo = f]
    <2>1. f \in SUBSET Generations
      BY HostTypes DEF InactiveFailures, LiveOK
    <2> HIDE DEF f
    <2>2. p \in Operations /\ p.at = "inactive"
      BY <2>1, StepNames, Zenon DEF Operations, Steps
    <2> HIDE DEF p
    <2>3. Plain(p)
      BY <2>2, StepNames DEF Plain
    <2> QED BY <1>1, <2>3 DEF EnterInactive, p, f
  <1>3. Plain(Resume(o, s))
    <2> DEFINE q == [o EXCEPT !.gen = None, !.reason = None]
               p == [o EXCEPT !.at = o.after, !.gen = None, !.reason = None]
    <2>1. q \in Operations
      BY Zenon DEF Operations
    <2>2. o.after \in {"inactive", "candidates"}
      BY DEF Operations
    <2>3. o.after \in Steps
      BY <2>2, StepNames
    <2>4. p \in Operations /\ p.at = o.after
      BY <2>3, Zenon DEF Operations
    <2>5. Plain(Idle)
      BY IdleOrdinary DEF Plain, Ordinary, Idle, Steps, EdgeSteps
    <2>6. Plain(EnterCandidates(q, s))
      BY <1>1, <2>1
    <2> HIDE DEF p, q
    <2>7. Plain(p)
      BY <2>2, <2>4, StepNames DEF Plain
    <2> QED BY <2>5, <2>6, <2>7 DEF Resume, p, q
  <1> QED BY <1>1, <1>2, <1>3

\* A commit of the pass, or the end of the Host.
LEMMA CommitOrExitSound ==
  ASSUME FencingInv, NEW h \in Hosts, NEW next, Follows(mem[h], next),
         NEW o, Plain(o), CommitOrExit(h, next, o)
  PROVE  Sound(h)
  <1>1. Ordinary(o)
    BY PlainOrdinary
  <1> QED BY <1>1, GoesOn, CommitsAndQuits DEF CommitOrExit

\* A step of the pass that looks at the state and moves on.
LEMMA LooksOn ==
  ASSUME FencingInv, NEW h \in Hosts, NEW o, Plain(o), Goto(h, o),
         UNCHANGED <<store, mem, local, live, faults>>, UNCHANGED env \/ Command(h)
  PROVE  Sound(h)
  <1>1. CountsOK /\ LiveOK /\ Ordinary(o)
    BY HostTypes, PlainOrdinary
  <1>2. LiveOK' /\ CountsOK'
    BY <1>1, SlotTypes, CountTypes DEF CountsOK
  <1> QED BY <1>1, <1>2, Moves

\* reconcile_active_generation.
LEMMA TickSound ==
  ASSUME FencingInv, NEW h \in Hosts, Tick(h)
  PROVE  Sound(h)
  <1> DEFINE a == mem[h].active
             pass == [Idle EXCEPT !.time = now]
             o == [pass EXCEPT !.at = "reconcile"]
  <1>1. /\ now \in Nat /\ Idle \in Operations /\ CountsOK
        /\ Follows(mem[h], MarkFailed(mem[h], a))
    BY HostTypes, IdleOrdinary, MarksFollow DEF Ordinary
  <1>2. pass \in Operations
    BY <1>1, OperationFields
  <1> HIDE DEF pass
  <1>3. o \in Operations /\ o.at = "reconcile"
    BY <1>2, StepNames, Zenon DEF Operations, Steps
  <1> HIDE DEF o
  <1>4. Plain(o)
    BY <1>3, StepNames DEF Plain
  <1>5. CASE Panic(h) /\ UNCHANGED env
    BY <1>1, <1>5, Quits DEF Panic, CountsOK
  <1>6. CASE CommitOrExit(h, MarkFailed(mem[h], a), o)
    BY <1>1, <1>4, <1>6, CommitOrExitSound
  <1>7. CASE /\ Goto(h, EnterInactive(h, pass, mem[h]))
             /\ UNCHANGED <<store, mem, local, live, faults, env>>
    <2>1. Plain(EnterInactive(h, pass, mem[h]))
      BY <1>2, PassSteps
    <2> QED BY <1>7, <2>1, LooksOn
  <1> QED BY <1>5, <1>6, <1>7 DEF Tick, pass, o

\* mark_generation_failed: fall back to the retained predecessor, or fence.
LEMMA ReactSound ==
  ASSUME FencingInv, NEW h \in Hosts, React(h)
  PROVE  Sound(h)
  <1>1. mem[h] \in ControlStates /\ op[h].time \in Nat /\ op[h] \in Operations
    BY HostTypes
  <1>2. Follows(mem[h], FenceActive(mem[h], op[h].time))
    BY <1>1, FenceActiveFollows
  <1>3. AutomaticTargets(mem[h], op[h].time) \subseteq Generations
    BY DEF AutomaticTargets
  <1>4. \A g \in AutomaticTargets(mem[h], op[h].time) :
           Follows(mem[h], Roll(mem[h], g, op[h].time))
    BY <1>1, <1>3, RollFollows
  <1>5. PICK next : Follows(mem[h], next) /\ CommitOrExit(h, next, EnterInactive(h, op[h], next))
    BY <1>2, <1>4 DEF React
  <1>6. Plain(EnterInactive(h, op[h], next))
    BY <1>1, PassSteps
  <1> QED BY <1>5, <1>6, CommitOrExitSound

\* The pass records the failure of an inactive Generation, and will stop it.
LEMMA MarkInactiveFailedSound ==
  ASSUME FencingInv, NEW h \in Hosts, NEW g \in Generations, MarkInactiveFailed(h, g)
  PROVE  Sound(h)
  <1> DEFINE T == op[h].todo \ {g}
             o == [op[h] EXCEPT !.at = "stop", !.gen = g, !.todo = T,
                                !.reason = "TerminalFailure", !.after = "inactive"]
  <1>1. op[h] \in Operations /\ T \in SUBSET Generations /\ mem[h] \in ControlStates
    BY HostTypes
  <1>2. Follows(mem[h], MarkFailed(mem[h], g))
    BY <1>1, MarksFollow
  <1>3. CommitOrExit(h, MarkFailed(mem[h], g), o)
    BY Zenon DEF MarkInactiveFailed
  <1> HIDE DEF T
  <1>4. o \in Operations /\ o.at = "stop"
    <2>1. "stop" \in Steps /\ "TerminalFailure" \in Reasons
      BY StepNames, Names
    <2> QED BY <1>1, <2>1, Zenon DEF Operations
  <1> HIDE DEF o
  <1>5. Plain(o)
    BY <1>4, StepNames DEF Plain
  <1> QED BY <1>2, <1>3, <1>5, CommitOrExitSound

\* maintain_candidate retires for a reason that is one.
LEMMA DueReasonType ==
  ASSUME FencingInv, NEW h \in Hosts, NEW g \in Generations
  PROVE  DueReason(h, g) \in Reasons \union {None}
  <1>1. mem[h].records[g] \in Records
    BY HostTypes, RecordType
  <1>2. mem[h].records[g].reason \in Reasons \union {None}
    BY <1>1 DEF Records
  <1> QED BY <1>2, Names DEF DueReason

\* maintain_candidate, for one retained record.
LEMMA MaintainCandidateSound ==
  ASSUME FencingInv, NEW h \in Hosts, NEW g \in Generations, MaintainCandidate(h, g)
  PROVE  Sound(h)
  <1> DEFINE T == op[h].todo \ {g}
             rest == [op[h] EXCEPT !.todo = T, !.after = "candidates"]
             why == DueReason(h, g)
             o == [rest EXCEPT !.at = "stop", !.gen = g, !.reason = why]
  <1>1. /\ op[h] \in Operations /\ T \in SUBSET Generations /\ mem[h] \in ControlStates
        /\ CountsOK /\ why \in Reasons \union {None}
    BY HostTypes, DueReasonType
  <1>2. Follows(mem[h], ToStandby(mem[h], g))
    BY <1>1, MarksFollow
  <1>3. \/ Exit(h) /\ UNCHANGED <<store, faults, env>>
        \/ CommitOrExit(h, ToStandby(mem[h], g), Resume(rest, mem[h]))
        \/ /\ Goto(h, Resume(rest, mem[h])) \/ Goto(h, o)
           /\ UNCHANGED <<store, mem, local, live, faults, env>>
    BY DEF MaintainCandidate
  <1> HIDE DEF T, why
  <1>4. rest \in Operations
    BY <1>1, Zenon DEF Operations
  <1> HIDE DEF rest
  <1>5. Plain(Resume(rest, mem[h]))
    BY <1>4, PassSteps
  <1>6. o \in Operations /\ o.at = "stop"
    <2>1. "stop" \in Steps
      BY StepNames
    <2> QED BY <1>1, <1>4, <2>1, Zenon DEF Operations
  <1> HIDE DEF o
  <1>7. Plain(o)
    BY <1>6, StepNames DEF Plain
  <1>8. CASE Exit(h) /\ UNCHANGED <<store, faults, env>>
    BY <1>1, <1>8, Quits DEF Exit, CountsOK
  <1>9. CASE CommitOrExit(h, ToStandby(mem[h], g), Resume(rest, mem[h]))
    BY <1>2, <1>5, <1>9, CommitOrExitSound
  <1>10. CASE /\ Goto(h, Resume(rest, mem[h])) \/ Goto(h, o)
              /\ UNCHANGED <<store, mem, local, live, faults, env>>
    <2>1. UNCHANGED <<store, mem, local, live, faults>> /\ UNCHANGED env
      BY <1>10
    <2> QED BY <1>5, <1>7, <1>10, <2>1, LooksOn
  <1> QED BY <1>3, <1>8, <1>9, <1>10

\* A slot is taken out and its runtime shut down; a shutdown may fail.
LEMMA DropSound ==
  ASSUME FencingInv, NEW h \in Hosts, NEW g, Drop(h, g), NEW o, Ordinary(o), Goto(h, o),
         UNCHANGED faults \/ Fault("shutdown"), UNCHANGED <<store, mem, local>>,
         UNCHANGED env
  PROVE  Sound(h)
  <1>1. CountsOK /\ LiveOK
    BY HostTypes
  <1>2. faults' \in Nat
    BY <1>1, FaultType DEF CountsOK
  <1>3. LiveOK' /\ CountsOK'
    BY <1>1, <1>2, SlotTypes, CountTypes
  <1> QED BY <1>3, Moves

\* shutdown_and_retire, its first half.
LEMMA StopRetainedSound ==
  ASSUME FencingInv, NEW h \in Hosts, StopRetained(h)
  PROVE  Sound(h)
  <1>1. CountsOK
    BY HostTypes
  <1>2. CASE Exit(h) /\ UNCHANGED <<store, faults>> /\ UNCHANGED env
    BY <1>1, <1>2, Quits DEF Exit, CountsOK
  <1>3. CASE /\ Drop(h, op[h].gen)
             /\ \/ Goto(h, [op[h] EXCEPT !.at = "retiring"]) /\ UNCHANGED faults
                \/ /\ Fault("shutdown")
                   /\ Goto(h, [op[h] EXCEPT !.at = "retiring", !.clean = FALSE])
             /\ UNCHANGED <<store, mem, local>> /\ UNCHANGED env
    <2>1. /\ Ordinary([op[h] EXCEPT !.at = "retiring"])
          /\ Ordinary([op[h] EXCEPT !.at = "retiring", !.clean = FALSE])
      BY NextSteps, StepNames
    <2> QED BY <1>3, <2>1, DropSound
  <1> QED BY <1>2, <1>3 DEF StopRetained

\* shutdown_and_retire, its second half.
LEMMA RetireStoppedSound ==
  ASSUME FencingInv, NEW h \in Hosts, RetireStopped(h)
  PROVE  Sound(h)
  <1> DEFINE next == Retire(mem[h], op[h].gen, op[h].reason, op[h].clean)
  <1>1. op[h] \in Operations /\ mem[h] \in ControlStates
    BY HostTypes
  <1>2. op[h].reason \in Reasons \union {None}
    BY <1>1 DEF Operations
  <1>3. Follows(mem[h], next)
    BY <1>1, <1>2, RetireFollows
  <1>4. Plain(Resume(op[h], next))
    BY <1>1, PassSteps
  <1> HIDE DEF next
  <1>5. Ordinary(Resume(op[h], next))
    BY <1>4, PlainOrdinary
  <1>6. CASE Commit(h, next) /\ Goto(h, Resume(op[h], next)) /\ UNCHANGED <<local, live>>
             /\ UNCHANGED env
    BY <1>3, <1>5, <1>6, GoesOn
  <1>7. CASE (Write(h, next) \/ CommitFails(h, next)) /\ Exit(h) /\ UNCHANGED env
    BY <1>3, <1>7, CommitsAndQuits
  <1> QED BY <1>6, <1>7 DEF RetireStopped, next

-----------------------------------------------------------------------------
(* suspend and drain_and_suspend                                            *)

\* Both suspensions begin without touching anything shared.
LEMMA BeginSuspendSound ==
  ASSUME FencingInv, NEW h \in Hosts,
         Suspend(h) \/ (\E spent \in {0, SuspendTimeout} : DrainAndSuspend(h, spent))
  PROVE  Sound(h)
  <1>1. Idle \in Operations /\ slots[h] \in SUBSET Generations /\ now \in Nat
    BY HostTypes, IdleOrdinary DEF Ordinary
  <1>2. CASE Suspend(h)
    <2> DEFINE T == slots[h]
               o == [Idle EXCEPT !.at = "suspending", !.todo = T]
    <2>1. o \in Operations /\ o.at = "suspending"
      BY <1>1, StepNames, Zenon DEF Operations, Steps
    <2> HIDE DEF o
    <2>2. Plain(o)
      BY <2>1, StepNames DEF Plain
    <2> QED BY <1>2, <2>2, LooksOn DEF Suspend, o
  <1>3. ASSUME NEW spent \in {0, SuspendTimeout}, DrainAndSuspend(h, spent)
        PROVE  Sound(h)
    <2> DEFINE d == SuspendTimeout - spent
               t == After(now, d)
               o == [Idle EXCEPT !.at = "draining", !.time = t]
    <2>1. SuspendTimeout \in Nat
      BY BoundsAssumption
    <2>2. d \in Nat
      BY <2>1
    <2> HIDE DEF d
    <2>3. t \in Nat
      BY <1>1, <2>2, AfterType
    <2> HIDE DEF t
    <2>4. o \in Operations /\ o.at = "draining"
      BY <1>1, <2>3, StepNames, Zenon DEF Operations, Steps
    <2> HIDE DEF o
    <2>5. Plain(o)
      BY <2>4, StepNames DEF Plain
    <2> QED BY <1>3, <2>5, LooksOn DEF DrainAndSuspend, o, t, d
  <1> QED BY <1>2, <1>3

\* One slot of a suspension is shut down.
LEMMA SuspendSlotSound ==
  ASSUME FencingInv, NEW h \in Hosts, NEW g \in Generations, SuspendSlot(h, g)
  PROVE  Sound(h)
  <1> DEFINE T == op[h].todo \ {g}
             o == [op[h] EXCEPT !.todo = T]
             p == [o EXCEPT !.clean = FALSE]
  <1>1. /\ op[h] \in Operations /\ T \in SUBSET Generations
        /\ op[h].at \in {"suspending", "bounded"}
    BY HostTypes DEF SuspendSlot, At
  <1>2. Drop(h, g) /\ UNCHANGED <<store, mem, local>> /\ UNCHANGED env
    BY DEF SuspendSlot
  <1>3. (Goto(h, o) \/ Goto(h, p)) /\ (UNCHANGED faults \/ Fault("shutdown"))
    BY DEF SuspendSlot
  <1> HIDE DEF T
  <1>4. o \in Operations /\ o.at = op[h].at
    BY <1>1, Zenon DEF Operations
  <1> HIDE DEF o
  <1>5. p \in Operations /\ p.at = o.at
    BY <1>4, Zenon DEF Operations
  <1> HIDE DEF p
  <1>6. Ordinary(o) /\ Ordinary(p)
    BY <1>1, <1>4, <1>5, StepNames DEF Ordinary
  <1> QED BY <1>2, <1>3, <1>6, DropSound

\* The flag is the last commit of a suspension.
LEMMA FinishSuspendSound ==
  ASSUME FencingInv, NEW h \in Hosts, FinishSuspend(h) \/ FinishBounded(h)
  PROVE  Sound(h)
  <1> DEFINE next == Suspended(h)
  <1>1. CountsOK /\ Follows(mem[h], next)
    BY HostTypes, FlagsFollow DEF Suspended
  <1> HIDE DEF next
  <1>2. CASE Write(h, next) /\ Exit(h) /\ UNCHANGED env
    BY <1>1, <1>2, CommitsAndQuits
  <1>3. CASE CommitFails(h, next) /\ Exit(h) /\ UNCHANGED env
    BY <1>1, <1>3, CommitsAndQuits
  <1>4. CASE CommitFails(h, next) /\ Reply(h) /\ UNCHANGED env
    BY <1>1, <1>4, Replies
  <1>5. CASE Exit(h) /\ UNCHANGED <<store, faults>> /\ UNCHANGED env
    BY <1>1, <1>5, Quits DEF Exit, CountsOK
  <1> QED BY <1>2, <1>3, <1>4, <1>5 DEF FinishSuspend, FinishBounded, CommitFails, next

\* The leases are gone, or the deadline of the suspension has come.
LEMMA DrainingSound ==
  ASSUME FencingInv, NEW h \in Hosts, LeasesDrained(h) \/ SuspendTimesOut(h)
  PROVE  Sound(h)
  <1>1. CountsOK /\ slots[h] \in SUBSET Generations
    BY HostTypes
  <1>2. CASE LeasesDrained(h)
    <2>1. Ordinary([op[h] EXCEPT !.at = "bounded", !.todo = slots[h]])
      BY <1>1, NextSteps, StepNames
    <2>2. LiveOK' /\ CountsOK'
      BY <1>2, HostTypes, SlotTypes, CountTypes DEF LeasesDrained, CountsOK
    <2> QED BY <1>2, <2>1, <2>2, Moves DEF LeasesDrained
  <1>3. CASE SuspendTimesOut(h)
    BY <1>1, <1>3, Quits DEF SuspendTimesOut, Exit, CountsOK
  <1> QED BY <1>2, <1>3

-----------------------------------------------------------------------------
(* Leases, failures, crashes and the clock                                  *)

\* A lease is opened or released, or a runtime fails.
LEMMA WorkSound ==
  ASSUME FencingInv, NEW h \in Hosts, NEW g \in Generations, Work(h, g)
  PROVE  Sound(h)
  <1>1. /\ CountsOK /\ LiveOK /\ leases[h][g] \in Nat
    BY HostTypes DEF LiveOK
  <1>2. ASSUME NEW n \in Nat
        PROVE  [leases EXCEPT ![h][g] = n] \in [Hosts -> [Generations -> Nat]]
    BY <1>1 DEF LiveOK
  <1>3. CASE Lease(h, g)
    <2>1. leases[h][g] + 1 \in Nat /\ leases' = [leases EXCEPT ![h][g] = leases[h][g] + 1]
      BY <1>1, <1>3 DEF Lease
    <2>2. LiveOK' /\ CountsOK'
      BY <1>1, <1>2, <1>3, <2>1 DEF Lease, LiveOK, CountsOK, env
    <2> QED BY <1>3, <2>2, Untouched DEF Lease, local
  <1>4. CASE Release(h, g)
    <2>1. leases[h][g] - 1 \in Nat /\ leases' = [leases EXCEPT ![h][g] = leases[h][g] - 1]
      BY <1>1, <1>4 DEF Release
    <2>2. LiveOK' /\ CountsOK'
      BY <1>1, <1>2, <1>4, <2>1 DEF Release, LiveOK, CountsOK, env
    <2> QED BY <1>4, <2>2, Untouched DEF Release, local
  <1>5. CASE Die(h, g)
    <2>1. faults' \in Nat
      BY <1>1, <1>5, FaultType DEF Die
    <2>2. LiveOK' /\ CountsOK'
      BY <1>1, <1>5, <2>1 DEF Die, LiveOK, CountsOK, env
    <2> QED BY <1>5, <2>2, Untouched DEF Die, local
  <1> QED BY <1>3, <1>4, <1>5 DEF Work

\* The process of a Host is killed.
LEMMA CrashSound ==
  ASSUME FencingInv, NEW h \in Hosts, Crash(h)
  PROVE  Sound(h)
  BY HostTypes, FaultType, Quits DEF Crash, Exit

-----------------------------------------------------------------------------
(* Every step, and the theorems                                             *)

\* Every step of a Host is a sound one.
LEMMA HostsSound ==
  ASSUME FencingInv, NEW h \in Hosts,
         \/ Start(h) \/ Operator(h) \/ Tick(h) \/ Continue(h) \/ StageFails(h) \/ Crash(h)
         \/ \E g \in Generations : Work(h, g)
  PROVE  Sound(h)
  <1>1. CASE Start(h)
    BY <1>1, LoadSound, StartFreshSound, RecoverFenceSound, RecoverRecordSound,
       RecoverAbortSound, RecoverFinishSound DEF Start
  <1>2. CASE Operator(h)
    BY <1>2, TransitionSound, RollbackSound, StartShutdownSound, BeginSuspendSound DEF Operator
  <1>3. CASE Continue(h)
    <2>1. CASE RefuseLeased(h) \/ StopPredecessor(h) \/ RetirePredecessor(h)
               \/ RecordStageFailure(h) \/ StageSucceeds(h) \/ Publish(h)
      BY <2>1, GiveUpSound, StopPredecessorSound, RetirePredecessorSound, StageSound,
         PublishSound
    <2>2. CASE React(h) \/ StopRetained(h) \/ RetireStopped(h) \/ Stop(h)
      BY <2>2, ReactSound, StopRetainedSound, RetireStoppedSound, StopSound
    <2>3. ASSUME NEW g \in Generations,
                 MarkInactiveFailed(h, g) \/ MaintainCandidate(h, g) \/ SuspendSlot(h, g)
          PROVE  Sound(h)
      BY <2>3, MarkInactiveFailedSound, MaintainCandidateSound, SuspendSlotSound
    <2>4. CASE FinishSuspend(h) \/ LeasesDrained(h) \/ SuspendTimesOut(h) \/ FinishBounded(h)
      BY <2>4, FinishSuspendSound, DrainingSound
    <2> QED BY <1>3, <2>1, <2>2, <2>3, <2>4 DEF Continue
  <1> QED BY <1>1, <1>2, <1>3, TickSound, StageSound, CrashSound, WorkSound

\* A step of the clock changes no state a Host or the store holds.
LEMMA ClockKeeps ==
  ASSUME FencingInv, AdvanceTime
  PROVE  FencingInv' /\ store' = store
  <1>1. now' \in Nat /\ UNCHANGED <<store, mem, plan, mode, op, slots, leases, dead,
                                    faults, commands, starts>>
    BY DEF AdvanceTime, FencingInv, TypeOK, local, live
  <1> QED BY <1>1 DEF FencingInv, TypeOK, EdgeKnown, InitialRevision, RecoveryPlan,
                      EpochOwners, FencedOrExact, Owner, Running, At

\* Nothing has happened yet: the inductive invariant holds initially.
LEMMA InitInductive == Init => FencingInv
  <1> SUFFICES ASSUME Init PROVE FencingInv
    OBVIOUS
  <1>1. InitialState \in ControlStates /\ Idle \in Operations /\ Idle.at = "idle"
    BY InitialStateType, IdleOrdinary DEF Ordinary, Idle
  <1>2. TypeOK
    BY <1>1 DEF Init, TypeOK
  <1>3. \A h \in Hosts : op[h] = Idle /\ mode[h] = "down" /\ mem[h] = store
    BY DEF Init
  <1>4. EdgeKnown /\ RecoveryPlan /\ EpochOwners
    BY <1>1, <1>3 DEF EdgeKnown, RecoveryPlan, EpochOwners, Owner, Running, At
  <1>5. FencedOrExact /\ InitialRevision
    BY <1>1, <1>3 DEF FencedOrExact, InitialRevision, Init, ControlStates
  <1> QED BY <1>2, <1>4, <1>5 DEF FencingInv

\* Every step keeps the inductive invariant, and writes the store, if at all,
\* over the exact state its author had read.
LEMMA StepInductive ==
  ASSUME FencingInv, [Next]_vars
  PROVE  FencingInv' /\ (store' = store \/ \E h \in Hosts : Advanced(h))
  <1>1. CASE UNCHANGED vars
    BY <1>1 DEF vars, FencingInv, TypeOK, EdgeKnown, InitialRevision, RecoveryPlan,
                EpochOwners, FencedOrExact, Owner, Running, At
  <1>2. CASE AdvanceTime
    BY <1>2, ClockKeeps
  <1>3. ASSUME NEW h \in Hosts, Sound(h)
        PROVE  FencingInv' /\ (store' = store \/ Advanced(h))
    BY <1>3, SoundPreserves DEF Sound, HostStep
  <1>4. Next => AdvanceTime \/ \E h \in Hosts : Sound(h)
    BY HostsSound DEF Next
  <1> QED BY <1>1, <1>2, <1>3, <1>4

\* Every reachable state satisfies the inductive invariant.
THEOREM Invariance == Spec => []FencingInv
  BY InitInductive, StepInductive, PTL DEF Spec

\* Every variable keeps its type: in particular lease counts never underflow.
THEOREM TypeCorrectness == Spec => []TypeOK
  <1>1. FencingInv => TypeOK
    BY DEF FencingInv
  <1> QED BY <1>1, Invariance, PTL

\* A Supervisor's memory is the durable state, exactly, or behind it, for any
\* number of Hosts, crashes, lost acknowledgements and store failures.
THEOREM Fencing == Spec => []FencedOrExact
  <1>1. FencingInv => FencedOrExact
    BY DEF FencingInv
  <1> QED BY <1>1, Invariance, PTL

\* No two running Supervisors share a supervisor epoch, and none is ahead of
\* the store.
THEOREM Incarnations == Spec => []EpochOwners
  <1>1. FencingInv => EpochOwners
    BY DEF FencingInv
  <1> QED BY <1>1, Invariance, PTL

\* At most one running Supervisor can still commit: two that could would both
\* hold the durable state, so share its supervisor epoch.
THEOREM Authority == Spec => []SoleAuthority
  <1>1. FencingInv => SoleAuthority
    <2> SUFFICES ASSUME FencingInv, NEW h \in Hosts, NEW k \in Hosts,
                        Unfenced(h), Unfenced(k), h # k
                 PROVE  FALSE
      BY DEF SoleAuthority
    <2>1. mem[h] = store /\ mem[k] = store
      BY DEF FencingInv, FencedOrExact, Unfenced
    <2>2. Owner(h) /\ Owner(k)
      BY DEF Unfenced, Owner
    <2> QED BY <2>1, <2>2 DEF FencingInv, EpochOwners
  <1> QED BY <1>1, Invariance, PTL

\* A routing epoch, once a Generation is routed under it, is never given to
\* another one, and epochs never go back.
THEOREM RoutingEpochs == Spec => RoutingEpochPinsGeneration
  <1>1. ASSUME FencingInv, [Next]_vars
        PROVE  [/\ store'.routingEpoch >= store.routingEpoch
                /\ store'.routingEpoch = store.routingEpoch
                      => store'.active \in {store.active, None}]_store
    <2>1. store' = store \/ Pinned(store, store')
      BY <1>1, StepInductive DEF Advanced
    <2> QED BY <2>1 DEF Pinned
  <1> QED BY <1>1, Invariance, PTL DEF Spec, RoutingEpochPinsGeneration

-----------------------------------------------------------------------------
(* The records of the durable state                                     *)

Stage(s, g) == StageOf(s.records[g].lifecycle)

\* What may happen to a Generation to which no route is given.
FellBack(s, n, g) ==
    \/ Stage(n, g) = Stage(s, g)
    \/ Stage(n, g) = "unknown"
    \/ Stage(s, g) = "routed" /\ Stage(n, g) = "kept"

\* The three steps of GenerationRouting, from state s to state n.
Withdrew(s, n) ==
    /\ n.active \in {s.active, None}
    /\ n.routingEpoch \in {s.routingEpoch, s.routingEpoch + 1}
    /\ \A g \in Generations : FellBack(s, n, g)

Nominated(s, n, g) ==
    /\ Stage(s, g) = "unknown" /\ Stage(n, g) = "candidate"
    /\ \A k \in Generations \ {g} : Stage(n, k) = Stage(s, k)
    /\ n.active = s.active /\ n.routingEpoch = s.routingEpoch

Switched(s, n, g) ==
    /\ Stage(s, g) \in {"candidate", "kept"} /\ Stage(n, g) = "routed"
    /\ \A k \in Generations \ {g} : FellBack(s, n, k)
    /\ n.active = g /\ n.routingEpoch = s.routingEpoch + 1

Routes(s, n) ==
    \/ Withdrew(s, n)
    \/ \E g \in Generations : Nominated(s, n, g) \/ Switched(s, n, g)

\* n is a state that may replace s.
Proper(s, n) == n \in ControlStates /\ Sane(n) /\ Routes(s, n)

-----------------------------------------------------------------------------
(* Stages and records                                                       *)

\* The stage of a lifecycle, the other way round.
LEMMA Stages ==
  ASSUME NEW l \in Lifecycles
  PROVE  /\ StageOf(l) = "unknown" <=> l \in {"Absent", "Retired"}
         /\ StageOf(l) = "candidate" <=> l \in {"Staged", "Ready"}
         /\ StageOf(l) = "routed" <=> l = "Active"
         /\ StageOf(l) = "kept" <=> l \in Retained
         /\ StageOf(l) \in {"unknown", "candidate", "routed", "kept"}
         /\ l \in LiveLifecycles <=> l \in {"Staged", "Ready", "Active"} \union Retained
  BY DEF StageOf, Lifecycles, Retained, LiveLifecycles

\* The fields of a record have their types.
LEMMA RecordParts ==
  ASSUME NEW s \in ControlStates
  PROVE  /\ s.active \in Generations \union {None} /\ s.routingEpoch \in Nat
         /\ \A g \in Generations :
               /\ s.records[g].lifecycle \in Lifecycles
               /\ s.records[g].health \in Healths
               /\ s.records[g].transition \in Edges \union {None}
               /\ s.records[g].drainDeadline \in Nat \union {None}
               /\ s.records[g].rollbackDeadline \in Nat \union {None}
  <1>1. ASSUME NEW r \in Records
        PROVE  /\ r.lifecycle \in Lifecycles /\ r.health \in Healths
               /\ r.transition \in Edges \union {None}
               /\ r.drainDeadline \in Nat \union {None}
               /\ r.rollbackDeadline \in Nat \union {None}
    BY Zenon DEF Records
  <1> QED BY <1>1, RecordType DEF ControlStates

\* The stages of a state are those of GenerationRouting.
LEMMA StagesOf ==
  ASSUME NEW s \in ControlStates, NEW g \in Generations
  PROVE  /\ Stage(s, g) = "unknown" <=> s.records[g].lifecycle \in {"Absent", "Retired"}
         /\ Stage(s, g) = "candidate" <=> s.records[g].lifecycle \in {"Staged", "Ready"}
         /\ Stage(s, g) = "routed" <=> s.records[g].lifecycle = "Active"
         /\ Stage(s, g) = "kept" <=> s.records[g].lifecycle \in Retained
         /\ Stage(s, g) \in {"unknown", "candidate", "routed", "kept"}
  BY Stages, RecordParts DEF Stage

\* The route names the one Active record: for each Generation.
LEMMA ClosedMeans ==
  ASSUME NEW s \in ControlStates
  PROVE  Closed(s) <=> \A g \in Generations : s.records[g].lifecycle = "Active" <=> s.active = g
  <1>1. s.active \in Generations \union {None}
    BY RecordParts
  <1> QED BY <1>1, NoneAssumption DEF Closed

\* A record that goes on in another lifecycle still makes sense.
LEMMA BecomesSensible ==
  ASSUME NEW g, NEW q, NEW r, NEW l, Sensible(g, q), Becomes(q, r, l),
         q.lifecycle \in LiveLifecycles, l = "Standby" => r.rollbackDeadline # None
  PROVE  Sensible(g, r)
  BY NoneAssumption DEF Sensible, Becomes

\* What is not live makes sense.
LEMMA GoneSensible ==
  ASSUME NEW g, NEW r, r.lifecycle \in {"Absent", "Retired"}
  PROVE  Sensible(g, r)
  BY DEF Sensible, LiveLifecycles

\* An update of two records keeps a state sane when it keeps those two so and
\* moves the route with them.
LEMMA SaneUpdate ==
  ASSUME NEW s \in ControlStates, Sane(s), NEW n \in ControlStates,
         NEW g \in Generations, NEW k \in Generations, SameBut(s, n, g, k),
         Sensible(g, n.records[g]), Sensible(k, n.records[k]),
         n.records[g].lifecycle = "Active" <=> n.active = g,
         n.records[k].lifecycle = "Active" <=> n.active = k,
         \A x \in Generations \ {g, k} : n.active = x <=> s.active = x
  PROVE  Sane(n)
  <1>1. \A x \in Generations : Sensible(x, n.records[x])
    BY DEF Sane, SameBut
  <1>2. \A x \in Generations : n.records[x].lifecycle = "Active" <=> n.active = x
    BY ClosedMeans DEF Sane, SameBut
  <1> QED BY <1>1, <1>2, ClosedMeans DEF Sane

\* ... and is a withdrawal when those two fall back.
LEMMA WithdrewUpdate ==
  ASSUME NEW s, NEW n, NEW g, NEW k, SameBut(s, n, g, k),
         FellBack(s, n, g), FellBack(s, n, k),
         n.active \in {s.active, None},
         n.routingEpoch \in {s.routingEpoch, s.routingEpoch + 1}
  PROVE  Routes(s, n)
  BY DEF Routes, Withdrew, SameBut, FellBack, Stage

\* An update of one record in its lifecycle, or of none at all.
LEMMA KeptLifecycle ==
  ASSUME NEW s \in ControlStates, Sane(s), NEW n \in ControlStates, NEW g \in Generations,
         SameBut(s, n, g, g), SameRoute(s, n), Sensible(g, n.records[g]),
         n.records[g].lifecycle = s.records[g].lifecycle
  PROVE  Proper(s, n)
  <1>1. Sane(n)
    <2>1. n.records[g].lifecycle = "Active" <=> n.active = g
      BY ClosedMeans DEF SameRoute, Sane
    <2> QED BY <2>1, SaneUpdate DEF SameRoute
  <1>2. FellBack(s, n, g)
    BY DEF FellBack, Stage
  <1>3. n.active \in {s.active, None} /\ n.routingEpoch \in {s.routingEpoch, s.routingEpoch + 1}
    BY DEF SameRoute
  <1> QED BY <1>1, <1>2, <1>3, WithdrewUpdate DEF Proper

\* The records stay, and so does the route or who pinned it is told.
LEMMA KeptRecords ==
  ASSUME NEW s \in ControlStates, Sane(s), NEW n \in ControlStates,
         n.records = s.records, n.active = s.active,
         n.routingEpoch \in {s.routingEpoch, s.routingEpoch + 1}
  PROVE  Proper(s, n)
  <1>1. Sane(n)
    BY DEF Sane, Closed
  <1> QED BY <1>1 DEF Proper, Routes, Withdrew, FellBack, Stage

\* One unrouted record falls back.
LEMMA OneFallsBack ==
  ASSUME NEW s \in ControlStates, Sane(s), NEW n \in ControlStates, NEW g \in Generations,
         SameBut(s, n, g, g), SameRoute(s, n), Sensible(g, n.records[g]), FellBack(s, n, g),
         s.records[g].lifecycle # "Active", n.records[g].lifecycle # "Active"
  PROVE  Proper(s, n)
  <1>1. s.active # g /\ n.active = s.active
    BY ClosedMeans DEF SameRoute, Sane
  <1>2. Sane(n)
    BY <1>1, SaneUpdate
  <1>3. n.routingEpoch \in {s.routingEpoch, s.routingEpoch + 1}
    BY DEF SameRoute
  <1> QED BY <1>1, <1>2, <1>3, WithdrewUpdate DEF Proper

-----------------------------------------------------------------------------
(* Every update is proper for the states it is applied to                   *)

\* A candidate's runtime is ready, or its staging is given up.
LEMMA CandidateProper ==
  ASSUME NEW s \in ControlStates, Sane(s), NEW g \in Generations,
         s.records[g].lifecycle = "Staged", NEW n,
         n = MarkReady(s, g) \/ n = FailCandidate(s, g)
  PROVE  Proper(s, n)
  <1>1. Sensible(g, s.records[g])
    BY DEF Sane
  <1>2. CASE n = MarkReady(s, g)
    <2>1. /\ SameBut(s, n, g, g) /\ SameRoute(s, n) /\ n \in ControlStates
          /\ Becomes(s.records[g], n.records[g], "Ready")
      BY <1>2, MarkReadyChanges
    <2>2. Sensible(g, n.records[g])
      BY <1>1, <2>1, BecomesSensible DEF LiveLifecycles
    <2>3. FellBack(s, n, g) /\ n.records[g].lifecycle = "Ready"
      BY <2>1, StagesOf DEF Becomes, FellBack
    <2> QED BY <2>1, <2>2, <2>3, OneFallsBack
  <1>3. CASE n = FailCandidate(s, g)
    <2>1. /\ SameBut(s, n, g, g) /\ SameRoute(s, n) /\ n \in ControlStates
          /\ n.records[g].lifecycle = "Retired"
      BY <1>3, FailCandidateChanges
    <2>2. FellBack(s, n, g)
      BY <2>1, StagesOf DEF FellBack
    <2> QED BY <2>1, <2>2, GoneSensible, OneFallsBack
  <1> QED BY <1>2, <1>3

\* A failure is recorded of a Generation, whatever becomes of it.
LEMMA MarkFailedProper ==
  ASSUME NEW s \in ControlStates, Sane(s), NEW g \in Generations, NEW n, n = MarkFailed(s, g)
  PROVE  Proper(s, n)
  <1>1. /\ SameBut(s, n, g, g) /\ SameRoute(s, n) /\ n \in ControlStates
        /\ n.records[g].lifecycle = s.records[g].lifecycle
        /\ n.records[g].transition = s.records[g].transition
        /\ n.records[g].drainDeadline = s.records[g].drainDeadline
        /\ n.records[g].rollbackDeadline = s.records[g].rollbackDeadline
    BY MarkFailedChanges
  <1>2. Sensible(g, n.records[g])
    BY <1>1 DEF Sane, Sensible
  <1> QED BY <1>1, <1>2, KeptLifecycle

\* A drained predecessor whose window is open becomes a standby.
LEMMA ToStandbyProper ==
  ASSUME NEW s \in ControlStates, Sane(s), NEW g \in Generations,
         s.records[g].lifecycle = "Draining", s.records[g].rollbackDeadline # None,
         NEW n, n = ToStandby(s, g)
  PROVE  Proper(s, n)
  <1>1. /\ SameBut(s, n, g, g) /\ SameRoute(s, n) /\ n \in ControlStates
        /\ Becomes(s.records[g], n.records[g], "Standby")
        /\ n.records[g].rollbackDeadline = s.records[g].rollbackDeadline
    BY ToStandbyChanges
  <1>2. Sensible(g, n.records[g])
    BY <1>1, BecomesSensible DEF Sane, LiveLifecycles
  <1>3. FellBack(s, n, g) /\ n.records[g].lifecycle = "Standby"
    BY <1>1, StagesOf DEF Becomes, FellBack, Retained
  <1> QED BY <1>1, <1>2, <1>3, OneFallsBack

\* A retained predecessor is retired.
LEMMA RetireProper ==
  ASSUME NEW s \in ControlStates, Sane(s), NEW g \in Generations,
         s.records[g].lifecycle \in Retained,
         NEW reason \in Reasons \union {None}, NEW ok, NEW n, n = Retire(s, g, reason, ok)
  PROVE  Proper(s, n)
  <1>1. /\ SameBut(s, n, g, g) /\ SameRoute(s, n) /\ n \in ControlStates
        /\ n.records[g].lifecycle = "Retired"
    BY RetireChanges
  <1>2. FellBack(s, n, g)
    BY <1>1, StagesOf DEF FellBack
  <1>3. s.records[g].lifecycle # "Active"
    BY DEF Retained
  <1> QED BY <1>1, <1>2, <1>3, GoneSensible, OneFallsBack

\* A new candidate is nominated.
LEMMA StageCandidateProper ==
  ASSUME NEW s \in ControlStates, Sane(s), NEW e \in Edges, NEW t \in Nat,
         NewCandidate(s, e.to), NEW n, n = StageCandidate(s, e, t)
  PROVE  Proper(s, n)
  <1>1. e.to \in Generations
    BY DEF Edges
  <1>2. /\ SameBut(s, n, e.to, e.to) /\ SameRoute(s, n) /\ n \in ControlStates
        /\ n.records[e.to].lifecycle = "Staged"
        /\ n.records[e.to].transition = e
    BY StageCandidateChanges
  <1>3. Sensible(e.to, n.records[e.to])
    BY <1>2 DEF Sensible
  <1>4. s.active # e.to
    BY <1>1, ClosedMeans DEF NewCandidate, Sane
  <1>5. Sane(n)
    BY <1>1, <1>2, <1>3, <1>4, SaneUpdate DEF SameRoute
  <1>6. Nominated(s, n, e.to)
    <2>1. Stage(s, e.to) = "unknown" /\ Stage(n, e.to) = "candidate"
      BY <1>1, <1>2, StagesOf DEF NewCandidate
    <2> QED BY <1>2, <2>1 DEF Nominated, SameBut, SameRoute, Stage
  <1> QED BY <1>1, <1>2, <1>5, <1>6 DEF Proper, Routes

\* The predecessor of a maintenance edge gives up the route.
LEMMA StopForMaintenanceProper ==
  ASSUME NEW s \in ControlStates, Sane(s), NEW e \in Edges, e.from \in Generations,
         s.active = e.from, s.records[e.to].lifecycle = "Staged", NEW ok,
         NEW n, n = StopForMaintenance(s, e, ok)
  PROVE  Proper(s, n)
  <1>1. e.to \in Generations /\ s.records[e.from].lifecycle = "Active" /\ e.to # e.from
    BY ClosedMeans DEF Edges, Sane
  <1>2. /\ SameBut(s, n, e.from, e.to) /\ n \in ControlStates
        /\ n.active = None /\ n.routingEpoch = s.routingEpoch
        /\ n.records[e.from].lifecycle = "Retired"
        /\ n.records[e.to] = s.records[e.to] \/ n.records[e.to].lifecycle = "Retired"
    <2>1. Stopped(s, n, e, ok)
      BY <1>1, StopForMaintenanceChanges
    <2> QED BY <2>1 DEF Stopped
  <1>3. Sensible(e.from, n.records[e.from]) /\ Sensible(e.to, n.records[e.to])
    BY <1>1, <1>2, GoneSensible DEF Sane
  <1>4. /\ n.records[e.to].lifecycle # "Active"
        /\ \A x \in Generations \ {e.from, e.to} : n.active = x <=> s.active = x
        /\ n.active # e.from /\ n.active # e.to
    BY <1>1, <1>2, NoneAssumption
  <1>5. Sane(n)
    BY <1>1, <1>2, <1>3, <1>4, SaneUpdate
  <1>6. FellBack(s, n, e.from) /\ FellBack(s, n, e.to)
    BY <1>1, <1>2, StagesOf DEF FellBack, Stage
  <1> QED BY <1>2, <1>5, <1>6, WithdrewUpdate DEF Proper

\* A retained predecessor or a Ready candidate g takes the route; the one that
\* had it, k, is kept.
LEMMA RouteTaken ==
  ASSUME NEW s \in ControlStates, Sane(s), NEW n \in ControlStates,
         NEW g \in Generations, NEW k \in Generations,
         SameBut(s, n, g, k), Reroutes(s, n, g),
         s.records[g].lifecycle \in {"Ready"} \union Retained,
         n.records[g].lifecycle = "Active", Sensible(g, n.records[g]),
         IF s.active = None THEN k = g
         ELSE k = s.active /\ n.records[k].lifecycle = "Draining" /\ Sensible(k, n.records[k])
  PROVE  Proper(s, n)
  <1>1. Stage(s, g) \in {"candidate", "kept"} /\ Stage(n, g) = "routed"
    BY StagesOf
  <1>2. n.active = g /\ s.active # g
    BY ClosedMeans DEF Reroutes, Sane, Retained
  <1>3. k # g => FellBack(s, n, k)
    <2>1. k # g => Stage(n, k) = "kept" /\ Stage(s, k) = "routed"
      BY ClosedMeans, StagesOf DEF Sane, Retained
    <2> QED BY <2>1 DEF FellBack
  <1>4. Switched(s, n, g)
    BY <1>1, <1>3 DEF Switched, Reroutes, SameBut, FellBack, Stage
  <1>5. Sane(n)
    BY <1>2, SaneUpdate, NoneAssumption
  <1> QED BY <1>4, <1>5 DEF Proper, Routes

\* The route switch of a transition.
LEMMA SwitchProper ==
  ASSUME NEW s \in ControlStates, Sane(s), NEW e \in Edges, NEW t \in Nat,
         s.records[e.to].lifecycle = "Ready",
         s.active = IF e.mode = "Overlap" THEN e.from ELSE None,
         s.active = None <=> e.mode # "Overlap",
         NEW n, n = Switch(s, e, t)
  PROVE  Proper(s, n)
  <1> DEFINE k == IF e.mode = "Overlap" THEN e.from ELSE e.to
  <1>1. /\ e.to \in Generations /\ k \in Generations
        /\ s.active # e.to
        /\ e.mode = "Overlap" => e.from \in Generations /\ e.from # e.to
    BY ClosedMeans DEF Edges, Sane
  <1>2. /\ SameBut(s, n, e.to, k)
        /\ Reroutes(s, n, e.to) /\ n \in ControlStates
        /\ Becomes(s.records[e.to], n.records[e.to], "Active")
        /\ e.mode = "Overlap" =>
              /\ n.records[e.from].lifecycle = "Draining"
              /\ n.records[e.from].transition = e
              /\ n.records[e.from].drainDeadline \in Nat
    <2>1. e.mode = "Overlap" => e.from \in Generations /\ e.from # e.to
      BY <1>1
    <2>2. SwitchedAlong(s, n, e)
      BY <2>1, SwitchChanges
    <2> QED BY <2>2 DEF SwitchedAlong
  <1>3. Sensible(e.to, n.records[e.to])
    BY <1>1, <1>2, BecomesSensible DEF Sane, LiveLifecycles
  <1>4. e.mode = "Overlap" => Sensible(e.from, n.records[e.from])
    BY <1>1, <1>2, NoneAssumption DEF Sensible
  <1>5. n.records[e.to].lifecycle = "Active"
    BY <1>2 DEF Becomes
  <1>6. IF s.active = None THEN k = e.to
        ELSE k = s.active /\ n.records[k].lifecycle = "Draining" /\ Sensible(k, n.records[k])
    BY <1>2, <1>4
  <1> HIDE DEF k
  <1> QED BY <1>1, <1>2, <1>3, <1>5, <1>6, RouteTaken

\* A rollback, and the fallback of a failed Generation.
LEMMA RollProper ==
  ASSUME NEW s \in ControlStates, Sane(s), NEW g \in Generations, NEW t \in Nat,
         NEW u, RollbackTarget(s, g, u), NEW n, n = Roll(s, g, t)
  PROVE  Proper(s, n)
  <1> DEFINE a == s.active
  <1>1. /\ a \in Generations /\ s.records[a].lifecycle = "Active"
        /\ s.records[g].lifecycle \in Retained /\ g # a /\ a # None
    BY RecordParts, ClosedMeans DEF RollbackTarget, Sane, Retained
  <1>2. /\ SameBut(s, n, g, a) /\ Reroutes(s, n, g) /\ n \in ControlStates
        /\ Becomes(s.records[g], n.records[g], "Active")
        /\ Becomes(s.records[a], n.records[a], "Draining")
    BY <1>1, RollChanges
  <1>3. Sensible(g, n.records[g]) /\ Sensible(a, n.records[a])
    BY <1>1, <1>2, BecomesSensible DEF Sane, LiveLifecycles, Retained
  <1>4. n.records[g].lifecycle = "Active" /\ n.records[a].lifecycle = "Draining"
    BY <1>2 DEF Becomes
  <1> QED BY <1>1, <1>2, <1>3, <1>4, RouteTaken

\* A failed Generation without a fallback loses the route.
LEMMA FenceActiveProper ==
  ASSUME NEW s \in ControlStates, Sane(s), s.active # None, NEW t \in Nat,
         NEW n, n = FenceActive(s, t)
  PROVE  Proper(s, n)
  <1> DEFINE a == s.active
  <1>1. a \in Generations /\ s.records[a].lifecycle = "Active"
    BY RecordParts, ClosedMeans DEF Sane
  <1>2. /\ SameBut(s, n, a, a) /\ Reroutes(s, n, None) /\ n \in ControlStates
        /\ Becomes(s.records[a], n.records[a], "Draining")
    BY <1>1, FenceActiveChanges
  <1>3. Sensible(a, n.records[a]) /\ n.records[a].lifecycle = "Draining"
    BY <1>1, <1>2, BecomesSensible DEF Sane, LiveLifecycles, Becomes
  <1>4. Sane(n)
    BY <1>1, <1>2, <1>3, SaneUpdate, NoneAssumption DEF Reroutes
  <1>5. FellBack(s, n, a)
    BY <1>1, <1>2, <1>3, StagesOf DEF FellBack, Retained
  <1> QED BY <1>2, <1>4, <1>5, WithdrewUpdate DEF Proper, Reroutes

\* begin_shutdown: what was routed or kept drains.
LEMMA BeginShutdownProper ==
  ASSUME NEW s \in ControlStates, Sane(s), NEW t \in Nat, NEW n, n = BeginShutdown(s, t)
  PROVE  Proper(s, n)
  <1>1. /\ Withdraws(s, n) /\ n \in ControlStates
        /\ \A g \in Generations :
              IF s.records[g].lifecycle \in {"Active", "Draining", "Standby"}
              THEN Becomes(s.records[g], n.records[g], "Draining")
              ELSE n.records[g] = s.records[g]
    BY BeginShutdownChanges
  <1>2. ASSUME NEW g \in Generations
        PROVE  /\ Sensible(g, n.records[g]) /\ n.records[g].lifecycle # "Active"
               /\ FellBack(s, n, g)
    <2>1. CASE s.records[g].lifecycle \in {"Active", "Draining", "Standby"}
      <3>1. Becomes(s.records[g], n.records[g], "Draining")
        BY <1>1, <2>1
      <3>2. Sensible(g, n.records[g]) /\ n.records[g].lifecycle = "Draining"
        BY <2>1, <3>1, BecomesSensible DEF Sane, LiveLifecycles, Becomes
      <3> QED BY <1>1, <2>1, <3>2, StagesOf DEF FellBack, Retained
    <2>2. CASE s.records[g].lifecycle \notin {"Active", "Draining", "Standby"}
      BY <1>1, <2>2 DEF Sane, FellBack, Stage
    <2> QED BY <2>1, <2>2
  <1>3. Sane(n)
    BY <1>1, <1>2, ClosedMeans, NoneAssumption DEF Sane, Withdraws
  <1> QED BY <1>1, <1>2, <1>3 DEF Proper, Routes, Withdrew, Withdraws

\* replace_suspended_host retires what was left live.
LEMMA ReplaceSuspendedProper ==
  ASSUME NEW s \in ControlStates, Sane(s), NEW n, n = ReplaceSuspended(s)
  PROVE  Proper(s, n)
  <1>1. /\ Withdraws(s, n) /\ n \in ControlStates
        /\ \A g \in Generations :
              IF g \in Live(s) THEN n.records[g].lifecycle = "Retired"
                               ELSE n.records[g] = s.records[g]
    BY ReplaceSuspendedChanges
  <1>2. ASSUME NEW g \in Generations
        PROVE  /\ Sensible(g, n.records[g]) /\ n.records[g].lifecycle # "Active"
               /\ FellBack(s, n, g)
    <2>1. CASE g \in Live(s)
      BY <1>1, <2>1, GoneSensible, StagesOf DEF FellBack
    <2>2. CASE g \notin Live(s)
      BY <1>1, <2>2 DEF Sane, FellBack, Stage, Live, LiveLifecycles
    <2> QED BY <2>1, <2>2
  <1>3. Sane(n)
    BY <1>1, <1>2, ClosedMeans, NoneAssumption DEF Sane, Withdraws
  <1> QED BY <1>1, <1>2, <1>3 DEF Proper, Routes, Withdrew, Withdraws

\* A new Supervisor, the fence of a recovery and a suspension keep the records.
LEMMA FlagsProper ==
  ASSUME NEW s \in ControlStates, Sane(s), NEW n,
         \/ n = OpenState(s) \/ n = FenceForRecovery(s)
         \/ n = [s EXCEPT !.suspended = TRUE]
  PROVE  Proper(s, n)
  <1>1. CASE n = OpenState(s)
    BY <1>1, OpenStateChanges, KeptRecords
  <1>2. CASE n = FenceForRecovery(s)
    BY <1>2, FenceForRecoveryChanges, KeptRecords
  <1>3. CASE n = [s EXCEPT !.suspended = TRUE]
    <2>1. n \in ControlStates
      BY <1>3, FlagsFollow DEF Follows
    <2>2. /\ n.records = s.records /\ n.active = s.active
          /\ n.routingEpoch = s.routingEpoch
      BY <1>3, Zenon DEF ControlStates
    <2> QED BY <2>1, <2>2, KeptRecords
  <1> QED BY <1>1, <1>2, <1>3

\* The plan p of a recovery that restaged what it could.
Planned(s, p) ==
    /\ p \in ControlStates /\ Closed(p)
    /\ p.active \in {s.active, None} /\ p.routingEpoch = s.routingEpoch
    /\ \A g \in Generations : \/ p.records[g] = s.records[g]
                              \/ p.records[g].lifecycle = "Retired"

\* A finished plan falls back from the state that was fenced.
LEMMA PlanProper ==
  ASSUME NEW s \in ControlStates, Sane(s), NEW p, Planned(s, p)
  PROVE  Proper(s, p)
  <1>1. ASSUME NEW g \in Generations
        PROVE  Sensible(g, p.records[g]) /\ FellBack(s, p, g)
    BY GoneSensible, StagesOf DEF Planned, Sane, FellBack, Stage
  <1> QED BY <1>1 DEF Planned, Proper, Sane, Routes, Withdrew

\* A standby that was restaged takes over from an active that was not.
LEMMA PromoteProper ==
  ASSUME NEW s \in ControlStates, Sane(s), NEW p, Planned(s, p), p.active = None,
         NEW g \in Generations, p.records[g].lifecycle = "Standby",
         NEW n, n = Promote(p, g)
  PROVE  Proper(s, n)
  <1>1. p \in ControlStates /\ Sane(p) /\ p.records[g] = s.records[g]
    BY PlanProper DEF Planned, Proper
  <1>2. /\ SameBut(p, n, g, g) /\ Reroutes(p, n, g) /\ n \in ControlStates
        /\ Becomes(p.records[g], n.records[g], "Active")
    BY <1>1, PromoteChanges
  <1>3. Sensible(g, n.records[g]) /\ n.records[g].lifecycle = "Active"
    BY <1>1, <1>2, BecomesSensible DEF Sane, LiveLifecycles, Becomes
  <1>4. Sane(n)
    BY <1>1, <1>2, <1>3, SaneUpdate, NoneAssumption DEF Reroutes
  <1>5. Stage(s, g) = "kept" /\ Stage(n, g) = "routed"
    BY <1>1, <1>2, <1>3, StagesOf DEF Retained
  <1>6. ASSUME NEW k \in Generations \ {g} PROVE FellBack(s, n, k)
    <2>1. n.records[k] = s.records[k] \/ n.records[k].lifecycle = "Retired"
      BY <1>2 DEF SameBut, Planned
    <2> QED BY <1>2, <2>1, StagesOf DEF FellBack, Stage
  <1>7. Switched(s, n, g)
    BY <1>2, <1>5, <1>6 DEF Switched, Reroutes, Planned
  <1> QED BY <1>2, <1>4, <1>7 DEF Proper, Routes

-----------------------------------------------------------------------------
(* What a step writes, and whom it concerns                                 *)

\* n reads as s does, but for its revision and its Supervisor.
Alike(s, n) ==
    /\ n.records = s.records /\ n.active = s.active
    /\ n.routingEpoch = s.routingEpoch /\ n.suspended = s.suspended

\* The revision the store stamps on a state is all it changes.
LEMMA StampedAlike ==
  ASSUME NEW h, NEW next \in ControlStates, NEW n, n = Stamped(h, next)
  PROVE  Alike(next, n)
  <1> DEFINE r == mem[h].revision + 1
  <1>1. n = [next EXCEPT !.revision = r]
    BY DEF Stamped
  <1> HIDE DEF r
  <1> QED BY <1>1, Zenon DEF ControlStates, Alike

\* What fits a state fits one that reads alike.
LEMMA AlikeProper ==
  ASSUME NEW s, NEW n, NEW m \in ControlStates, Proper(s, n), Alike(n, m)
  PROVE  Proper(s, m)
  BY DEF Proper, Alike, Sane, Closed, Routes, Withdrew, Nominated, Switched, FellBack, Stage

\* h replaced the state it had read by a proper update of it.
Updated(h) == mem[h] = store /\ Proper(store, store')

Wrote(h) == store' = store \/ Updated(h)

\* A write of a proper update.
LEMMA WriteUpdates ==
  ASSUME FencingInv, NEW h \in Hosts, NEW next, Proper(mem[h], next),
         Accepted(h, next), store' = Stamped(h, next)
  PROVE  Updated(h) /\ Alike(next, store')
  <1>1. mem[h] = store
    BY DEF Accepted, FencingInv, FencedOrExact
  <1>2. next \in ControlStates
    BY DEF Proper
  <1>3. store' \in ControlStates /\ Alike(next, store')
    BY <1>2, StampedType, StampedAlike DEF FencingInv
  <1> QED BY <1>1, <1>3, AlikeProper DEF Updated

\* A commit of one: the author remembers what it wrote.
LEMMA CommitUpdates ==
  ASSUME FencingInv, NEW h \in Hosts, NEW next, Proper(mem[h], next), Commit(h, next)
  PROVE  /\ Updated(h) /\ Alike(next, store')
         /\ mem'[h] = store'
  <1>1. mem \in [Hosts -> ControlStates]
    BY DEF FencingInv, TypeOK
  <1> QED BY <1>1, WriteUpdates DEF Commit, Write, Adopt

\* A commit of one that fails, for its author.
LEMMA FailureUpdates ==
  ASSUME FencingInv, NEW h \in Hosts, NEW next, Proper(mem[h], next),
         CommitFails(h, next) \/ Write(h, next)
  PROVE  Wrote(h)
  <1>1. store' = store \/ (Accepted(h, next) /\ store' = Stamped(h, next))
    BY DEF CommitFails, Refused, IoError, Write
  <1> QED BY <1>1, WriteUpdates DEF Wrote

\* An operation that is not in the middle of anything.
Free(o) == o.at \in {"idle", "opening", "replacing", "fencing",
                     "suspending", "draining", "bounded"}

\* Such an operation fits every state.
LEMMA FreeFits ==
  ASSUME NEW o, Free(o), NEW s, NEW p
  PROVE  TransitionFits(o, s) /\ PassFits(o, s) /\ PlanFits(o, s, p)
  BY DEF Free, TransitionFits, PassFits, PlanFits

\* An operation that is at most in the middle of a pass.
LEMMA PassOnly ==
  ASSUME NEW o, Plain(o), o.at # "unstaged", NEW s, PassFits(o, s), NEW p
  PROVE  TransitionFits(o, s) /\ PassFits(o, s) /\ PlanFits(o, s, p)
  BY StepNames DEF Plain, TransitionFits, PlanFits

\* What every step of h is shown to do to the records.
Sensibly(h) == Wrote(h) /\ Fits(h)'

\* A sound and sensible step preserves the invariant of the records.
LEMMA SensiblyPreserves ==
  ASSUME FencingInv, RecordsInv, NEW h \in Hosts, Sound(h), Sensibly(h)
  PROVE  RecordsInv'
  <1>1. Sane(store')
    BY DEF RecordsInv, Sensibly, Wrote, Updated, Proper
  <1>2. Sane(InitialState)
    BY NoneAssumption DEF Sane, Closed, Sensible, InitialState, NoRecord, LiveLifecycles
  <1>3. mem'[h] \in {mem[h], InitialState, store'} /\ Others(h)
    BY DEF Sound, HostStep
  <1>4. ASSUME NEW k \in Hosts PROVE Sane(mem'[k]) /\ Fits(k)'
    <2>1. CASE k = h
      BY <1>1, <1>2, <1>3, <2>1 DEF RecordsInv, Sensibly
    <2>2. CASE k # h
      <3>1. mem'[k] = mem[k] /\ plan'[k] = plan[k] /\ op'[k] = op[k]
        BY <1>3, <2>2 DEF Others
      <3> QED BY <3>1 DEF RecordsInv, Fits
    <2> QED BY <2>1, <2>2
  <1> QED BY <1>1, <1>4 DEF RecordsInv

\* What holds of Host h before any of its steps.
LEMMA HostRecords ==
  ASSUME FencingInv, RecordsInv, NEW h \in Hosts
  PROVE  /\ mem[h] \in ControlStates /\ Sane(mem[h])
         /\ TransitionFits(op[h], mem[h]) /\ PassFits(op[h], mem[h])
         /\ PlanFits(op[h], mem[h], plan[h])
         /\ op[h] \in Operations /\ op[h].time \in Nat /\ now \in Nat
         /\ op[h].edge \in Edges \union {None} /\ op[h].gen \in Generations \union {None}
         /\ op[h].reason \in Reasons \union {None} /\ op[h].todo \in SUBSET Generations
         /\ op[h].after \in {"inactive", "candidates"}
         /\ StatesOK /\ OpsOK
  <1>1. op[h] \in Operations
    BY HostTypes
  <1>2. /\ op[h].edge \in Edges \union {None} /\ op[h].gen \in Generations \union {None}
        /\ op[h].reason \in Reasons \union {None} /\ op[h].todo \in SUBSET Generations
        /\ op[h].after \in {"inactive", "candidates"}
    BY <1>1 DEF Operations
  <1> QED BY <1>1, <1>2, HostTypes DEF RecordsInv, Fits

\* A Host that stops has nothing left to fit.
LEMMA LeaveFits ==
  ASSUME FencingInv, NEW h \in Hosts, NEW how, Leave(h, how)
  PROVE  Fits(h)'
  <1>1. op'[h] = Idle
    BY HostTypes DEF Leave, Goto, OpsOK
  <1>2. Free(Idle)
    BY DEF Free, Idle
  <1> QED BY <1>1, <1>2, FreeFits DEF Fits

\* An operation that goes on with o.
LEMMA GotoFits ==
  ASSUME FencingInv, NEW h \in Hosts, NEW o, Goto(h, o),
         TransitionFits(o, mem'[h]), PassFits(o, mem'[h]), PlanFits(o, mem'[h], plan'[h])
  PROVE  Fits(h)'
  <1>1. op'[h] = o
    BY HostTypes DEF Goto, OpsOK
  <1> QED BY <1>1 DEF Fits

\* ... and o is free.
LEMMA GotoFree ==
  ASSUME FencingInv, NEW h \in Hosts, NEW o, Goto(h, o), Free(o)
  PROVE  Fits(h)'
  BY GotoFits, FreeFits

\* Idle is free.
LEMMA IdleFree == Free(Idle)
  BY DEF Free, Idle

\* A commit that its author survives, or that ends its operation or the Host.
LEMMA CommitSensible ==
  ASSUME FencingInv, NEW h \in Hosts, NEW next, Proper(mem[h], next),
         \/ Commit(h, next) /\ Fits(h)'
         \/ CommitFails(h, next) /\ Reply(h)
         \/ (CommitFails(h, next) \/ Write(h, next)) /\ Exit(h)
  PROVE  Sensibly(h)
  <1>1. CASE Commit(h, next) /\ Fits(h)'
    BY <1>1, CommitUpdates DEF Sensibly, Wrote
  <1>2. CASE CommitFails(h, next) /\ Reply(h)
    BY <1>2, FailureUpdates, GotoFree, IdleFree DEF Sensibly, Reply
  <1>3. CASE (CommitFails(h, next) \/ Write(h, next)) /\ Exit(h)
    BY <1>3, FailureUpdates, LeaveFits DEF Sensibly, Exit
  <1> QED BY <1>1, <1>2, <1>3

\* What a commit leaves behind reads like the update.
LEMMA Committed ==
  ASSUME FencingInv, NEW h \in Hosts, NEW next, Proper(mem[h], next), Commit(h, next)
  PROVE  /\ mem'[h].records = next.records /\ mem'[h].active = next.active
         /\ next \in ControlStates
  BY CommitUpdates DEF Alike, Proper

-----------------------------------------------------------------------------
(* Starting a Host                                                          *)

\* A step that writes nothing and goes on with a free operation.
LEMMA FreeSensible ==
  ASSUME FencingInv, NEW h \in Hosts, store' = store, NEW o, Goto(h, o), Free(o)
  PROVE  Sensibly(h)
  BY GotoFree DEF Sensibly, Wrote

\* A step that writes nothing and with which the Host stops.
LEMMA LeaveSensible ==
  ASSUME FencingInv, NEW h \in Hosts, store' = store, NEW how, Leave(h, how)
  PROVE  Sensibly(h)
  BY LeaveFits DEF Sensibly, Wrote

\* load begins a start.
LEMMA LoadSensible ==
  ASSUME FencingInv, RecordsInv, NEW h \in Hosts,
         NEW step \in {"opening", "replacing", "fencing"}, Load(h, step)
  PROVE  Sensibly(h)
  <1> DEFINE o == [Idle EXCEPT !.at = step, !.time = now]
  <1>1. o.at = step
    BY DEF Idle
  <1>2. Goto(h, o) /\ store' = store
    BY DEF Load
  <1> HIDE DEF o
  <1>3. Free(o)
    BY <1>1 DEF Free
  <1> QED BY <1>2, <1>3, FreeSensible

\* build and replace_suspended.
LEMMA StartFreshSensible ==
  ASSUME FencingInv, RecordsInv, NEW h \in Hosts, OpenHost(h) \/ ReplaceHost(h)
  PROVE  Sensibly(h)
  <1>1. PICK next : Proper(mem[h], next) /\ StartFresh(h, next)
    <2>1. Proper(mem[h], OpenState(mem[h])) /\ Proper(mem[h], ReplaceSuspended(mem[h]))
      BY HostRecords, FlagsProper, ReplaceSuspendedProper
    <2> QED BY <2>1 DEF OpenHost, ReplaceHost
  <1>2. Serve(h) => Fits(h)'
    BY GotoFree, IdleFree DEF Serve
  <1> QED BY <1>1, <1>2, CommitSensible DEF StartFresh

\* The first commit of recover: the plan is the state it fenced.
LEMMA RecoverFenceSensible ==
  ASSUME FencingInv, RecordsInv, NEW h \in Hosts, RecoverFence(h)
  PROVE  Sensibly(h)
  <1> DEFINE next == FenceForRecovery(mem[h])
             T == Live(next)
             o == [op[h] EXCEPT !.at = "restaging", !.todo = T]
             p == Stamped(h, next)
  <1>1. Proper(mem[h], next) /\ op[h] \in Operations /\ StatesOK
    BY HostRecords, FlagsProper
  <1>2. CASE Commit(h, next) /\ plan' = [plan EXCEPT ![h] = p] /\ Goto(h, o)
    <2>1. o.at = "restaging"
      BY <1>1, Zenon DEF Operations
    <2> HIDE DEF o
    <2>2. plan'[h] = p /\ mem'[h] = p
      BY <1>1, <1>2 DEF StatesOK, Commit, Adopt
    <2>3. Closed(p)
      <3>1. Proper(store, store') /\ store' = p
        BY <1>1, <1>2, CommitUpdates DEF Updated, Commit, Write
      <3> QED BY <3>1 DEF Proper, Sane
    <2> HIDE DEF p
    <2>4. TransitionFits(o, p) /\ PassFits(o, p) /\ PlanFits(o, p, p)
      BY <2>1, <2>3 DEF TransitionFits, PassFits, PlanFits
    <2>5. Fits(h)'
      BY <1>2, <2>2, <2>4, GotoFits
    <2> HIDE DEF next
    <2> QED BY <1>1, <1>2, <2>5, CommitSensible
  <1>3. CASE CommitFails(h, next) /\ Exit(h)
    <2> HIDE DEF next
    <2> QED BY <1>1, <1>3, CommitSensible
  <1> QED BY <1>2, <1>3 DEF RecoverFence

\* What recover may make of its plan for a record that is not routed or, if it
\* is, did not restage.
GivesUp(p, q, g) ==
    /\ q \in ControlStates /\ SameBut(p, q, g, g)
    /\ q.records[g].lifecycle = "Retired"
    /\ \/ q.active = p.active /\ p.records[g].lifecycle # "Active"
       \/ q.active = IF p.active = g THEN None ELSE p.active

\* A plan that gives a record up stays closed.
LEMMA GivesUpClosed ==
  ASSUME NEW p \in ControlStates, Closed(p), NEW g \in Generations, NEW q, GivesUp(p, q, g)
  PROVE  Closed(q)
  <1>1. \A x \in Generations \ {g} : q.records[x].lifecycle = "Active" <=> q.active = x
    BY ClosedMeans, NoneAssumption DEF GivesUp, SameBut
  <1>2. q.active # g
    BY ClosedMeans, NoneAssumption DEF GivesUp
  <1> QED BY <1>1, <1>2, ClosedMeans DEF GivesUp

\* recover deals with one record.
LEMMA RecoverRecordSensible ==
  ASSUME FencingInv, RecordsInv, NEW h \in Hosts, NEW g \in Generations, RecoverRecord(h, g)
  PROVE  Sensibly(h)
  <1> DEFINE T == op[h].todo \ {g}
             o == [op[h] EXCEPT !.todo = T]
             p == plan[h]
  <1>1. /\ op[h] \in Operations /\ StatesOK /\ p \in ControlStates
        /\ op[h].at = "restaging" /\ g \in op[h].todo
        /\ store' = store /\ mem' = mem /\ Goto(h, o)
    BY HostRecords DEF RecoverRecord, At, StatesOK
  <1>2. o.at = "restaging" /\ o.todo = T
    BY <1>1, Zenon DEF Operations
  <1>3. /\ Closed(p) /\ p.records[g] = mem[h].records[g]
        /\ \A x \in Generations :
              \/ p.records[x] = mem[h].records[x]
              \/ x \notin op[h].todo /\ p.records[x].lifecycle = "Retired"
    BY <1>1, HostRecords DEF PlanFits
  <1>4. plan'[h] = p \/ GivesUp(p, plan'[h], g)
    <2>1. ASSUME NEW q, NEW reason \in Reasons, q = Abandon(p, g, reason),
                 mem[h].records[g].lifecycle # "Active"
          PROVE  GivesUp(p, q, g)
      BY <1>1, <1>3, <2>1, AbandonChanges DEF GivesUp, SameRoute
    <2>2. ASSUME NEW q, q = Unstaged(p, g) PROVE GivesUp(p, q, g)
      BY <1>1, <2>2, UnstagedChanges DEF GivesUp
    <2>3. \/ plan' = plan
          \/ /\ plan' = [plan EXCEPT ![h] = Abandon(p, g, "RecoveryCleanup")]
             /\ mem[h].records[g].lifecycle # "Active"
          \/ /\ plan' = [plan EXCEPT ![h] = Abandon(p, g, "RollbackWindowExpired")]
             /\ mem[h].records[g].lifecycle # "Active"
          \/ plan' = [plan EXCEPT ![h] = Unstaged(p, g)]
      BY DEF RecoverRecord
    <2>4. \/ plan' = plan
          \/ /\ plan'[h] = Abandon(p, g, "RecoveryCleanup")
             /\ mem[h].records[g].lifecycle # "Active"
          \/ /\ plan'[h] = Abandon(p, g, "RollbackWindowExpired")
             /\ mem[h].records[g].lifecycle # "Active"
          \/ plan'[h] = Unstaged(p, g)
      BY <1>1, <2>3 DEF StatesOK
    <2> QED BY <2>1, <2>2, <2>4, Names
  <1> HIDE DEF o, p
  <1>5. Closed(plan'[h])
    BY <1>1, <1>3, <1>4, GivesUpClosed
  <1>6. PlanFits(o, mem'[h], plan'[h])
    BY <1>1, <1>2, <1>3, <1>4, <1>5 DEF PlanFits, GivesUp, SameBut
  <1>7. TransitionFits(o, mem'[h]) /\ PassFits(o, mem'[h])
    BY <1>2 DEF TransitionFits, PassFits
  <1> QED BY <1>1, <1>6, <1>7, GotoFits DEF Sensibly, Wrote

\* recover gives up.
LEMMA RecoverAbortSensible ==
  ASSUME FencingInv, RecordsInv, NEW h \in Hosts, RecoverAbort(h)
  PROVE  Sensibly(h)
  BY LeaveSensible DEF RecoverAbort, Exit

\* The second commit of recover.
LEMMA RecoverFinishSensible ==
  ASSUME FencingInv, RecordsInv, NEW h \in Hosts, RecoverFinish(h)
  PROVE  Sensibly(h)
  <1> DEFINE p == plan[h]
  <1>1. /\ mem[h] \in ControlStates /\ Sane(mem[h]) /\ p \in ControlStates
        /\ op[h].at = "restaging" /\ PlanFits(op[h], mem[h], p)
    BY HostRecords DEF RecoverFinish, At, StatesOK
  <1>2. p.routingEpoch = mem[h].routingEpoch /\ p.active \in {mem[h].active, None}
    BY <1>1, LocalParts DEF FencingInv, LocalOK, At
  <1>3. Planned(mem[h], p)
    BY <1>1, <1>2 DEF Planned, PlanFits
  <1>4. Proper(mem[h], p)
    BY <1>1, <1>3, PlanProper
  <1>5. ASSUME NEW g \in Successors(h) PROVE Proper(mem[h], Promote(p, g))
    <2>1. g \in slots[h] /\ p.active = None /\ p.records[g].lifecycle = "Standby"
      BY DEF Successors
    <2>2. g \in Generations
      BY <2>1, HostTypes
    <2> QED BY <1>1, <1>3, <2>1, <2>2, PromoteProper
  <1> HIDE DEF Successors
  <1>6. PICK next : /\ Proper(mem[h], next)
                    /\ \/ Commit(h, next) /\ Serve(h)
                       \/ CommitFails(h, next) /\ Exit(h)
    BY <1>4, <1>5 DEF RecoverFinish
  <1>7. Serve(h) => Fits(h)'
    BY GotoFree, IdleFree DEF Serve
  <1> QED BY <1>6, <1>7, CommitSensible

-----------------------------------------------------------------------------
(* transition                                                               *)

\* o is operation q in step x, whether or not a shutdown failed meanwhile.
Moved(q, o, x) ==
    /\ o.at = x /\ o.edge = q.edge /\ o.gen = q.gen /\ o.todo = q.todo
    /\ o.time = q.time /\ o.after = q.after

\* An operation that moves on keeps what it knows.
LEMMA MovesOn ==
  ASSUME NEW q \in Operations, NEW x, NEW o,
         o = [q EXCEPT !.at = x] \/ o = [q EXCEPT !.at = x, !.clean = FALSE]
  PROVE  Moved(q, o, x)
  BY Zenon DEF Operations, Moved

\* A transition in its next step, in a state that reads like the one it needs.
TransitionStep(o, s) ==
    /\ o.at \in {"candidate", "maintenance", "staging", "unstaged", "ready"}
    /\ TransitionFits(o, s)

\* Such an operation is in no other one.
LEMMA TransitionOnly ==
  ASSUME NEW o, NEW s, TransitionStep(o, s), NEW n, n.records = s.records, n.active = s.active,
         NEW p
  PROVE  TransitionFits(o, n) /\ PassFits(o, n) /\ PlanFits(o, n, p)
  BY DEF TransitionStep, TransitionFits, PassFits, PlanFits

\* A commit with which a transition goes on.
LEMMA TransitionGoesOn ==
  ASSUME FencingInv, NEW h \in Hosts, NEW next, Proper(mem[h], next), Commit(h, next),
         NEW o, Goto(h, o), TransitionStep(o, next)
  PROVE  Sensibly(h)
  <1>1. mem'[h].records = next.records /\ mem'[h].active = next.active
    BY Committed
  <1>2. Fits(h)'
    BY <1>1, TransitionOnly, GotoFits
  <1> QED BY <1>2, CommitSensible

\* transition records the candidate of a valid edge.
LEMMA TransitionSensible ==
  ASSUME FencingInv, RecordsInv, NEW h \in Hosts, NEW e \in Edges, Transition(h, e)
  PROVE  Sensibly(h)
  <1> DEFINE next == StageCandidate(mem[h], e, now)
             x == IF e.mode = "Maintenance" THEN "candidate" ELSE "staging"
             o == [Idle EXCEPT !.at = x, !.edge = e, !.time = now]
  <1>1. /\ mem[h] \in ControlStates /\ Sane(mem[h]) /\ now \in Nat
        /\ e.from = mem[h].active /\ (e.mode = "Initial" <=> mem[h].active = None)
        /\ e.to \in Generations /\ e.mode \in {"Initial", "Overlap", "Maintenance"}
    BY HostRecords DEF Transition, ValidEdge, Edges
  <1>2. CASE Panic(h)
    BY <1>2, LeaveSensible DEF Panic
  <1>3. CASE NewCandidate(mem[h], e.to)
             /\ ((Commit(h, next) /\ Goto(h, o)) \/ (CommitFails(h, next) /\ Reply(h)))
    <2>1. Proper(mem[h], next)
      BY <1>1, <1>3, StageCandidateProper
    <2>2. next.records[e.to].lifecycle = "Staged" /\ next.active = mem[h].active
      BY <1>1, StageCandidateChanges DEF SameRoute
    <2>3. o.at = x /\ o.edge = e
      BY Zenon DEF Idle
    <2> HIDE DEF o, next
    <2>4. TransitionStep(o, next)
      BY <1>1, <2>2, <2>3 DEF TransitionStep, TransitionFits
    <2> QED BY <1>3, <2>1, <2>4, TransitionGoesOn, CommitSensible
  <1> QED BY <1>2, <1>3 DEF Transition

\* A commit that ends the operation either way.
LEMMA CommitAndReplySensible ==
  ASSUME FencingInv, NEW h \in Hosts, NEW next, Proper(mem[h], next), CommitAndReply(h, next)
  PROVE  Sensibly(h)
  BY CommitSensible, GotoFree, IdleFree DEF CommitAndReply

\* The candidate is given up: its predecessor is leased, or it did not stage.
LEMMA GiveUpSensible ==
  ASSUME FencingInv, RecordsInv, NEW h \in Hosts, RefuseLeased(h) \/ RecordStageFailure(h)
  PROVE  Sensibly(h)
  <1> DEFINE g == op[h].edge.to
             next == FailCandidate(mem[h], g)
  <1>1. op[h].at \in {"candidate", "unstaged"} /\ CommitAndReply(h, next)
    BY DEF RefuseLeased, RecordStageFailure, At
  <1>2. op[h].edge \in Edges /\ mem[h].records[g].lifecycle = "Staged"
    BY <1>1, HostRecords DEF TransitionFits
  <1>3. g \in Generations
    BY <1>2 DEF Edges
  <1>4. Proper(mem[h], next)
    BY <1>2, <1>3, HostRecords, CandidateProper
  <1> QED BY <1>1, <1>4, CommitAndReplySensible

\* The predecessor of a maintenance edge is stopped.
LEMMA StopPredecessorSensible ==
  ASSUME FencingInv, RecordsInv, NEW h \in Hosts, StopPredecessor(h)
  PROVE  Sensibly(h)
  <1>1. CASE Panic(h)
    BY <1>1, LeaveSensible DEF Panic
  <1>2. ASSUME NEW o, Goto(h, o), UNCHANGED <<store, mem>>, At(h, "candidate"),
               \/ o = [op[h] EXCEPT !.at = "maintenance"]
               \/ o = [op[h] EXCEPT !.at = "maintenance", !.clean = FALSE]
        PROVE  Sensibly(h)
    <2>1. Moved(op[h], o, "maintenance")
      BY <1>2, HostRecords, MovesOn
    <2>2. TransitionStep(o, mem[h])
      BY <1>2, <2>1, HostRecords DEF At, Moved, TransitionStep, TransitionFits
    <2>3. Fits(h)'
      BY <1>2, <2>2, TransitionOnly, GotoFits
    <2> QED BY <1>2, <2>3 DEF Sensibly, Wrote
  <1> QED BY <1>1, <1>2 DEF StopPredecessor

\* The stopped predecessor is retired.
LEMMA RetirePredecessorSensible ==
  ASSUME FencingInv, RecordsInv, NEW h \in Hosts, RetirePredecessor(h)
  PROVE  Sensibly(h)
  <1> DEFINE e == op[h].edge
             next == StopForMaintenance(mem[h], e, op[h].clean)
             o == [op[h] EXCEPT !.at = "staging"]
  <1>1. /\ mem[h] \in ControlStates /\ Sane(mem[h]) /\ op[h] \in Operations
        /\ e \in Edges /\ e.mode = "Maintenance"
        /\ mem[h].active = e.from /\ mem[h].active # None
        /\ mem[h].records[e.to].lifecycle = "Staged"
    BY HostRecords DEF RetirePredecessor, At, TransitionFits
  <1>2. e.from \in Generations /\ e.to \in Generations /\ e.to # e.from
    BY <1>1, ClosedMeans, RecordParts DEF Edges, Sane
  <1>3. Stopped(mem[h], next, e, op[h].clean) /\ Proper(mem[h], next)
    BY <1>1, <1>2, StopForMaintenanceChanges, StopForMaintenanceProper
  <1>4. Moved(op[h], o, "staging") /\ op[h].clean \in BOOLEAN
    BY <1>1, MovesOn DEF Operations
  <1> HIDE DEF o, next
  <1>5. \/ CommitFails(h, next) /\ Reply(h)
        \/ Commit(h, next) /\ ~op[h].clean /\ Goto(h, Idle)
        \/ Commit(h, next) /\ op[h].clean = TRUE /\ Goto(h, o)
    BY <1>4 DEF RetirePredecessor, next, o
  <1>6. ASSUME op[h].clean = TRUE PROVE TransitionStep(o, next)
    BY <1>1, <1>3, <1>4, <1>6 DEF Stopped, TransitionStep, TransitionFits, Moved
  <1> QED BY <1>3, <1>5, <1>6, CommitSensible, TransitionGoesOn, GotoFree, IdleFree

\* stage fails, or returns a handle that becomes Ready.
LEMMA StageSensible ==
  ASSUME FencingInv, RecordsInv, NEW h \in Hosts, StageFails(h) \/ StageSucceeds(h)
  PROVE  Sensibly(h)
  <1> DEFINE e == op[h].edge
             next == MarkReady(mem[h], e.to)
             o == [op[h] EXCEPT !.at = "unstaged"]
             p == [op[h] EXCEPT !.at = "ready"]
  <1>1. /\ mem[h] \in ControlStates /\ Sane(mem[h]) /\ op[h] \in Operations
        /\ TransitionFits(op[h], mem[h]) /\ op[h].at = "staging"
    BY HostRecords DEF StageFails, StageSucceeds, At
  <1>2. /\ e \in Edges /\ mem[h].records[e.to].lifecycle = "Staged"
        /\ mem[h].active = IF e.mode = "Overlap" THEN e.from ELSE None
        /\ mem[h].active = None <=> e.mode # "Overlap"
    BY <1>1 DEF TransitionFits
  <1>3. Moved(op[h], o, "unstaged") /\ Moved(op[h], p, "ready") /\ e.to \in Generations
    BY <1>1, <1>2, MovesOn DEF Edges
  <1>4. Proper(mem[h], next) /\ SameRoute(mem[h], next) /\ next.records[e.to].lifecycle = "Ready"
    BY <1>1, <1>2, <1>3, CandidateProper, MarkReadyChanges DEF Becomes
  <1> HIDE DEF next, o, p
  <1>5. TransitionStep(o, mem[h]) /\ TransitionStep(p, next)
    BY <1>1, <1>2, <1>3, <1>4 DEF TransitionStep, TransitionFits, Moved, SameRoute
  <1>6. CASE StageFails(h)
    <2>1. store' = store /\ mem' = mem /\ Goto(h, o)
      BY <1>6 DEF StageFails, o
    <2>2. Fits(h)'
      BY <1>5, <2>1, TransitionOnly, GotoFits
    <2> QED BY <2>1, <2>2 DEF Sensibly, Wrote
  <1>7. CASE StageSucceeds(h)
    <2>1. \/ Commit(h, next) /\ Goto(h, p)
          \/ CommitFails(h, next) /\ Reply(h)
      BY <1>7 DEF StageSucceeds, next, p
    <2> QED BY <1>4, <1>5, <2>1, TransitionGoesOn, CommitSensible
  <1> QED BY <1>6, <1>7

\* The route switch.
LEMMA PublishSensible ==
  ASSUME FencingInv, RecordsInv, NEW h \in Hosts, Publish(h)
  PROVE  Sensibly(h)
  <1> DEFINE next == Switch(mem[h], op[h].edge, op[h].time)
  <1>1. Proper(mem[h], next)
    BY HostRecords, SwitchProper DEF Publish, At, TransitionFits
  <1> HIDE DEF next
  <1>2. \/ Commit(h, next) /\ Goto(h, Idle)
        \/ CommitFails(h, next) /\ Reply(h)
    BY DEF Publish, next
  <1> QED BY <1>1, <1>2, CommitSensible, GotoFree, IdleFree

-----------------------------------------------------------------------------
(* rollback, begin_shutdown                                                 *)

\* A commit between two operations.
LEMMA BetweenSensible ==
  ASSUME FencingInv, NEW h \in Hosts, At(h, "idle"), NEW next, Proper(mem[h], next),
         Commit(h, next), UNCHANGED op
  PROVE  Sensibly(h)
  <1>1. Free(op'[h])
    BY DEF At, Free
  <1>2. Fits(h)'
    BY <1>1, FreeFits DEF Fits
  <1> QED BY <1>2, CommitSensible

\* rollback gives the route back to a retained predecessor.
LEMMA RollbackSensible ==
  ASSUME FencingInv, RecordsInv, NEW h \in Hosts, NEW g \in Generations, Rollback(h, g)
  PROVE  Sensibly(h)
  <1> DEFINE next == Roll(mem[h], g, now)
  <1>1. Proper(mem[h], next) /\ At(h, "idle")
    BY HostRecords, RollProper DEF Rollback, Command
  <1> HIDE DEF next
  <1>2. \/ Commit(h, next) /\ UNCHANGED op
        \/ CommitFails(h, next) /\ Reply(h)
    BY DEF Rollback, next
  <1> QED BY <1>1, <1>2, BetweenSensible, CommitSensible

\* begin_shutdown withdraws the route.
LEMMA StartShutdownSensible ==
  ASSUME FencingInv, RecordsInv, NEW h \in Hosts, StartShutdown(h)
  PROVE  Sensibly(h)
  <1> DEFINE next == BeginShutdown(mem[h], now)
  <1>1. Proper(mem[h], next) /\ At(h, "idle")
    BY HostRecords, BeginShutdownProper DEF StartShutdown, Command
  <1> HIDE DEF next
  <1>2. \/ Commit(h, next) /\ UNCHANGED op
        \/ CommitFails(h, next) /\ Exit(h)
    BY DEF StartShutdown, next
  <1> QED BY <1>1, <1>2, BetweenSensible, CommitSensible

\* The Controller ends.
LEMMA StopSensible ==
  ASSUME FencingInv, NEW h \in Hosts, Stop(h)
  PROVE  Sensibly(h)
  BY LeaveSensible DEF Stop, Exit

-----------------------------------------------------------------------------
(* maintain                                                                 *)

\* A loop of the pass, over predecessors that s retains.
PassStep(o, s) ==
    /\ Plain(o)
    /\ o.at \in {"idle", "reconcile", "inactive", "candidates", "stop", "retiring"}
    /\ PassFits(o, s)

\* The loops a pass enters are over predecessors that are retained.
LEMMA EntersPass ==
  ASSUME FencingInv, NEW h \in Hosts, NEW o \in Operations, NEW s
  PROVE  PassStep(EnterCandidates(o, s), s) /\ PassStep(EnterInactive(h, o, s), s)
  <1>1. PassStep(EnterCandidates(o, s), s)
    <2> DEFINE due == {g \in Generations : s.records[g].lifecycle \in Retained}
               p == [o EXCEPT !.at = "candidates", !.todo = due, !.after = "candidates"]
    <2>1. \A g \in due : s.records[g].lifecycle \in Retained
      OBVIOUS
    <2>2. EnterCandidates(o, s) \in {Idle, p}
      BY DEF EnterCandidates
    <2> HIDE DEF due
    <2>3. p.at = "candidates" /\ p.todo = due
      BY Zenon DEF Operations
    <2> HIDE DEF p
    <2>4. PassFits(p, s) /\ p.at = "candidates"
      BY <2>1, <2>3 DEF PassFits
    <2>5. PassFits(Idle, s) /\ Idle.at = "idle"
      BY DEF PassFits, Idle
    <2> QED BY <2>2, <2>4, <2>5, PassSteps DEF PassStep
  <1>2. PassStep(EnterInactive(h, o, s), s)
    <2> DEFINE f == InactiveFailures(h, s)
               p == [o EXCEPT !.at = "inactive", !.todo = f]
    <2>1. \A g \in f : s.records[g].lifecycle \in Retained
      BY DEF InactiveFailures
    <2>2. EnterInactive(h, o, s) \in {EnterCandidates(o, s), p}
      BY DEF EnterInactive
    <2> HIDE DEF f
    <2>3. p.at = "inactive" /\ p.todo = f
      BY Zenon DEF Operations
    <2> HIDE DEF p
    <2>4. PassFits(p, s) /\ p.at = "inactive"
      BY <2>1, <2>3 DEF PassFits
    <2> QED BY <1>1, <2>2, <2>4, PassSteps DEF PassStep
  <1> QED BY <1>1, <1>2

\* ... and so is the one it resumes, when what it has left is retained in s.
LEMMA ResumesPass ==
  ASSUME FencingInv, NEW h \in Hosts, NEW o \in Operations, NEW s,
         \A g \in o.todo : s.records[g].lifecycle \in Retained
  PROVE  PassStep(Resume(o, s), s)
  <1> DEFINE q == [o EXCEPT !.gen = None, !.reason = None]
             p == [o EXCEPT !.at = o.after, !.gen = None, !.reason = None]
  <1>1. q \in Operations
    BY Zenon DEF Operations
  <1>2. p.at = o.after /\ p.todo = o.todo /\ o.after \in {"inactive", "candidates"}
    BY Zenon DEF Operations
  <1>3. Resume(o, s) \in {p, EnterCandidates(q, s), Idle}
    BY DEF Resume
  <1> HIDE DEF p, q
  <1>4. PassFits(p, s) /\ p.at \in {"inactive", "candidates"}
    BY <1>2 DEF PassFits
  <1>5. PassFits(Idle, s) /\ Idle.at = "idle"
    BY DEF PassFits, Idle
  <1> QED BY <1>1, <1>3, <1>4, <1>5, PassSteps, EntersPass DEF PassStep

\* A pass that goes on with o, in a state that reads like s.
LEMMA PassGoesOn ==
  ASSUME FencingInv, NEW h \in Hosts, NEW o, NEW s, PassStep(o, s), Goto(h, o),
         mem'[h].records = s.records, mem'[h].active = s.active
  PROVE  Fits(h)'
  <1>1. PassFits(o, mem'[h]) /\ o.at # "unstaged" /\ Plain(o)
    BY DEF PassStep, PassFits
  <1> QED BY <1>1, PassOnly, GotoFits

\* A commit of the pass, or the end of the Host.
LEMMA CommitOrExitSensible ==
  ASSUME FencingInv, NEW h \in Hosts, NEW next, Proper(mem[h], next),
         NEW o, PassStep(o, next), CommitOrExit(h, next, o)
  PROVE  Sensibly(h)
  <1>1. Commit(h, next) /\ Goto(h, o) => Fits(h)'
    BY Committed, PassGoesOn
  <1> QED BY <1>1, CommitSensible DEF CommitOrExit

\* A step of the pass that only looks.
LEMMA LooksSensible ==
  ASSUME FencingInv, NEW h \in Hosts, NEW o, PassStep(o, mem[h]), Goto(h, o),
         store' = store, mem' = mem
  PROVE  Sensibly(h)
  BY PassGoesOn DEF Sensibly, Wrote

\* reconcile_active_generation.
LEMMA TickSensible ==
  ASSUME FencingInv, RecordsInv, NEW h \in Hosts, Tick(h)
  PROVE  Sensibly(h)
  <1> DEFINE a == mem[h].active
             pass == [Idle EXCEPT !.time = now]
             o == [pass EXCEPT !.at = "reconcile"]
             next == MarkFailed(mem[h], a)
  <1>1. /\ mem[h] \in ControlStates /\ Sane(mem[h]) /\ Idle \in Operations /\ now \in Nat
        /\ a \in Generations \union {None}
    BY HostRecords, IdleOrdinary, RecordParts DEF Ordinary
  <1>2. pass \in Operations
    BY <1>1, OperationFields
  <1>3. \/ Panic(h)
        \/ a # None /\ CommitOrExit(h, next, o)
        \/ Goto(h, EnterInactive(h, pass, mem[h])) /\ store' = store /\ mem' = mem
    BY DEF Tick, Watched
  <1> HIDE DEF pass
  <1>4. o.at = "reconcile" /\ o \in Operations
    BY <1>2, StepNames, Zenon DEF Operations, Steps
  <1> HIDE DEF o
  <1>5. CASE a # None /\ CommitOrExit(h, next, o)
    <2>1. Proper(mem[h], next) /\ next.active # None
      BY <1>1, <1>5, MarkFailedProper, MarkFailedChanges DEF SameRoute
    <2> HIDE DEF next
    <2>2. PassStep(o, next)
      BY <1>4, <2>1, StepNames DEF PassStep, PassFits, Plain
    <2> QED BY <1>5, <2>1, <2>2, CommitOrExitSensible
  <1>6. CASE Panic(h)
    BY <1>6, LeaveSensible DEF Panic
  <1>7. CASE Goto(h, EnterInactive(h, pass, mem[h])) /\ store' = store /\ mem' = mem
    BY <1>2, <1>7, EntersPass, LooksSensible
  <1> QED BY <1>3, <1>5, <1>6, <1>7

\* mark_generation_failed: the route falls back, or is withdrawn.
LEMMA ReactSensible ==
  ASSUME FencingInv, RecordsInv, NEW h \in Hosts, React(h)
  PROVE  Sensibly(h)
  <1> DEFINE s == mem[h]
             t == op[h].time
  <1>1. /\ s \in ControlStates /\ Sane(s) /\ t \in Nat /\ s.active # None
        /\ op[h] \in Operations
    BY HostRecords DEF React, At, PassFits
  <1>2. Proper(s, FenceActive(s, t))
    BY <1>1, FenceActiveProper
  <1>3. \A g \in AutomaticTargets(s, t) : g \in Generations /\ RollbackTarget(s, g, t)
    BY DEF AutomaticTargets
  <1>4. \A g \in AutomaticTargets(s, t) : Proper(s, Roll(s, g, t))
    BY <1>1, <1>3, RollProper
  <1>5. PICK next : Proper(s, next) /\ CommitOrExit(h, next, EnterInactive(h, op[h], next))
    BY <1>2, <1>4 DEF React
  <1>6. PassStep(EnterInactive(h, op[h], next), next)
    BY <1>1, EntersPass
  <1> QED BY <1>5, <1>6, CommitOrExitSensible

\* The pass is about to stop g, with T left to look at.
StopsNext(o, g, T) == o \in Operations /\ o.at = "stop" /\ o.gen = g /\ o.todo = T

\* What is stopped, and what is left, is retained.
LEMMA StopsPass ==
  ASSUME FencingInv, NEW h \in Hosts, NEW o, NEW g \in Generations, NEW T,
         StopsNext(o, g, T), g \notin T, NEW s,
         s.records[g].lifecycle \in Retained,
         \A k \in T : s.records[k].lifecycle \in Retained
  PROVE  PassStep(o, s)
  BY StepNames DEF StopsNext, PassStep, PassFits, Plain

\* The pass records the failure of an inactive Generation.
LEMMA MarkInactiveFailedSensible ==
  ASSUME FencingInv, RecordsInv, NEW h \in Hosts, NEW g \in Generations,
         MarkInactiveFailed(h, g)
  PROVE  Sensibly(h)
  <1> DEFINE T == op[h].todo \ {g}
             o == [op[h] EXCEPT !.at = "stop", !.gen = g, !.todo = T,
                                !.reason = "TerminalFailure", !.after = "inactive"]
             next == MarkFailed(mem[h], g)
  <1>1. /\ mem[h] \in ControlStates /\ Sane(mem[h]) /\ op[h] \in Operations
        /\ T \in SUBSET Generations /\ CommitOrExit(h, next, o)
        /\ \A k \in op[h].todo : mem[h].records[k].lifecycle \in Retained
        /\ g \in op[h].todo /\ g \notin T
    BY HostRecords DEF MarkInactiveFailed, At, PassFits
  <1>2. \A k \in T : k \in op[h].todo /\ k \in Generations
    BY <1>1
  <1> HIDE DEF T
  <1>3. StopsNext(o, g, T)
    <2>1. "stop" \in Steps /\ "TerminalFailure" \in Reasons
      BY StepNames, Names
    <2> QED BY <1>1, <2>1, Zenon DEF Operations, StopsNext
  <1> HIDE DEF o
  <1>4. /\ Proper(mem[h], next) /\ SameBut(mem[h], next, g, g)
        /\ next.records[g].lifecycle = mem[h].records[g].lifecycle
    BY <1>1, MarkFailedProper, MarkFailedChanges
  <1> HIDE DEF next
  <1>5. \A k \in T : next.records[k].lifecycle \in Retained
    BY <1>1, <1>2, <1>4 DEF SameBut
  <1>6. next.records[g].lifecycle \in Retained
    BY <1>1, <1>4
  <1>7. PassStep(o, next)
    BY <1>1, <1>3, <1>5, <1>6, StopsPass
  <1> QED BY <1>1, <1>4, <1>7, CommitOrExitSensible

\* maintain_candidate, for one retained record.
LEMMA MaintainCandidateSensible ==
  ASSUME FencingInv, RecordsInv, NEW h \in Hosts, NEW g \in Generations,
         MaintainCandidate(h, g)
  PROVE  Sensibly(h)
  <1> DEFINE T == op[h].todo \ {g}
             rest == [op[h] EXCEPT !.todo = T, !.after = "candidates"]
             why == DueReason(h, g)
             o == [rest EXCEPT !.at = "stop", !.gen = g, !.reason = why]
             next == ToStandby(mem[h], g)
  <1>1. /\ mem[h] \in ControlStates /\ Sane(mem[h]) /\ op[h] \in Operations
        /\ T \in SUBSET Generations /\ why \in Reasons \union {None}
        /\ \A k \in op[h].todo : mem[h].records[k].lifecycle \in Retained
        /\ g \in op[h].todo /\ g \notin T
    BY HostRecords, DueReasonType DEF MaintainCandidate, At, PassFits
  <1>2. \A k \in T : k \in op[h].todo /\ k \in Generations
    BY <1>1
  <1>3. \/ Exit(h) /\ store' = store
        \/ Drained(h, g) /\ CommitOrExit(h, next, Resume(rest, mem[h]))
        \/ /\ Goto(h, Resume(rest, mem[h])) \/ Goto(h, o)
           /\ store' = store /\ mem' = mem
    BY DEF MaintainCandidate
  <1> HIDE DEF T, why
  <1>4. rest \in Operations /\ rest.todo = T /\ rest.after = "candidates"
    BY <1>1, Zenon DEF Operations
  <1> HIDE DEF rest
  <1>5. StopsNext(o, g, T)
    <2>1. "stop" \in Steps
      BY StepNames
    <2> QED BY <1>1, <1>4, <2>1, Zenon DEF Operations, StopsNext
  <1> HIDE DEF o
  <1>6. PassStep(o, mem[h]) /\ PassStep(Resume(rest, mem[h]), mem[h])
    BY <1>1, <1>2, <1>4, <1>5, StopsPass, ResumesPass
  <1>7. CASE Drained(h, g) /\ CommitOrExit(h, next, Resume(rest, mem[h]))
    <2>1. mem[h].records[g].lifecycle = "Draining" /\ mem[h].records[g].rollbackDeadline # None
      BY <1>7 DEF Drained, Open
    <2>2. /\ Proper(mem[h], next) /\ SameBut(mem[h], next, g, g)
      BY <1>1, <2>1, ToStandbyProper, ToStandbyChanges
    <2> HIDE DEF next
    <2>3. Resume(rest, mem[h]) = Resume(rest, next)
      BY <1>4 DEF Resume
    <2>4. \A k \in T : next.records[k].lifecycle \in Retained
      BY <1>1, <1>2, <2>2 DEF SameBut
    <2>5. PassStep(Resume(rest, next), next)
      BY <1>4, <2>4, ResumesPass
    <2> QED BY <1>7, <2>2, <2>3, <2>5, CommitOrExitSensible
  <1>8. CASE Exit(h) /\ store' = store
    BY <1>8, LeaveSensible DEF Exit
  <1>9. CASE (Goto(h, Resume(rest, mem[h])) \/ Goto(h, o)) /\ store' = store /\ mem' = mem
    BY <1>6, <1>9, LooksSensible
  <1> QED BY <1>3, <1>7, <1>8, <1>9

\* shutdown_and_retire, its first half.
LEMMA StopRetainedSensible ==
  ASSUME FencingInv, RecordsInv, NEW h \in Hosts, StopRetained(h)
  PROVE  Sensibly(h)
  <1>1. CASE Exit(h) /\ store' = store
    BY <1>1, LeaveSensible DEF Exit
  <1>2. ASSUME NEW o, Goto(h, o), UNCHANGED <<store, mem>>,
               \/ o = [op[h] EXCEPT !.at = "retiring"]
               \/ o = [op[h] EXCEPT !.at = "retiring", !.clean = FALSE]
        PROVE  Sensibly(h)
    <2>1. op[h].at = "stop" /\ PassFits(op[h], mem[h]) /\ op[h] \in Operations
      BY HostRecords DEF StopRetained, At
    <2>2. Moved(op[h], o, "retiring")
      BY <1>2, <2>1, MovesOn
    <2>3. Plain(o)
      <3>1. o \in Operations
        <4>1. "retiring" \in Steps /\ FALSE \in BOOLEAN
          BY StepNames
        <4> QED BY <1>2, <2>1, <4>1, Zenon DEF Operations
      <3> QED BY <2>2, <3>1, StepNames DEF Plain, Moved
    <2>4. PassStep(o, mem[h])
      BY <2>1, <2>2, <2>3 DEF PassStep, PassFits, Moved
    <2> QED BY <1>2, <2>4, LooksSensible
  <1> QED BY <1>1, <1>2 DEF StopRetained

\* shutdown_and_retire, its second half.
LEMMA RetireStoppedSensible ==
  ASSUME FencingInv, RecordsInv, NEW h \in Hosts, RetireStopped(h)
  PROVE  Sensibly(h)
  <1> DEFINE g == op[h].gen
             next == Retire(mem[h], g, op[h].reason, op[h].clean)
  <1>1. /\ mem[h] \in ControlStates /\ Sane(mem[h]) /\ op[h] \in Operations
        /\ op[h].reason \in Reasons \union {None}
        /\ g \in Generations /\ g \notin op[h].todo
        /\ mem[h].records[g].lifecycle \in Retained
        /\ op[h].todo \in SUBSET Generations
        /\ \A k \in op[h].todo : mem[h].records[k].lifecycle \in Retained
    BY HostRecords DEF RetireStopped, At, PassFits
  <1>2. Proper(mem[h], next) /\ SameBut(mem[h], next, g, g)
    BY <1>1, RetireProper, RetireChanges
  <1>3. \/ Commit(h, next) /\ Goto(h, Resume(op[h], next))
        \/ (CommitFails(h, next) \/ Write(h, next)) /\ Exit(h)
    BY DEF RetireStopped
  <1> HIDE DEF next
  <1>4. \A k \in op[h].todo : next.records[k].lifecycle \in Retained
    BY <1>1, <1>2 DEF SameBut
  <1>5. PassStep(Resume(op[h], next), next)
    BY <1>1, <1>4, ResumesPass
  <1>6. Commit(h, next) /\ Goto(h, Resume(op[h], next)) => Fits(h)'
    BY <1>2, <1>5, Committed, PassGoesOn
  <1> QED BY <1>2, <1>3, <1>6, CommitSensible

-----------------------------------------------------------------------------
(* suspend and drain_and_suspend, leases and crashes                        *)

\* A suspension begins, or waits no longer for the leases.
LEMMA BeginSuspendSensible ==
  ASSUME FencingInv, RecordsInv, NEW h \in Hosts,
         \/ Suspend(h) \/ LeasesDrained(h)
         \/ \E spent \in {0, SuspendTimeout} : DrainAndSuspend(h, spent)
  PROVE  Sensibly(h)
  <1>1. ASSUME NEW q \in Operations, NEW x \in {"suspending", "draining", "bounded"}, NEW T, NEW t,
               NEW o, o = [q EXCEPT !.at = x, !.todo = T] \/ o = [q EXCEPT !.at = x, !.time = t]
        PROVE  Free(o)
    <2>1. o.at = x
      BY <1>1, Zenon DEF Operations
    <2> QED BY <2>1 DEF Free
  <1>2. op[h] \in Operations /\ Idle \in Operations
    BY HostRecords, IdleOrdinary DEF Ordinary
  <1>3. CASE Suspend(h)
    <2> DEFINE o == [Idle EXCEPT !.at = "suspending", !.todo = slots[h]]
    <2>1. Free(o) /\ Goto(h, o) /\ store' = store
      BY <1>1, <1>2, <1>3 DEF Suspend
    <2> QED BY <2>1, FreeSensible
  <1>4. CASE LeasesDrained(h)
    <2> DEFINE o == [op[h] EXCEPT !.at = "bounded", !.todo = slots[h]]
    <2>1. Free(o) /\ Goto(h, o) /\ store' = store
      BY <1>1, <1>2, <1>4 DEF LeasesDrained
    <2> QED BY <2>1, FreeSensible
  <1>5. ASSUME NEW spent \in {0, SuspendTimeout}, DrainAndSuspend(h, spent)
        PROVE  Sensibly(h)
    <2> DEFINE o == [Idle EXCEPT !.at = "draining", !.time = After(now, SuspendTimeout - spent)]
    <2>1. Free(o) /\ Goto(h, o) /\ store' = store
      BY <1>1, <1>2, <1>5 DEF DrainAndSuspend
    <2> QED BY <2>1, FreeSensible
  <1> QED BY <1>3, <1>4, <1>5

\* One slot of a suspension is shut down.
LEMMA SuspendSlotSensible ==
  ASSUME FencingInv, RecordsInv, NEW h \in Hosts, NEW g \in Generations, SuspendSlot(h, g)
  PROVE  Sensibly(h)
  <1> DEFINE o == [op[h] EXCEPT !.todo = @ \ {g}]
             p == [o EXCEPT !.clean = FALSE]
  <1>1. /\ op[h] \in Operations /\ op[h].at \in {"suspending", "bounded"}
        /\ store' = store /\ (Goto(h, o) \/ Goto(h, p))
    BY HostRecords DEF SuspendSlot, At
  <1>2. o.at = op[h].at /\ p.at = op[h].at
    BY <1>1, Zenon DEF Operations
  <1> HIDE DEF o, p
  <1>3. Free(o) /\ Free(p)
    BY <1>1, <1>2 DEF Free
  <1> QED BY <1>1, <1>3, FreeSensible

\* The flag is the last commit of a suspension, unless its time is up.
LEMMA EndSuspendSensible ==
  ASSUME FencingInv, RecordsInv, NEW h \in Hosts,
         FinishSuspend(h) \/ FinishBounded(h) \/ SuspendTimesOut(h)
  PROVE  Sensibly(h)
  <1> DEFINE next == Suspended(h)
  <1>1. Proper(mem[h], next)
    BY HostRecords, FlagsProper DEF Suspended
  <1> HIDE DEF next
  <1>2. \/ Exit(h) /\ store' = store
        \/ CommitFails(h, next) /\ Reply(h)
        \/ (CommitFails(h, next) \/ Write(h, next)) /\ Exit(h)
    BY DEF FinishSuspend, FinishBounded, SuspendTimesOut, CommitFails, next
  <1> QED BY <1>1, <1>2, CommitSensible, LeaveSensible DEF Exit

\* A lease, its release or a failure leaves the records alone, and so does a
\* crash.
LEMMA WorkSensible ==
  ASSUME FencingInv, RecordsInv, NEW h \in Hosts,
         Crash(h) \/ \E g \in Generations : Work(h, g)
  PROVE  Sensibly(h)
  <1>1. CASE Crash(h)
    BY <1>1, LeaveSensible DEF Crash, Exit
  <1>2. ASSUME NEW g \in Generations, Work(h, g) PROVE Sensibly(h)
    <2>1. UNCHANGED <<store, mem, plan, op>>
      BY <1>2 DEF Work, Lease, Release, Die, local
    <2> QED BY <2>1 DEF RecordsInv, Fits, Sensibly, Wrote
  <1> QED BY <1>1, <1>2

-----------------------------------------------------------------------------
(* Every step, and the theorems about the records                           *)

\* Every step of a Host is a sensible one.
LEMMA HostsSensible ==
  ASSUME FencingInv, RecordsInv, NEW h \in Hosts,
         \/ Start(h) \/ Operator(h) \/ Tick(h) \/ Continue(h) \/ StageFails(h) \/ Crash(h)
         \/ \E g \in Generations : Work(h, g)
  PROVE  Sensibly(h)
  <1>1. CASE Start(h)
    BY <1>1, LoadSensible, StartFreshSensible, RecoverFenceSensible, RecoverRecordSensible,
       RecoverAbortSensible, RecoverFinishSensible DEF Start
  <1>2. CASE Operator(h)
    BY <1>2, TransitionSensible, RollbackSensible, StartShutdownSensible, BeginSuspendSensible
       DEF Operator
  <1>3. CASE Continue(h)
    <2>1. CASE RefuseLeased(h) \/ StopPredecessor(h) \/ RetirePredecessor(h)
               \/ RecordStageFailure(h) \/ StageSucceeds(h) \/ Publish(h)
      BY <2>1, GiveUpSensible, StopPredecessorSensible, RetirePredecessorSensible,
         StageSensible, PublishSensible
    <2>2. CASE React(h) \/ StopRetained(h) \/ RetireStopped(h) \/ Stop(h)
      BY <2>2, ReactSensible, StopRetainedSensible, RetireStoppedSensible, StopSensible
    <2>3. ASSUME NEW g \in Generations,
                 MarkInactiveFailed(h, g) \/ MaintainCandidate(h, g) \/ SuspendSlot(h, g)
          PROVE  Sensibly(h)
      BY <2>3, MarkInactiveFailedSensible, MaintainCandidateSensible, SuspendSlotSensible
    <2>4. CASE FinishSuspend(h) \/ LeasesDrained(h) \/ SuspendTimesOut(h) \/ FinishBounded(h)
      BY <2>4, BeginSuspendSensible, EndSuspendSensible
    <2> QED BY <1>3, <2>1, <2>2, <2>3, <2>4 DEF Continue
  <1> QED BY <1>1, <1>2, <1>3, TickSensible, StageSensible, WorkSensible

\* Every step keeps the invariant of the records, and the store takes a proper
\* update or stays as it is.
LEMMA StepRecords ==
  ASSUME FencingInv, RecordsInv, [Next]_vars
  PROVE  RecordsInv' /\ (store' = store \/ Proper(store, store'))
  <1>1. CASE UNCHANGED vars
    BY <1>1 DEF vars, RecordsInv, Fits
  <1>2. CASE AdvanceTime
    BY <1>2 DEF AdvanceTime, local, RecordsInv, Fits
  <1>3. ASSUME NEW h \in Hosts, Sound(h), Sensibly(h)
        PROVE  RecordsInv' /\ (store' = store \/ Proper(store, store'))
    BY <1>3, SensiblyPreserves DEF Sensibly, Wrote, Updated
  <1>4. Next => AdvanceTime \/ \E h \in Hosts : Sound(h) /\ Sensibly(h)
    BY HostsSound, HostsSensible DEF Next
  <1> QED BY <1>1, <1>2, <1>3, <1>4

\* Nothing is recorded yet.
LEMMA InitRecords == Init => RecordsInv
  <1>1. Sane(InitialState)
    BY NoneAssumption DEF Sane, Closed, Sensible, InitialState, NoRecord, LiveLifecycles
  <1>2. Free(Idle)
    BY IdleFree
  <1> QED BY <1>1, <1>2, FreeFits DEF Init, RecordsInv, Fits

\* Whatever happens to the Hosts, what they store and remember makes sense: the
\* route is the one Active record's, a live record names the transition it is
\* part of and has its deadline, and every operation in progress still fits the
\* state it goes on from.
THEOREM RecordsMakeSense == Spec => []RecordsInv
  BY InitInductive, StepInductive, InitRecords, StepRecords, PTL DEF Spec

-----------------------------------------------------------------------------
(* The refinement                                                           *)

\* The stages of the store, as GenerationRouting names them.
LEMMA RoutingStages ==
  ASSUME StatesOK, StatesOK'
  PROVE  /\ \A g \in Generations : Stage(store, g) \in Routing!Stages
         /\ \A g \in Generations : Stage(store', g) \in Routing!Stages
  <1>1. store \in ControlStates /\ store' \in ControlStates
    BY DEF StatesOK
  <1> QED BY <1>1, StagesOf DEF Routing!Stages

\* A sane store has one routed Generation, the one its route names.
LEMMA RoutingConsistent ==
  ASSUME StatesOK', Sane(store')
  PROVE  Routing!Consistent'
  <1>1. store' \in ControlStates /\ store'.active \in Generations \union {None}
    BY RecordParts DEF StatesOK
  <1>2. \A g \in Generations : Stage(store', g) = "routed" <=> store'.active = g
    BY <1>1, StagesOf, ClosedMeans DEF Sane
  <1> QED BY <1>1, <1>2, NoneAssumption DEF Routing!Consistent, Stage

\* A proper update of the store is a step of GenerationRouting.
LEMMA ProperRoutes ==
  ASSUME StatesOK, StatesOK', Proper(store, store')
  PROVE  Routing!Next
  <1>1. Routing!Consistent'
    BY RoutingConsistent DEF Proper
  <1>2. CASE Withdrew(store, store')
    BY <1>1, <1>2, RoutingStages
       DEF Routing!Next, Routing!Withdraw, Routing!FallBack, Withdrew, FellBack, Stage
  <1>3. ASSUME NEW g \in Generations, Nominated(store, store', g)
        PROVE  Routing!Nominate(g)
    BY <1>3 DEF Routing!Nominate, Nominated, Stage
  <1>4. ASSUME NEW g \in Generations, Switched(store, store', g)
        PROVE  Routing!Switch(g)
    BY <1>4, RoutingStages DEF Routing!Switch, Routing!FallBack, Switched, FellBack, Stage
  <1> QED BY <1>1, <1>2, <1>3, <1>4 DEF Proper, Routes, Routing!Next

\* The store implements GenerationRouting, whatever any number of Hosts do that
\* race, crash, recover and fall back: a route is given only to a staged
\* candidate or a kept predecessor, under an epoch of its own.
THEOREM StoreRoutes == Spec => ImplementsRouting
  <1>1. Init => Routing!Init
    <2>1. \A g \in Generations : InitialState.records[g].lifecycle = "Absent"
      BY DEF InitialState, NoRecord
    <2>2. InitialState.active = None /\ InitialState.routingEpoch = 0
      BY DEF InitialState
    <2>3. \A g \in Generations : StageOf(InitialState.records[g].lifecycle) = "unknown"
      BY <2>1, Stages DEF Lifecycles
    <2>4. Init => store = InitialState
      BY DEF Init
    <2> QED BY <2>2, <2>3, <2>4 DEF Routing!Init
  <1>2. ASSUME FencingInv, RecordsInv, [Next]_vars
        PROVE  [Routing!Next]_Routing!routing
    <2>1. store' = store \/ Proper(store, store')
      BY <1>2, StepRecords
    <2>2. CASE store' = store
      BY <2>2 DEF Routing!routing
    <2>3. StatesOK /\ StatesOK'
      BY <1>2, StepInductive DEF FencingInv, TypeOK, StatesOK, Modes
    <2> QED BY <2>1, <2>2, <2>3, ProperRoutes
  <1> QED BY <1>1, <1>2, Invariance, RecordsMakeSense, PTL
          DEF Spec, ImplementsRouting, Routing!Spec

-----------------------------------------------------------------------------
(* One predecessor                                                          *)

\* A rollback target is the other end of the active Generation's transition.
LEMMA TargetIsOtherEnd ==
  ASSUME NEW s \in ControlStates, Sane(s), NEW t, NEW g \in Generations,
         RollbackTarget(s, g, t)
  PROVE  LET e == s.records[s.active].transition
         IN  s.active # g /\ {s.active, g} \subseteq {e.from, e.to}
  <1>1. s.active \in Generations /\ s.records[s.active].lifecycle = "Active"
    BY RecordParts, ClosedMeans DEF RollbackTarget, Sane
  <1> QED BY <1>1 DEF RollbackTarget, Sane, Sensible, Retained, LiveLifecycles

\* At most one retained predecessor can be rolled back to: every target and the
\* active Generation are the two ends of one edge.
THEOREM OneTarget == Spec => []OnePredecessor
  <1>1. ASSUME FencingInv, RecordsInv PROVE OnePredecessor
    <2> SUFFICES ASSUME NEW h \in Hosts
                 PROVE  Cardinality({g \in Generations : RollbackTarget(mem[h], g, now)}) <= 1
      BY DEF OnePredecessor
    <2> DEFINE T == {g \in Generations : RollbackTarget(mem[h], g, now)}
    <2>1. \A g, k \in T : g = k
      BY <1>1, HostRecords, TargetIsOtherEnd
    <2>2. CASE T = {}
      BY <2>2, FS_EmptySet
    <2>3. ASSUME NEW g \in T PROVE Cardinality(T) <= 1
      <3>1. T = {g}
        BY <2>1, <2>3
      <3> HIDE DEF T
      <3> QED BY <3>1, FS_Singleton
    <2> QED BY <2>2, <2>3
  <1> QED BY <1>1, Invariance, RecordsMakeSense, PTL

-----------------------------------------------------------------------------
(* What is kept, and for how long                                           *)

\* The runtime of g may go although it is leased; the standby g may be retired.
Overdue(h, g) ==
    LET r == mem[h].records[g]
    IN  \/ r.health = "Failed"
        \/ r.lifecycle = "Draining" /\ ~Open(r.drainDeadline, now)

Expired(h, g) ==
    LET r == mem[h].records[g]
    IN  r.health = "Failed" \/ ~Open(r.rollbackDeadline, now)

Taken(h, g) == leases[h][g] > 0 => Overdue(h, g)

\* The records of n keep what h has leased or may still roll back to.
SparesAt(h, n, g) ==
    /\ leases[h][g] > 0 => n.records[g].lifecycle \in {"Active", "Draining"}
    /\ mem[h].records[g].lifecycle = "Standby" /\ n.records[g].lifecycle = "Retired" =>
          Expired(h, g)

Spares(h, n) == \A g \in Generations : SparesAt(h, n, g)

\* A step of h that does not stop it honours what was promised.
Honours(h) ==
    mode'[h] = mode[h] =>
        /\ \A g \in slots[h] \ slots'[h] : Taken(h, g)
        /\ Running(h) => Spares(h, mem'[h])

\* Only h is concerned, and no time passes.
Alone(h) ==
    /\ now' = now
    /\ \A k \in Hosts \ {h} : slots'[k] = slots[k] /\ leases'[k] = leases[k]

\* What every step of h is shown to be.
Tended(h) == Alone(h) /\ Honours(h) /\ Careful(h)'

-----------------------------------------------------------------------------
(* Who is left alone                                                        *)

\* The slots and the leases of every Host but h stay.
OthersLive(h) == \A k \in Hosts \ {h} : slots'[k] = slots[k] /\ leases'[k] = leases[k]

\* The lease of g is gone, the others stay.
Cleared(h, g) ==
    \A x \in Generations : leases'[h][x] = IF x = g THEN 0 ELSE leases[h][x]

\* What a step does to the slots and the leases of its Host, and to no other's.
LEMMA LiveSteps ==
  ASSUME FencingInv, NEW h \in Hosts
  PROVE  /\ UNCHANGED live =>
              OthersLive(h) /\ slots'[h] = slots[h] /\ leases'[h] = leases[h]
         /\ \A g : Drop(h, g) => OthersLive(h) /\ slots'[h] = slots[h] \ {g} /\ Cleared(h, g)
         /\ \A g : Insert(h, g) =>
              OthersLive(h) /\ slots'[h] = slots[h] \union {g} /\ Cleared(h, g)
         /\ \A how : Leave(h, how) =>
              OthersLive(h) /\ slots'[h] = {} /\ \A x \in Generations : leases'[h][x] = 0
  <1>1. /\ slots \in [Hosts -> SUBSET Generations]
        /\ leases \in [Hosts -> [Generations -> Nat]]
    BY HostTypes DEF LiveOK
  <1>2. UNCHANGED live =>
           OthersLive(h) /\ slots'[h] = slots[h] /\ leases'[h] = leases[h]
    BY DEF live, OthersLive
  <1>3. ASSUME NEW g, Drop(h, g)
        PROVE  OthersLive(h) /\ slots'[h] = slots[h] \ {g} /\ Cleared(h, g)
    BY <1>1, <1>3 DEF Drop, OthersLive, Cleared
  <1>4. ASSUME NEW g, Insert(h, g)
        PROVE  OthersLive(h) /\ slots'[h] = slots[h] \union {g} /\ Cleared(h, g)
    BY <1>1, <1>4 DEF Insert, OthersLive, Cleared
  <1>5. ASSUME NEW how, Leave(h, how)
        PROVE  OthersLive(h) /\ slots'[h] = {} /\ \A x \in Generations : leases'[h][x] = 0
    BY <1>1, <1>5 DEF Leave, OthersLive
  <1> QED BY <1>2, <1>3, <1>4, <1>5

\* Time stands still in every step of a Host.
LEMMA Timeless ==
  ASSUME NEW h, UNCHANGED env \/ Command(h)
  PROVE  now' = now
  BY DEF env, Command

-----------------------------------------------------------------------------
(* What an operation may be left with                                       *)

\* o is not about to stop anything, and looks at deadlines of the past.
Harmless(o) ==
    \/ o.at \in {"idle", "candidate", "staging", "unstaged", "ready", "draining"}
    \/ o.at \in {"reconcile", "inactive", "candidates"} /\ o.time <= now

\* Such an operation needs no justification.
LEMMA HarmlessFits ==
  ASSUME NEW o, Harmless(o), NEW s, NEW l, NEW S
  PROVE  Justified(o, s, l, now) /\ Unleasing(o, l, S) /\ o.at \notin StartSteps
  BY DEF Harmless, Justified, Unleasing, StartSteps

\* What holds of h, by its parts.
LEMMA KeptParts ==
  ASSUME FencingInv, KeptInv, NEW h \in Hosts
  PROVE  /\ ModeFits(h) /\ LeasesFit(h)
         /\ Justified(op[h], mem[h], leases[h], now)
         /\ Unleasing(op[h], leases[h], slots[h])
         /\ \A g \in Generations : leases[h][g] \in Nat
         /\ mode[h] \in Modes
         /\ op[h].at # "idle" /\ op[h].at \notin StartSteps => Running(h) /\ mode[h] # "starting"
         /\ Command(h) => Running(h) /\ mode[h] # "starting"
         /\ Spares(h, mem[h])
  <1>1. /\ ModeFits(h) /\ LeasesFit(h)
        /\ Justified(op[h], mem[h], leases[h], now)
        /\ Unleasing(op[h], leases[h], slots[h])
    BY DEF KeptInv, Careful
  <1>2. mode[h] \in Modes /\ \A g \in Generations : leases[h][g] \in Nat
    BY HostTypes DEF OpsOK, LiveOK
  <1>3. /\ op[h].at # "idle" /\ op[h].at \notin StartSteps => Running(h) /\ mode[h] # "starting"
        /\ Command(h) => Running(h) /\ mode[h] # "starting"
    BY <1>1, <1>2 DEF ModeFits, Up, Modes, Running, At, Command
  <1>4. Spares(h, mem[h])
    BY <1>1 DEF Spares, SparesAt, LeasesFit
  <1> QED BY <1>1, <1>2, <1>3, <1>4

\* A step of a running Host that goes on running, takes nothing that was
\* promised and opens no lease.
LEMMA GoesOnTended ==
  ASSUME FencingInv, KeptInv, NEW h \in Hosts, Running(h), Running(h)',
         now' = now, OthersLive(h), Spares(h, mem'[h]),
         \A g \in Generations : leases'[h][g] > 0 => leases[h][g] > 0,
         \A g \in slots[h] \ slots'[h] : Taken(h, g),
         NEW o, op'[h] = o, o.at \notin StartSteps,
         Justified(o, mem'[h], leases'[h], now), Unleasing(o, leases'[h], slots'[h])
  PROVE  Tended(h)
  <1>1. Alone(h) /\ Honours(h)
    BY DEF Alone, OthersLive, Honours
  <1>2. ModeFits(h)'
    BY DEF ModeFits, Running, Up
  <1>3. LeasesFit(h)'
    BY DEF LeasesFit, Spares, SparesAt
  <1> QED BY <1>1, <1>2, <1>3 DEF Tended, Careful

\* ... and that leaves the slots and the leases alone.
LEMMA SteadyTended ==
  ASSUME FencingInv, KeptInv, NEW h \in Hosts, Running(h), Running(h)', UNCHANGED live,
         UNCHANGED env \/ Command(h), Spares(h, mem'[h]), NEW o, Goto(h, o), Harmless(o)
  PROVE  Tended(h)
  <1>1. /\ OthersLive(h) /\ slots'[h] = slots[h] /\ leases'[h] = leases[h]
        /\ now' = now /\ op'[h] = o
    BY LiveSteps, Timeless, HostTypes DEF Goto, OpsOK
  <1> QED BY <1>1, HarmlessFits, GoesOnTended

\* A step with which the Host stops.
LEMMA LeaveTended ==
  ASSUME FencingInv, KeptInv, NEW h \in Hosts, NEW how \in {"down", "panicked"}, Leave(h, how),
         UNCHANGED env \/ Command(h)
  PROVE  Tended(h)
  <1>1. /\ OthersLive(h) /\ now' = now
        /\ \A g \in Generations : leases'[h][g] = 0
        /\ op'[h] = Idle /\ mode'[h] = how
    BY LiveSteps, Timeless, HostTypes DEF Leave, Goto, OpsOK
  <1>2. Harmless(Idle) /\ Idle.at = "idle"
    BY DEF Harmless, Idle
  <1>3. Careful(h)'
    BY <1>1, <1>2, HarmlessFits DEF Careful, ModeFits, LeasesFit, Up, At, StartSteps
  <1>4. Honours(h)
    <2>1. mode'[h] = mode[h] => \A g \in Generations : ~(leases[h][g] > 0)
      BY <1>1, KeptParts DEF LeasesFit, Running
    <2>2. slots[h] \in SUBSET Generations
      BY HostTypes
    <2> QED BY <1>1, <2>1, <2>2 DEF Honours, Taken, Running
  <1> QED BY <1>1, <1>3, <1>4 DEF Tended, Alone, OthersLive

\* What a commit leaves behind has the records of the update.
LEMMA CommitRecords ==
  ASSUME FencingInv, NEW h \in Hosts, NEW next \in ControlStates, Commit(h, next)
  PROVE  mem'[h].records = next.records /\ mem'[h].active = next.active
  <1>1. mem'[h] = Stamped(h, next)
    BY HostTypes DEF Commit, Adopt, StatesOK
  <1> QED BY <1>1, StampedAlike DEF Alike

\* A commit that its author survives, or that ends its operation or the Host.
LEMMA CommitTended ==
  ASSUME FencingInv, KeptInv, NEW h \in Hosts, Running(h), UNCHANGED env \/ Command(h),
         NEW next \in ControlStates, Spares(h, next), NEW o, Harmless(o),
         \/ Commit(h, next) /\ Goto(h, o) /\ UNCHANGED live /\ Running(h)'
         \/ Reply(h)
         \/ Exit(h)
  PROVE  Tended(h)
  <1>1. CASE Commit(h, next) /\ Goto(h, o) /\ UNCHANGED live /\ Running(h)'
    <2>1. Spares(h, mem'[h])
      BY <1>1, CommitRecords DEF Spares, SparesAt
    <2> QED BY <1>1, <2>1, SteadyTended
  <1>2. CASE Reply(h)
    <2>1. Harmless(Idle)
      BY DEF Harmless, Idle
    <2>2. Running(h)' /\ Spares(h, mem'[h])
      BY <1>2, KeptParts DEF Reply, Running
    <2> QED BY <1>2, <2>1, <2>2, SteadyTended DEF Reply
  <1>3. CASE Exit(h)
    BY <1>3, LeaveTended DEF Exit
  <1> QED BY <1>1, <1>2, <1>3

\* A record that is leased at most while it is routed or drains, and retired as
\* a standby only when it has expired.
Spared(h, next, x) ==
    \/ next.records[x].lifecycle \in {"Active", "Draining"}
    \/ mem[h].records[x].lifecycle \notin {"Active", "Draining", "Standby"}
    \/ next.records[x].lifecycle = mem[h].records[x].lifecycle
    \/ /\ leases[h][x] = 0
       /\ \/ mem[h].records[x].lifecycle # "Standby"
          \/ next.records[x].lifecycle # "Retired"
          \/ Expired(h, x)

\* An update of two records spares what it spares of them.
LEMMA SparesUpdate ==
  ASSUME FencingInv, KeptInv, NEW h \in Hosts, NEW next,
         NEW g \in Generations, NEW k \in Generations, SameBut(mem[h], next, g, k),
         Spared(h, next, g), Spared(h, next, k)
  PROVE  Spares(h, next)
  <1>1. LeasesFit(h) /\ \A x \in Generations : leases[h][x] \in Nat
    BY KeptParts
  <1>2. ASSUME NEW x \in Generations, Spared(h, next, x) PROVE SparesAt(h, next, x)
    BY <1>1, <1>2 DEF Spared, SparesAt, LeasesFit
  <1>3. ASSUME NEW x \in Generations, x # g, x # k PROVE SparesAt(h, next, x)
    BY <1>1, <1>3 DEF SameBut, SparesAt, LeasesFit
  <1> QED BY <1>2, <1>3 DEF Spares

-----------------------------------------------------------------------------
(* Starting a Host                                                          *)

\* A step of a Host that does not run yet: nothing is leased.
LEMMA StartTended ==
  ASSUME FencingInv, KeptInv, NEW h \in Hosts, ~Running(h), now' = now, OthersLive(h),
         \A g \in Generations : leases'[h][g] > 0 => leases[h][g] > 0,
         NEW o, op'[h] = o, NEW m, mode'[h] = m,
         \/ m = "starting" /\ o.at \in StartSteps
         \/ m = "serving" /\ o = Idle
  PROVE  Tended(h)
  <1>1. \A g \in Generations : ~(leases[h][g] > 0)
    BY KeptParts DEF LeasesFit
  <1>2. slots[h] \in SUBSET Generations
    BY HostTypes
  <1>3. Idle.at = "idle" /\ Harmless(Idle)
    BY DEF Idle, Harmless
  <1>4. Justified(o, mem'[h], leases'[h], now) /\ Unleasing(o, leases'[h], slots'[h])
    BY <1>3, HarmlessFits DEF Justified, Unleasing, StartSteps
  <1>5. ModeFits(h)' /\ LeasesFit(h)'
    BY <1>1, <1>3 DEF ModeFits, LeasesFit, Up, At, StartSteps
  <1> QED BY <1>1, <1>2, <1>4, <1>5 DEF Tended, Alone, OthersLive, Honours, Taken, Careful

\* An operation of a start belongs to a Host that starts.
LEMMA Starting ==
  ASSUME FencingInv, KeptInv, NEW h \in Hosts, op[h].at \in StartSteps
  PROVE  mode[h] = "starting" /\ ~Running(h)
  BY KeptParts DEF ModeFits, Running

\* Every step of a start.
LEMMA StartsTended ==
  ASSUME FencingInv, KeptInv, NEW h \in Hosts, Start(h)
  PROVE  Tended(h)
  <1> DEFINE Fresh == Serve(h) /\ UNCHANGED live /\ UNCHANGED env
  <1>1. ASSUME NEW step \in {"opening", "replacing", "fencing"}, Load(h, step)
        PROVE  Tended(h)
    <2> DEFINE o == [Idle EXCEPT !.at = step, !.time = now]
    <2>1. o.at = step
      BY Zenon DEF Idle
    <2>2. ~Running(h) /\ now' = now /\ UNCHANGED live /\ Goto(h, o)
          /\ mode' = [mode EXCEPT ![h] = "starting"]
      BY <1>1 DEF Load, Running
    <2> HIDE DEF o
    <2>3. op'[h] = o /\ mode'[h] = "starting" /\ o.at \in StartSteps
      BY <2>1, <2>2, HostTypes DEF Goto, OpsOK, StartSteps
    <2> QED BY <2>2, <2>3, LiveSteps, StartTended
  <1>2. CASE op[h].at \in StartSteps /\ Exit(h) /\ UNCHANGED env
    BY <1>2, LeaveTended DEF Exit
  <1>3. CASE op[h].at \in StartSteps /\ Fresh
    <2>1. op'[h] = Idle /\ mode'[h] = "serving"
      BY <1>3, HostTypes DEF Serve, Goto, OpsOK
    <2> QED BY <1>3, <2>1, Starting, LiveSteps, Timeless, StartTended
  <1>4. CASE OpenHost(h) \/ ReplaceHost(h) \/ RecoverFinish(h) \/ RecoverAbort(h)
    <2>1. op[h].at \in StartSteps
      BY <1>4 DEF OpenHost, ReplaceHost, RecoverFinish, RecoverAbort, At, StartSteps
    <2>2. (Exit(h) /\ UNCHANGED env) \/ Fresh
      BY <1>4 DEF OpenHost, ReplaceHost, StartFresh, RecoverFinish, RecoverAbort
    <2> QED BY <1>2, <1>3, <2>1, <2>2
  <1>5. ASSUME op[h].at \in StartSteps, NEW T, NEW o,
               o = [op[h] EXCEPT !.at = "restaging", !.todo = T],
               Goto(h, o), UNCHANGED mode, UNCHANGED env,
               UNCHANGED live \/ \E g : Insert(h, g)
        PROVE  Tended(h)
    <2>1. op[h] \in Operations
      BY HostTypes
    <2>2. o.at = "restaging"
      BY <1>5, <2>1, Zenon DEF Operations
    <2>3. op'[h] = o /\ mode'[h] = "starting" /\ o.at \in StartSteps
      BY <1>5, <2>2, Starting, HostTypes DEF Goto, OpsOK, StartSteps
    <2>4. OthersLive(h) /\ \A g \in Generations : leases'[h][g] > 0 => leases[h][g] > 0
      BY <1>5, LiveSteps DEF Cleared
    <2> QED BY <1>5, <2>3, <2>4, Starting, Timeless, StartTended
  <1>6. CASE RecoverFence(h)
    <2>1. op[h].at \in StartSteps
      BY <1>6 DEF RecoverFence, At, StartSteps
    <2> DEFINE T == Live(FenceForRecovery(mem[h]))
               o == [op[h] EXCEPT !.at = "restaging", !.todo = T]
    <2>2. \/ Goto(h, o) /\ UNCHANGED <<mode, live>> /\ UNCHANGED env
          \/ Exit(h) /\ UNCHANGED env
      BY <1>6 DEF RecoverFence
    <2> QED BY <1>2, <1>5, <2>1, <2>2
  <1>7. ASSUME NEW g \in Generations, RecoverRecord(h, g)
        PROVE  Tended(h)
    <2> DEFINE T == op[h].todo \ {g}
               o == [op[h] EXCEPT !.at = "restaging", !.todo = T]
    <2>1. op[h].at = "restaging" /\ op[h] \in Operations
      BY <1>7, HostTypes DEF RecoverRecord, At
    <2>2. Goto(h, [op[h] EXCEPT !.todo = T]) /\ UNCHANGED mode /\ UNCHANGED env
          /\ (UNCHANGED live \/ Insert(h, g))
      BY <1>7 DEF RecoverRecord
    <2>3. [op[h] EXCEPT !.todo = T] = o
      BY <2>1, Zenon DEF Operations
    <2>4. Goto(h, o)
      BY <2>2, <2>3
    <2>5. op[h].at \in StartSteps
      BY <2>1 DEF StartSteps
    <2> QED BY <1>5, <2>2, <2>4, <2>5
  <1> QED BY <1>1, <1>4, <1>6, <1>7 DEF Start

-----------------------------------------------------------------------------
(* transition                                                               *)

\* What holds of h when it commits an update that it may survive.
Survives(h, next, o) == Commit(h, next) /\ Goto(h, o) /\ UNCHANGED <<local, live>>

\* transition records the candidate of a valid edge.
LEMMA TransitionTended ==
  ASSUME FencingInv, RecordsInv, KeptInv, NEW h \in Hosts, NEW e \in Edges, Transition(h, e)
  PROVE  Tended(h)
  <1> DEFINE next == StageCandidate(mem[h], e, now)
             x == IF e.mode = "Maintenance" THEN "candidate" ELSE "staging"
             o == [Idle EXCEPT !.at = x, !.edge = e, !.time = now]
  <1>1. Command(h) /\ Running(h) /\ e.to \in Generations
    BY KeptParts DEF Transition, Edges
  <1>2. CASE Panic(h)
    BY <1>1, <1>2, LeaveTended DEF Panic
  <1>3. CASE NewCandidate(mem[h], e.to) /\ (Survives(h, next, o) \/ Reply(h))
    <2>1. SameBut(mem[h], next, e.to, e.to) /\ next \in ControlStates
      BY HostRecords, StageCandidateChanges
    <2>2. o.at = x
      BY Zenon DEF Idle
    <2> HIDE DEF o, next
    <2>3. Harmless(o)
      BY <2>2 DEF Harmless
    <2>4. Spares(h, next)
      BY <1>1, <1>3, <2>1, SparesUpdate DEF NewCandidate, Spared
    <2>5. Survives(h, next, o) => Running(h)'
      BY <1>1 DEF Survives, local, Running
    <2> QED BY <1>1, <1>3, <2>1, <2>3, <2>4, <2>5, CommitTended DEF Survives
  <1> QED BY <1>2, <1>3 DEF Transition, Survives

\* What a transition in progress may rely on.
LEMMA InTransition ==
  ASSUME FencingInv, RecordsInv, KeptInv, NEW h \in Hosts,
         op[h].at \in {"candidate", "maintenance", "staging", "unstaged", "ready"}
  PROVE  /\ Running(h) /\ op[h] \in Operations /\ mem[h] \in ControlStates /\ Sane(mem[h])
         /\ op[h].edge \in Edges /\ op[h].edge.to \in Generations
         /\ mem[h].records[op[h].edge.to].lifecycle \in {"Staged", "Ready"}
         /\ TransitionFits(op[h], mem[h])
         /\ UNCHANGED local => Running(h)'
  <1>1. Running(h)
    BY KeptParts DEF StartSteps
  <1>2. op[h].edge \in Edges /\ mem[h].records[op[h].edge.to].lifecycle \in {"Staged", "Ready"}
    BY HostRecords DEF TransitionFits
  <1> QED BY <1>1, <1>2, HostRecords DEF Edges, Running, local

\* A transition that goes on with its candidate in a new lifecycle, or gives it
\* up.
LEMMA CandidateTended ==
  ASSUME FencingInv, RecordsInv, KeptInv, NEW h \in Hosts,
         op[h].at \in {"candidate", "maintenance", "staging", "unstaged", "ready"},
         NEW next, next \in {FailCandidate(mem[h], op[h].edge.to), MarkReady(mem[h], op[h].edge.to)},
         NEW o, Harmless(o), Survives(h, next, o) \/ Reply(h), UNCHANGED env
  PROVE  Tended(h)
  <1> DEFINE g == op[h].edge.to
  <1>1. SameBut(mem[h], next, g, g) /\ next \in ControlStates
    BY InTransition, FailCandidateChanges, MarkReadyChanges
  <1>2. Spares(h, next)
    BY <1>1, InTransition, SparesUpdate DEF Spared
  <1> QED BY <1>1, <1>2, InTransition, CommitTended DEF Survives

\* The candidate is given up, did not stage or is Ready.
LEMMA StageTended ==
  ASSUME FencingInv, RecordsInv, KeptInv, NEW h \in Hosts,
         RefuseLeased(h) \/ RecordStageFailure(h) \/ StageFails(h) \/ StageSucceeds(h)
  PROVE  Tended(h)
  <1> DEFINE g == op[h].edge.to
             q == [op[h] EXCEPT !.at = "unstaged"]
             r == [op[h] EXCEPT !.at = "ready"]
  <1>1. op[h].at \in {"candidate", "unstaged", "staging"} /\ UNCHANGED env
    BY DEF RefuseLeased, RecordStageFailure, StageFails, StageSucceeds, CommitAndReply, At
  <1>2. q.at = "unstaged" /\ r.at = "ready" /\ Idle.at = "idle"
    BY <1>1, InTransition, Zenon DEF Operations, Idle
  <1> HIDE DEF q, r
  <1>3. Harmless(q) /\ Harmless(r) /\ Harmless(Idle)
    BY <1>2 DEF Harmless
  <1>4. CASE RefuseLeased(h) \/ RecordStageFailure(h)
    <2>1. Survives(h, FailCandidate(mem[h], g), Idle) \/ Reply(h)
      BY <1>4 DEF RefuseLeased, RecordStageFailure, CommitAndReply, Survives
    <2> QED BY <1>1, <1>3, <2>1, CandidateTended
  <1>5. CASE StageSucceeds(h)
    <2>1. Survives(h, MarkReady(mem[h], g), r) \/ Reply(h)
      BY <1>5 DEF StageSucceeds, Survives, r
    <2> QED BY <1>1, <1>3, <2>1, CandidateTended
  <1>6. CASE StageFails(h)
    <2>1. UNCHANGED <<mem, local, live>> /\ Goto(h, q)
      BY <1>6 DEF StageFails, q
    <2>2. Running(h)' /\ Spares(h, mem'[h]) /\ UNCHANGED live
      BY <1>1, <2>1, InTransition, KeptParts
    <2> QED BY <1>1, <1>3, <2>1, <2>2, InTransition, SteadyTended
  <1> QED BY <1>4, <1>5, <1>6

\* The predecessor of a maintenance edge is stopped: it is not leased.
LEMMA StopPredecessorTended ==
  ASSUME FencingInv, RecordsInv, KeptInv, NEW h \in Hosts, StopPredecessor(h)
  PROVE  Tended(h)
  <1> DEFINE from == op[h].edge.from
  <1>1. op[h].at = "candidate" /\ UNCHANGED env
    BY DEF StopPredecessor, At
  <1>2. from \in Generations /\ op[h].edge \in Edges
    BY <1>1, InTransition DEF TransitionFits, Edges
  <1>3. CASE Panic(h)
    BY <1>1, <1>3, LeaveTended DEF Panic
  <1>4. ASSUME NEW o, Goto(h, o), leases[h][from] = 0, Drop(h, from), UNCHANGED <<mem, local>>,
               \/ o = [op[h] EXCEPT !.at = "maintenance"]
               \/ o = [op[h] EXCEPT !.at = "maintenance", !.clean = FALSE]
        PROVE  Tended(h)
    <2>0. Moved(op[h], o, "maintenance")
      BY <1>1, <1>4, InTransition, MovesOn
    <2>1. o.at = "maintenance" /\ o.edge = op[h].edge
      BY <2>0 DEF Moved
    <2>2. /\ OthersLive(h) /\ slots'[h] = slots[h] \ {from} /\ Cleared(h, from)
          /\ now' = now /\ op'[h] = o
      BY <1>1, <1>4, LiveSteps, Timeless, HostTypes DEF Goto, OpsOK
    <2>3. \A g \in Generations : leases'[h][g] > 0 => leases[h][g] > 0
      BY <2>2 DEF Cleared
    <2>4. \A g \in slots[h] \ slots'[h] : Taken(h, g)
      BY <1>4, <2>2 DEF Taken
    <2>5. Justified(o, mem'[h], leases'[h], now) /\ o.at \notin StartSteps
      BY <2>1 DEF Justified, StartSteps
    <2>6. Unleasing(o, leases'[h], slots'[h])
      BY <1>2, <2>1, <2>2 DEF Unleasing, Cleared
    <2>7. Running(h) /\ Running(h)' /\ Spares(h, mem'[h])
      BY <1>1, <1>4, InTransition, KeptParts
    <2> QED BY <2>1, <2>2, <2>3, <2>4, <2>5, <2>6, <2>7, GoesOnTended
  <1> QED BY <1>3, <1>4 DEF StopPredecessor

\* The stopped predecessor is retired.
LEMMA RetirePredecessorTended ==
  ASSUME FencingInv, RecordsInv, KeptInv, NEW h \in Hosts, RetirePredecessor(h)
  PROVE  Tended(h)
  <1> DEFINE e == op[h].edge
             next == StopForMaintenance(mem[h], e, op[h].clean)
             q == [op[h] EXCEPT !.at = "staging"]
             o == IF op[h].clean THEN q ELSE Idle
  <1>1. op[h].at = "maintenance" /\ UNCHANGED env
    BY DEF RetirePredecessor, At
  <1>2. /\ e \in Edges /\ e.to \in Generations /\ e.from \in Generations /\ e.to # e.from
        /\ mem[h].records[e.from].lifecycle = "Active"
        /\ mem[h].records[e.to].lifecycle = "Staged"
    <2>1. /\ e \in Edges /\ mem[h].active = e.from /\ mem[h].active # None
          /\ mem[h].records[e.to].lifecycle = "Staged"
      BY <1>1, InTransition DEF TransitionFits
    <2>2. e.from \in Generations /\ e.to \in Generations
      BY <2>1 DEF Edges
    <2>3. mem[h].records[e.from].lifecycle = "Active"
      BY <1>1, <2>1, <2>2, InTransition, ClosedMeans DEF Sane
    <2> QED BY <2>1, <2>2, <2>3
  <1>3. Stopped(mem[h], next, e, op[h].clean)
    BY <1>1, <1>2, InTransition, StopForMaintenanceChanges
  <1>4. q.at = "staging" /\ Idle.at = "idle"
    BY <1>1, InTransition, Zenon DEF Operations, Idle
  <1>5. Survives(h, next, o) \/ Reply(h)
    BY DEF RetirePredecessor, Survives
  <1> HIDE DEF next, q
  <1>6. Harmless(o)
    BY <1>4 DEF Harmless
  <1> HIDE DEF o
  <1>7. leases[h][e.from] = 0
    BY <1>1, KeptParts DEF Unleasing
  <1>8. Spares(h, next)
    <2>1. Spared(h, next, e.from) /\ Spared(h, next, e.to)
      BY <1>2, <1>7 DEF Spared
    <2> QED BY <1>2, <1>3, <2>1, SparesUpdate DEF Stopped
  <1> QED BY <1>1, <1>3, <1>5, <1>6, <1>8, InTransition, CommitTended DEF Survives, Stopped

\* The route switch: what had the route drains.
LEMMA PublishTended ==
  ASSUME FencingInv, RecordsInv, KeptInv, NEW h \in Hosts, Publish(h)
  PROVE  Tended(h)
  <1> DEFINE e == op[h].edge
             t == op[h].time
             k == IF e.mode = "Overlap" THEN e.from ELSE e.to
             next == Switch(mem[h], e, t)
  <1>1. op[h].at = "ready" /\ UNCHANGED env
    BY DEF Publish, At
  <1>2. /\ e \in Edges /\ e.to \in Generations /\ k \in Generations
        /\ e.mode = "Overlap" => e.from \in Generations /\ e.from # e.to
        /\ t \in Nat /\ mem[h] \in ControlStates
    <2>1. /\ e \in Edges /\ mem[h].active = (IF e.mode = "Overlap" THEN e.from ELSE None)
          /\ mem[h].active = None <=> e.mode # "Overlap"
          /\ mem[h].records[e.to].lifecycle = "Ready"
      BY <1>1, InTransition DEF TransitionFits
    <2>2. e.to \in Generations /\ e.from \in Generations \union {None}
      BY <2>1 DEF Edges
    <2>3. mem[h].active # e.to
      BY <1>1, <2>1, <2>2, InTransition, ClosedMeans DEF Sane
    <2>4. t \in Nat /\ mem[h] \in ControlStates
      BY HostRecords
    <2>5. e.mode = "Overlap" => e.from \in Generations /\ e.from # e.to
      BY <2>1, <2>2, <2>3
    <2>6. k \in Generations
      BY <2>2, <2>5
    <2> QED BY <2>1, <2>2, <2>4, <2>5, <2>6
  <1>3. /\ SameBut(mem[h], next, e.to, k) /\ next \in ControlStates
        /\ next.records[e.to].lifecycle = "Active"
        /\ e.mode = "Overlap" => next.records[e.from].lifecycle = "Draining"
    <2>1. SwitchedAlong(mem[h], next, e)
      BY <1>2, SwitchChanges
    <2> HIDE DEF next
    <2> QED BY <2>1 DEF SwitchedAlong, Becomes
  <1>4. Harmless(Idle)
    BY DEF Harmless, Idle
  <1>5. \/ Commit(h, next) /\ Insert(h, e.to) /\ Goto(h, Idle) /\ UNCHANGED local
        \/ Reply(h)
    BY DEF Publish
  <1> HIDE DEF next
  <1>6. Spares(h, next)
    BY <1>2, <1>3, SparesUpdate DEF Spared
  <1>7. CASE Commit(h, next) /\ Insert(h, e.to) /\ Goto(h, Idle) /\ UNCHANGED local
    <2>1. /\ OthersLive(h) /\ slots'[h] = slots[h] \union {e.to} /\ Cleared(h, e.to)
          /\ now' = now /\ op'[h] = Idle
      BY <1>1, <1>7, LiveSteps, Timeless, HostTypes DEF Goto, OpsOK
    <2>2. \A g \in Generations : leases'[h][g] > 0 => leases[h][g] > 0
      BY <2>1 DEF Cleared
    <2>3. Spares(h, mem'[h])
      BY <1>3, <1>6, <1>7, CommitRecords DEF Spares, SparesAt
    <2>4. Running(h) /\ Running(h)'
      BY <1>1, <1>7, InTransition
    <2> QED BY <1>4, <2>1, <2>2, <2>3, <2>4, HarmlessFits, GoesOnTended
  <1> QED BY <1>1, <1>3, <1>4, <1>5, <1>6, <1>7, InTransition, CommitTended

-----------------------------------------------------------------------------
(* rollback, begin_shutdown, the end of a Host                              *)

\* Between two operations a Host goes on with the one that is none.
LEMMA StaysIdle ==
  ASSUME FencingInv, NEW h \in Hosts, At(h, "idle"), UNCHANGED op
  PROVE  Goto(h, op[h]) /\ Harmless(op[h])
  <1>1. op = [op EXCEPT ![h] = op[h]]
    BY HostTypes DEF OpsOK
  <1> QED BY <1>1 DEF Goto, Harmless, At

\* rollback: the predecessor is routed again, what had the route drains.
LEMMA RollbackTended ==
  ASSUME FencingInv, RecordsInv, KeptInv, NEW h \in Hosts, NEW g \in Generations, Rollback(h, g)
  PROVE  Tended(h)
  <1> DEFINE a == mem[h].active
             next == Roll(mem[h], g, now)
  <1>1. Command(h) /\ Running(h) /\ At(h, "idle") /\ RollbackTarget(mem[h], g, now)
    BY KeptParts DEF Rollback, Command
  <1>2. /\ mem[h] \in ControlStates /\ now \in Nat /\ a \in Generations /\ g # a
        /\ mem[h].records[a].lifecycle = "Active"
    <2>1. mem[h] \in ControlStates /\ Sane(mem[h]) /\ now \in Nat
      BY HostRecords
    <2>2. a \in Generations /\ mem[h].records[g].lifecycle \in Retained
      BY <1>1, <2>1, RecordParts DEF RollbackTarget
    <2> QED BY <2>1, <2>2, ClosedMeans DEF Sane, Retained
  <1>3. /\ SameBut(mem[h], next, g, a) /\ next \in ControlStates
        /\ next.records[g].lifecycle = "Active" /\ next.records[a].lifecycle = "Draining"
    BY <1>2, RollChanges DEF Becomes
  <1>4. \/ Commit(h, next) /\ UNCHANGED <<local, live, op>>
        \/ Reply(h)
    BY DEF Rollback
  <1> HIDE DEF next
  <1>5. Spares(h, next)
    BY <1>2, <1>3, SparesUpdate DEF Spared
  <1>6. CASE Commit(h, next) /\ UNCHANGED <<local, live, op>>
    <2>1. Goto(h, op[h]) /\ Harmless(op[h]) /\ Running(h)'
      BY <1>1, <1>6, StaysIdle DEF local, Running
    <2> QED BY <1>1, <1>3, <1>5, <1>6, <2>1, CommitTended
  <1>7. CASE Reply(h)
    <2>1. Harmless(Idle)
      BY DEF Harmless, Idle
    <2> QED BY <1>1, <1>3, <1>5, <1>7, <2>1, CommitTended
  <1> QED BY <1>4, <1>6, <1>7

\* begin_shutdown: whatever is routed or kept drains.
LEMMA StartShutdownTended ==
  ASSUME FencingInv, RecordsInv, KeptInv, NEW h \in Hosts, StartShutdown(h)
  PROVE  Tended(h)
  <1> DEFINE next == BeginShutdown(mem[h], now)
  <1>1. Command(h) /\ Running(h) /\ At(h, "idle") /\ mode[h] \in Modes
    BY KeptParts DEF StartShutdown, Command
  <1>2. /\ next \in ControlStates
        /\ \A g \in Generations :
              IF mem[h].records[g].lifecycle \in {"Active", "Draining", "Standby"}
              THEN next.records[g].lifecycle = "Draining"
              ELSE next.records[g] = mem[h].records[g]
    BY HostRecords, BeginShutdownChanges DEF Becomes
  <1>3. \/ /\ Commit(h, next) /\ mode' = [mode EXCEPT ![h] = "closing"]
           /\ UNCHANGED <<plan, live, op>>
        \/ Exit(h)
    BY DEF StartShutdown
  <1> HIDE DEF next
  <1>4. Spares(h, next)
    <2>1. LeasesFit(h)
      BY KeptParts
    <2> QED BY <1>2, <2>1 DEF Spares, SparesAt, LeasesFit
  <1>5. CASE /\ Commit(h, next) /\ mode' = [mode EXCEPT ![h] = "closing"]
             /\ UNCHANGED <<plan, live, op>>
    <2>1. Goto(h, op[h]) /\ Harmless(op[h])
      BY <1>1, <1>5, StaysIdle
    <2>2. Running(h)'
      BY <1>5, HostTypes DEF OpsOK, Running
    <2> QED BY <1>1, <1>2, <1>4, <1>5, <2>1, <2>2, CommitTended
  <1>6. CASE Exit(h)
    BY <1>1, <1>6, LeaveTended DEF Exit
  <1> QED BY <1>3, <1>5, <1>6

\* A Host that stops, or crashes.
LEMMA EndTended ==
  ASSUME FencingInv, KeptInv, NEW h \in Hosts, Stop(h) \/ Crash(h)
  PROVE  Tended(h)
  BY LeaveTended DEF Stop, Crash, Exit

-----------------------------------------------------------------------------
(* maintain                                                                 *)

\* The loops of a pass look at deadlines of the time when it began.
LEMMA EntersHarmless ==
  ASSUME FencingInv, NEW h \in Hosts, NEW o \in Operations, o.time <= now, NEW s
  PROVE  /\ Harmless(EnterCandidates(o, s)) /\ Harmless(EnterInactive(h, o, s))
         /\ Harmless(Resume(o, s))
  <1> DEFINE due == {g \in Generations : s.records[g].lifecycle \in Retained}
             f == InactiveFailures(h, s)
             p(q) == [q EXCEPT !.at = "candidates", !.todo = due, !.after = "candidates"]
             i == [o EXCEPT !.at = "inactive", !.todo = f]
             q == [o EXCEPT !.gen = None, !.reason = None]
             r == [o EXCEPT !.at = o.after, !.gen = None, !.reason = None]
  <1>1. q \in Operations /\ q.time = o.time
    BY Zenon DEF Operations
  <1>2. ASSUME NEW x \in Operations PROVE p(x).at = "candidates" /\ p(x).time = x.time
    BY Zenon DEF Operations
  <1>3. i.at = "inactive" /\ i.time = o.time
    BY Zenon DEF Operations
  <1>4. r.at = o.after /\ r.time = o.time /\ o.after \in {"inactive", "candidates"}
    BY Zenon DEF Operations
  <1>5. /\ EnterCandidates(o, s) \in {Idle, p(o)} /\ EnterCandidates(q, s) \in {Idle, p(q)}
        /\ EnterInactive(h, o, s) \in {EnterCandidates(o, s), i}
        /\ Resume(o, s) \in {r, EnterCandidates(q, s), Idle}
    BY DEF EnterCandidates, EnterInactive, Resume
  <1>6. Idle.at = "idle"
    BY DEF Idle
  <1>7. p(o).at = "candidates" /\ p(o).time = o.time /\ p(q).at = "candidates" /\ p(q).time = o.time
    BY <1>1, <1>2
  <1> HIDE DEF p, i, q, r
  <1>8. Harmless(p(o)) /\ Harmless(p(q)) /\ Harmless(i) /\ Harmless(r) /\ Harmless(Idle)
    BY <1>3, <1>4, <1>6, <1>7 DEF Harmless
  <1> QED BY <1>5, <1>8

\* A commit of the pass after which nothing is stopped, or the end of the Host.
LEMMA CommitOrExitTended ==
  ASSUME FencingInv, KeptInv, NEW h \in Hosts, Running(h),
         NEW next \in ControlStates, Spares(h, next), NEW o, Harmless(o), CommitOrExit(h, next, o)
  PROVE  Tended(h)
  <1>1. /\ UNCHANGED env
        /\ \/ Commit(h, next) /\ Goto(h, o) /\ UNCHANGED live /\ Running(h)'
           \/ Exit(h)
    BY DEF CommitOrExit, local, Running
  <1> QED BY <1>1, CommitTended

\* A step of the pass that only looks.
LEMMA LooksTended ==
  ASSUME FencingInv, KeptInv, NEW h \in Hosts, Running(h), NEW o, Harmless(o), Goto(h, o),
         UNCHANGED <<mem, local, live>>, UNCHANGED env
  PROVE  Tended(h)
  <1>1. Running(h)' /\ Spares(h, mem'[h]) /\ UNCHANGED live
    BY KeptParts DEF local, Running
  <1> QED BY <1>1, SteadyTended

\* The recorded failure of g changes no lifecycle.
LEMMA FailureSpares ==
  ASSUME FencingInv, RecordsInv, KeptInv, NEW h \in Hosts, NEW g \in Generations,
         NEW next, next = MarkFailed(mem[h], g)
  PROVE  /\ Spares(h, next) /\ next \in ControlStates
         /\ next.records[g].lifecycle = mem[h].records[g].lifecycle
         /\ next.records[g].health = "Failed"
  <1>1. /\ SameBut(mem[h], next, g, g) /\ next \in ControlStates
        /\ next.records[g].lifecycle = mem[h].records[g].lifecycle
        /\ next.records[g].health = "Failed"
    BY HostRecords, MarkFailedChanges
  <1> QED BY <1>1, SparesUpdate DEF Spared

\* reconcile_active_generation.
LEMMA TickTended ==
  ASSUME FencingInv, RecordsInv, KeptInv, NEW h \in Hosts, Tick(h)
  PROVE  Tended(h)
  <1> DEFINE a == mem[h].active
             pass == [Idle EXCEPT !.time = now]
             o == [pass EXCEPT !.at = "reconcile"]
             next == MarkFailed(mem[h], a)
             q == EnterInactive(h, pass, mem[h])
  <1>1. /\ Running(h) /\ UNCHANGED env /\ mem[h] \in ControlStates
        /\ Idle \in Operations /\ now \in Nat /\ a \in Generations \union {None}
    BY HostRecords, IdleOrdinary, RecordParts DEF Tick, Ordinary, CommitOrExit
  <1>2. pass \in Operations /\ pass.time = now
    <2>1. pass \in Operations
      BY <1>1, OperationFields
    <2> QED BY <2>1, Zenon DEF Idle
  <1>3. \/ Panic(h)
        \/ a # None /\ CommitOrExit(h, next, o)
        \/ Goto(h, q) /\ UNCHANGED <<mem, local, live>>
    BY DEF Tick, Watched
  <1> HIDE DEF pass
  <1>4. o.at = "reconcile" /\ o.time = now
    BY <1>2, Zenon DEF Operations
  <1> HIDE DEF o
  <1>5. Harmless(o) /\ Harmless(q)
    BY <1>1, <1>2, <1>4, EntersHarmless DEF Harmless
  <1>6. CASE a # None /\ CommitOrExit(h, next, o)
    <2>1. Spares(h, next) /\ next \in ControlStates
      BY <1>1, <1>6, FailureSpares
    <2> QED BY <1>1, <1>5, <1>6, <2>1, CommitOrExitTended
  <1>7. CASE Panic(h)
    BY <1>1, <1>7, LeaveTended DEF Panic
  <1>8. CASE Goto(h, q) /\ UNCHANGED <<mem, local, live>>
    BY <1>1, <1>5, <1>8, LooksTended
  <1> QED BY <1>3, <1>6, <1>7, <1>8

\* mark_generation_failed: what lost the route drains.
LEMMA ReactTended ==
  ASSUME FencingInv, RecordsInv, KeptInv, NEW h \in Hosts, React(h)
  PROVE  Tended(h)
  <1> DEFINE s == mem[h]
             t == op[h].time
             a == s.active
  <1>1. op[h].at = "reconcile"
    BY DEF React, At
  <1>2. /\ Running(h) /\ s \in ControlStates /\ Sane(s) /\ t \in Nat /\ t <= now
        /\ op[h] \in Operations /\ a \in Generations
    <2>1. Running(h) /\ t <= now
      BY <1>1, KeptParts DEF StartSteps, Justified
    <2>2. a # None
      BY <1>1, HostRecords DEF PassFits
    <2> QED BY <2>1, <2>2, HostRecords, RecordParts
  <1>3. Spares(h, FenceActive(s, t)) /\ FenceActive(s, t) \in ControlStates
    <2> DEFINE n == FenceActive(s, t)
    <2>1. SameBut(s, n, a, a) /\ n \in ControlStates /\ n.records[a].lifecycle = "Draining"
      BY <1>2, FenceActiveChanges DEF Becomes
    <2> HIDE DEF n
    <2> QED BY <1>2, <2>1, SparesUpdate DEF Spared, n
  <1>4. ASSUME NEW g \in AutomaticTargets(s, t)
        PROVE  Spares(h, Roll(s, g, t)) /\ Roll(s, g, t) \in ControlStates
    <2> DEFINE n == Roll(s, g, t)
    <2>1. g \in Generations /\ s.records[g].lifecycle \in Retained
      BY <1>4 DEF AutomaticTargets, RollbackTarget
    <2>2. g # a
      BY <1>2, <2>1, ClosedMeans DEF Sane, Retained
    <2>3. /\ SameBut(s, n, g, a) /\ n \in ControlStates
          /\ n.records[g].lifecycle = "Active" /\ n.records[a].lifecycle = "Draining"
      BY <1>2, <2>1, <2>2, RollChanges DEF Becomes
    <2> HIDE DEF n
    <2> QED BY <1>2, <2>1, <2>3, SparesUpdate DEF Spared, n
  <1>5. PICK next : /\ Spares(h, next) /\ next \in ControlStates
                    /\ CommitOrExit(h, next, EnterInactive(h, op[h], next))
    BY <1>3, <1>4 DEF React
  <1> QED BY <1>2, <1>5, EntersHarmless, CommitOrExitTended

\* o is about to stop a Generation that may be stopped, in state s.
StopsDue(h, o, s) ==
    /\ o.at = "stop" /\ o.time <= now
    /\ LET r == s.records[o.gen]
       IN  \/ r.health = "Failed"
           \/ r.lifecycle = "Standby" /\ ~Open(r.rollbackDeadline, o.time)
           \/ r.lifecycle = "Draining" /\ ~Open(r.drainDeadline, o.time)
           \/ r.lifecycle = "Draining" /\ leases[h][o.gen] = 0

\* A step after which such a Generation is to be stopped.
LEMMA StopsTended ==
  ASSUME FencingInv, KeptInv, NEW h \in Hosts, Running(h), Running(h)', UNCHANGED live,
         UNCHANGED env, Spares(h, mem'[h]), NEW o, Goto(h, o), StopsDue(h, o, mem'[h])
  PROVE  Tended(h)
  <1>1. /\ OthersLive(h) /\ slots'[h] = slots[h] /\ leases'[h] = leases[h]
        /\ now' = now /\ op'[h] = o
    BY LiveSteps, Timeless, HostTypes DEF Goto, OpsOK
  <1>2. Justified(o, mem'[h], leases'[h], now) /\ Unleasing(o, leases'[h], slots'[h])
    BY <1>1 DEF StopsDue, Justified, Unleasing
  <1> QED BY <1>1, <1>2, GoesOnTended DEF StopsDue, StartSteps

\* The pass records the failure of an inactive Generation, and stops it next.
LEMMA MarkInactiveFailedTended ==
  ASSUME FencingInv, RecordsInv, KeptInv, NEW h \in Hosts, NEW g \in Generations,
         MarkInactiveFailed(h, g)
  PROVE  Tended(h)
  <1> DEFINE T == op[h].todo \ {g}
             o == [op[h] EXCEPT !.at = "stop", !.gen = g, !.todo = T,
                                !.reason = "TerminalFailure", !.after = "inactive"]
             next == MarkFailed(mem[h], g)
  <1>1. op[h].at = "inactive" /\ CommitOrExit(h, next, o) /\ op[h] \in Operations
    BY HostTypes DEF MarkInactiveFailed, At
  <1>2. Running(h) /\ op[h].time <= now
    BY <1>1, KeptParts DEF StartSteps, Justified
  <1>3. o.at = "stop" /\ o.gen = g /\ o.time = op[h].time
    BY <1>1, Zenon DEF Operations
  <1> HIDE DEF o
  <1>4. /\ Spares(h, next) /\ next \in ControlStates /\ next.records[g].health = "Failed"
    BY FailureSpares
  <1> HIDE DEF next
  <1>5. CASE Commit(h, next) /\ Goto(h, o) /\ UNCHANGED <<local, live>> /\ UNCHANGED env
    <2>1. mem'[h].records = next.records
      BY <1>4, <1>5, CommitRecords
    <2>2. StopsDue(h, o, mem'[h]) /\ Spares(h, mem'[h])
      BY <1>2, <1>3, <1>4, <2>1 DEF StopsDue, Spares, SparesAt
    <2>3. Running(h)' /\ UNCHANGED live
      BY <1>2, <1>5 DEF local, Running
    <2> QED BY <1>2, <1>5, <2>2, <2>3, StopsTended
  <1>6. CASE Exit(h) /\ UNCHANGED env
    BY <1>6, LeaveTended DEF Exit
  <1> QED BY <1>1, <1>5, <1>6 DEF CommitOrExit

\* maintain_candidate gives a reason only for what may be stopped.
LEMMA DueMeans ==
  ASSUME FencingInv, RecordsInv, NEW h \in Hosts, NEW g \in Generations,
         op[h].at = "candidates", g \in op[h].todo, DueReason(h, g) # None, ~Drained(h, g)
  PROVE  LET r == mem[h].records[g]
         IN  \/ r.health = "Failed"
             \/ r.lifecycle = "Standby" /\ ~Open(r.rollbackDeadline, op[h].time)
             \/ r.lifecycle = "Draining" /\ ~Open(r.drainDeadline, op[h].time)
             \/ r.lifecycle = "Draining" /\ leases[h][g] = 0
  <1>1. mem[h].records[g].lifecycle \in {"Draining", "Standby"}
    BY HostRecords DEF PassFits, Retained
  <1> QED BY <1>1 DEF DueReason

\* maintain_candidate, for one retained record.
LEMMA MaintainCandidateTended ==
  ASSUME FencingInv, RecordsInv, KeptInv, NEW h \in Hosts, NEW g \in Generations,
         MaintainCandidate(h, g)
  PROVE  Tended(h)
  <1> DEFINE T == op[h].todo \ {g}
             rest == [op[h] EXCEPT !.todo = T, !.after = "candidates"]
             why == DueReason(h, g)
             o == [rest EXCEPT !.at = "stop", !.gen = g, !.reason = why]
             q == Resume(rest, mem[h])
             next == ToStandby(mem[h], g)
  <1>1. op[h].at = "candidates" /\ g \in op[h].todo /\ op[h] \in Operations /\ UNCHANGED env
    BY HostTypes DEF MaintainCandidate, At, CommitOrExit
  <1>2. Running(h) /\ op[h].time <= now /\ mem[h] \in ControlStates
    BY <1>1, KeptParts, HostRecords DEF StartSteps, Justified
  <1>3. \/ Exit(h)
        \/ Drained(h, g) /\ CommitOrExit(h, next, q)
        \/ /\ UNCHANGED <<mem, local, live>>
           /\ \/ Goto(h, q)
              \/ why # None /\ ~Drained(h, g) /\ Goto(h, o)
    BY DEF MaintainCandidate
  <1>4. rest \in Operations /\ rest.time = op[h].time
    <2>1. T \in SUBSET Generations
      BY <1>1, HostTypes
    <2> HIDE DEF T
    <2> QED BY <1>1, <2>1, Zenon DEF Operations
  <1> HIDE DEF rest
  <1>5. o.at = "stop" /\ o.gen = g /\ o.time = op[h].time
    BY <1>4, Zenon DEF Operations
  <1>6. Harmless(q)
    BY <1>2, <1>4, EntersHarmless
  <1> HIDE DEF o, q
  <1>7. CASE Drained(h, g) /\ CommitOrExit(h, next, q)
    <2>1. SameBut(mem[h], next, g, g) /\ next \in ControlStates
          /\ next.records[g].lifecycle = "Standby"
      BY <1>2, ToStandbyChanges DEF Becomes
    <2> HIDE DEF next
    <2>2. Spares(h, next)
      BY <1>7, <2>1, SparesUpdate DEF Spared, Drained
    <2> QED BY <1>2, <1>6, <1>7, <2>1, <2>2, CommitOrExitTended
  <1>8. CASE Exit(h)
    BY <1>1, <1>8, LeaveTended DEF Exit
  <1>9. CASE UNCHANGED <<mem, local, live>> /\ Goto(h, q)
    BY <1>1, <1>2, <1>6, <1>9, LooksTended
  <1>10. CASE UNCHANGED <<mem, local, live>> /\ why # None /\ ~Drained(h, g) /\ Goto(h, o)
    <2>1. StopsDue(h, o, mem[h])
      BY <1>1, <1>2, <1>5, <1>10, DueMeans DEF StopsDue
    <2>2. Running(h)' /\ Spares(h, mem'[h]) /\ UNCHANGED live /\ mem' = mem
      BY <1>2, <1>10, KeptParts DEF local, Running
    <2> QED BY <1>1, <1>2, <1>10, <2>1, <2>2, StopsTended
  <1> QED BY <1>3, <1>7, <1>8, <1>9, <1>10

\* A deadline that was over when the pass began is over now.
LEMMA StillOver ==
  ASSUME NEW d \in Nat \union {None}, NEW t \in Nat, NEW u \in Nat, t <= u, ~Open(d, t)
  PROVE  ~Open(d, u)
  BY NoneAssumption DEF Open

\* What is justified now is overdue, if it is leased, and expired, if a standby.
LEMMA JustifiedMeans ==
  ASSUME FencingInv, RecordsInv, KeptInv, NEW h \in Hosts, op[h].at \in {"stop", "retiring"}
  PROVE  /\ Running(h) /\ op[h].gen \in Generations /\ op[h] \in Operations
         /\ mem[h].records[op[h].gen].lifecycle \in Retained
         /\ Taken(h, op[h].gen)
         /\ mem[h].records[op[h].gen].lifecycle = "Standby" => Expired(h, op[h].gen)
  <1> DEFINE g == op[h].gen
             r == mem[h].records[g]
             t == op[h].time
  <1>1. /\ Running(h) /\ LeasesFit(h) /\ t <= now
        /\ \/ r.health = "Failed"
           \/ r.lifecycle = "Standby" /\ ~Open(r.rollbackDeadline, t)
           \/ r.lifecycle = "Draining" /\ ~Open(r.drainDeadline, t)
           \/ r.lifecycle = "Draining" /\ leases[h][g] = 0
    BY KeptParts DEF StartSteps, Justified
  <1>2. /\ g \in Generations /\ r.lifecycle \in Retained /\ mem[h] \in ControlStates
        /\ op[h] \in Operations /\ t \in Nat /\ now \in Nat
    BY HostRecords DEF PassFits
  <1>3. r.drainDeadline \in Nat \union {None} /\ r.rollbackDeadline \in Nat \union {None}
    BY <1>2, RecordParts
  <1>4. /\ ~Open(r.rollbackDeadline, t) => ~Open(r.rollbackDeadline, now)
        /\ ~Open(r.drainDeadline, t) => ~Open(r.drainDeadline, now)
    BY <1>1, <1>2, <1>3, StillOver
  <1>5. leases[h][g] > 0 => r.lifecycle # "Standby"
    BY <1>1, <1>2 DEF LeasesFit
  <1>6. leases[h][g] \in Nat
    BY <1>2, KeptParts
  <1>7. Taken(h, g)
    BY <1>1, <1>2, <1>4, <1>5, <1>6 DEF Taken, Overdue
  <1>8. r.lifecycle = "Standby" => Expired(h, g)
    BY <1>1, <1>4 DEF Expired
  <1> QED BY <1>1, <1>2, <1>7, <1>8

\* shutdown_and_retire, its first half: the runtime goes.
LEMMA StopRetainedTended ==
  ASSUME FencingInv, RecordsInv, KeptInv, NEW h \in Hosts, StopRetained(h)
  PROVE  Tended(h)
  <1> DEFINE g == op[h].gen
  <1>1. op[h].at = "stop" /\ UNCHANGED env
    BY DEF StopRetained, At
  <1>2. CASE Exit(h)
    BY <1>1, <1>2, LeaveTended DEF Exit
  <1>3. ASSUME NEW o, Goto(h, o), Drop(h, g), UNCHANGED <<mem, local>>,
               \/ o = [op[h] EXCEPT !.at = "retiring"]
               \/ o = [op[h] EXCEPT !.at = "retiring", !.clean = FALSE]
        PROVE  Tended(h)
    <2>1. Moved(op[h], o, "retiring")
      BY <1>1, <1>3, JustifiedMeans, MovesOn
    <2>2. o.at = "retiring" /\ o.gen = g /\ o.time = op[h].time
      BY <2>1 DEF Moved
    <2>3. /\ OthersLive(h) /\ slots'[h] = slots[h] \ {g} /\ Cleared(h, g)
          /\ now' = now /\ op'[h] = o
      BY <1>1, <1>3, LiveSteps, Timeless, HostTypes DEF Goto, OpsOK
    <2>4. g \in Generations /\ Taken(h, g) /\ Running(h)
      BY <1>1, JustifiedMeans
    <2>5. \A x \in Generations : leases'[h][x] > 0 => leases[h][x] > 0
      BY <2>3 DEF Cleared
    <2>6. Justified(o, mem'[h], leases'[h], now)
      <3>1. Justified(op[h], mem[h], leases[h], now) /\ leases'[h][g] = 0
        BY <2>3, <2>4, KeptParts DEF Cleared
      <3> QED BY <1>1, <1>3, <2>2, <3>1 DEF Justified
    <2>7. Unleasing(o, leases'[h], slots'[h]) /\ o.at \notin StartSteps
      BY <2>2, <2>3, <2>4 DEF Unleasing, Cleared, StartSteps
    <2>8. Running(h)' /\ Spares(h, mem'[h])
      BY <1>3, <2>4, KeptParts DEF local, Running
    <2> QED BY <2>3, <2>4, <2>5, <2>6, <2>7, <2>8, GoesOnTended
  <1> QED BY <1>2, <1>3 DEF StopRetained

\* shutdown_and_retire, its second half: the record goes.
LEMMA RetireStoppedTended ==
  ASSUME FencingInv, RecordsInv, KeptInv, NEW h \in Hosts, RetireStopped(h)
  PROVE  Tended(h)
  <1> DEFINE g == op[h].gen
             next == Retire(mem[h], g, op[h].reason, op[h].clean)
             q == Resume(op[h], next)
  <1>1. op[h].at = "retiring" /\ UNCHANGED env
    BY DEF RetireStopped, At
  <1>2. /\ Running(h) /\ g \in Generations /\ op[h] \in Operations
        /\ mem[h].records[g].lifecycle = "Standby" => Expired(h, g)
        /\ op[h].time <= now /\ leases[h][g] = 0
    BY <1>1, JustifiedMeans, KeptParts DEF Justified, Unleasing
  <1>3. SameBut(mem[h], next, g, g) /\ next \in ControlStates
    BY <1>2, HostRecords, RetireChanges
  <1>4. \/ Commit(h, next) /\ Goto(h, q) /\ UNCHANGED <<local, live>>
        \/ Exit(h)
    BY DEF RetireStopped
  <1>5. Harmless(q)
    BY <1>2, EntersHarmless
  <1> HIDE DEF q, next
  <1>6. Spares(h, next)
    BY <1>2, <1>3, SparesUpdate DEF Spared
  <1>7. UNCHANGED <<local, live>> => Running(h)' /\ UNCHANGED live
    BY <1>2 DEF local, Running
  <1> QED BY <1>1, <1>2, <1>3, <1>4, <1>5, <1>6, <1>7, CommitTended

-----------------------------------------------------------------------------
(* suspend and drain_and_suspend, leases and failures                       *)

\* An operation that shuts slots down which are not leased.
LEMMA SuspendsTended ==
  ASSUME FencingInv, KeptInv, NEW h \in Hosts, Running(h), UNCHANGED <<mem, local>>,
         UNCHANGED env \/ Command(h), NEW o, Goto(h, o), o.at \in {"suspending", "bounded"},
         Unleased(h), UNCHANGED live \/ \E g : Drop(h, g)
  PROVE  Tended(h)
  <1>1. /\ OthersLive(h) /\ now' = now /\ op'[h] = o
        /\ slots'[h] \subseteq slots[h]
        /\ \A x \in Generations : leases'[h][x] \in {0, leases[h][x]}
    <2>1. now' = now /\ op'[h] = o
      BY Timeless, HostTypes DEF Goto, OpsOK
    <2>2. CASE UNCHANGED live
      BY <2>1, <2>2, LiveSteps
    <2>3. ASSUME NEW g, Drop(h, g)
          PROVE  /\ OthersLive(h) /\ slots'[h] \subseteq slots[h]
                 /\ \A x \in Generations : leases'[h][x] \in {0, leases[h][x]}
      BY <2>3, LiveSteps DEF Cleared
    <2> QED BY <2>1, <2>2, <2>3
  <1>2. slots[h] \in SUBSET Generations /\ \A x \in Generations : leases[h][x] \in Nat
    BY HostTypes, KeptParts
  <1>3. \A x \in Generations : leases'[h][x] > 0 => leases[h][x] > 0
    BY <1>1, <1>2
  <1>4. \A g \in slots[h] \ slots'[h] : Taken(h, g)
    BY <1>2 DEF Taken, Unleased
  <1>5. Unleasing(o, leases'[h], slots'[h])
    <2>1. \A x \in slots'[h] : leases'[h][x] = 0
      BY <1>1, <1>2 DEF Unleased
    <2> QED BY <2>1 DEF Unleasing
  <1>6. Justified(o, mem'[h], leases'[h], now) /\ o.at \notin StartSteps
    BY DEF Justified, StartSteps
  <1>7. Running(h)' /\ Spares(h, mem'[h])
    BY KeptParts DEF local, Running
  <1> QED BY <1>1, <1>3, <1>4, <1>5, <1>6, <1>7, GoesOnTended

\* A suspension begins, or waits no longer for the leases.
LEMMA BeginSuspendTended ==
  ASSUME FencingInv, KeptInv, NEW h \in Hosts,
         \/ Suspend(h) \/ LeasesDrained(h)
         \/ \E spent \in {0, SuspendTimeout} : DrainAndSuspend(h, spent)
  PROVE  Tended(h)
  <1>1. op[h] \in Operations /\ Idle \in Operations
    BY HostTypes, IdleOrdinary DEF Ordinary
  <1>2. CASE Suspend(h)
    <2> DEFINE o == [Idle EXCEPT !.at = "suspending", !.todo = slots[h]]
    <2>1. o.at = "suspending"
      BY <1>1, Zenon DEF Operations
    <2>2. Command(h) /\ Unleased(h) /\ Goto(h, o) /\ UNCHANGED <<mem, local>> /\ UNCHANGED live
      BY <1>2 DEF Suspend
    <2> QED BY <2>1, <2>2, KeptParts, SuspendsTended
  <1>3. CASE LeasesDrained(h)
    <2> DEFINE o == [op[h] EXCEPT !.at = "bounded", !.todo = slots[h]]
    <2>1. o.at = "bounded"
      BY <1>1, Zenon DEF Operations
    <2>2. /\ op[h].at = "draining" /\ Unleased(h) /\ Goto(h, o)
          /\ UNCHANGED <<mem, local>> /\ UNCHANGED live /\ UNCHANGED env
      BY <1>3 DEF LeasesDrained, At
    <2>3. Running(h)
      BY <2>2, KeptParts DEF StartSteps
    <2> QED BY <2>1, <2>2, <2>3, SuspendsTended
  <1>4. ASSUME NEW spent \in {0, SuspendTimeout}, DrainAndSuspend(h, spent)
        PROVE  Tended(h)
    <2> DEFINE o == [Idle EXCEPT !.at = "draining", !.time = After(now, SuspendTimeout - spent)]
    <2>1. o.at = "draining"
      BY <1>1, Zenon DEF Operations
    <2>2. Command(h) /\ Goto(h, o) /\ UNCHANGED <<mem, local>> /\ UNCHANGED live
      BY <1>4 DEF DrainAndSuspend
    <2> HIDE DEF o
    <2>3. Harmless(o)
      BY <2>1 DEF Harmless
    <2>4. Running(h) /\ Running(h)' /\ Spares(h, mem'[h])
      BY <2>2, KeptParts DEF local, Running
    <2> QED BY <2>2, <2>3, <2>4, SteadyTended
  <1> QED BY <1>2, <1>3, <1>4

\* One slot of a suspension is shut down.
LEMMA SuspendSlotTended ==
  ASSUME FencingInv, KeptInv, NEW h \in Hosts, NEW g \in Generations, SuspendSlot(h, g)
  PROVE  Tended(h)
  <1> DEFINE o == [op[h] EXCEPT !.todo = @ \ {g}]
             p == [o EXCEPT !.clean = FALSE]
  <1>1. /\ op[h] \in Operations /\ op[h].at \in {"suspending", "bounded"}
        /\ Drop(h, g) /\ UNCHANGED <<mem, local>> /\ UNCHANGED env
        /\ Goto(h, o) \/ Goto(h, p)
    BY HostTypes DEF SuspendSlot, At
  <1>2. o.at = op[h].at /\ p.at = op[h].at
    BY <1>1, Zenon DEF Operations
  <1> HIDE DEF o, p
  <1>3. Running(h) /\ Unleased(h)
    BY <1>1, KeptParts DEF StartSteps, Unleasing, Unleased
  <1> QED BY <1>1, <1>2, <1>3, SuspendsTended

\* A suspension ends with its Host, or is refused.
LEMMA EndSuspendTended ==
  ASSUME FencingInv, RecordsInv, KeptInv, NEW h \in Hosts,
         FinishSuspend(h) \/ FinishBounded(h) \/ SuspendTimesOut(h)
  PROVE  Tended(h)
  <1>1. /\ op[h].at \in {"suspending", "draining", "bounded"} /\ UNCHANGED env
        /\ Exit(h) \/ Reply(h)
    BY DEF FinishSuspend, FinishBounded, SuspendTimesOut, At
  <1>2. Running(h) /\ Spares(h, mem[h]) /\ mem[h] \in ControlStates
    BY <1>1, KeptParts, HostTypes DEF StartSteps
  <1>3. Harmless(Idle)
    BY DEF Harmless, Idle
  <1> QED BY <1>1, <1>2, <1>3, CommitTended

\* A lease is taken on the routed Generation, between two operations; one is
\* released, or a runtime fails.
LEMMA WorkTended ==
  ASSUME FencingInv, RecordsInv, KeptInv, NEW h \in Hosts, NEW g \in Generations, Work(h, g)
  PROVE  Tended(h)
  <1>1. /\ UNCHANGED <<mem, local, op, slots>> /\ UNCHANGED env
        /\ leases \in [Hosts -> [Generations -> Nat]] /\ Careful(h)
    BY HostTypes DEF Work, Lease, Release, Die, LiveOK, KeptInv
  <1>2. now' = now /\ mode' = mode
    BY <1>1 DEF env, local
  <1>3. ModeFits(h)'
    BY <1>1, <1>2 DEF Careful, ModeFits, Up, At
  <1>4. Honours(h)
    BY <1>1, KeptParts DEF Honours
  <1>5. CASE Lease(h, g)
    <2>1. leases' = [leases EXCEPT ![h][g] = @ + 1] /\ CanLease(h, g)
      BY <1>5 DEF Lease
    <2>2. mode[h] = "serving" /\ op[h].at = "idle" /\ mem[h].records[g].lifecycle = "Active"
      <3>1. mode[h] = "serving" /\ op[h].at = "idle" /\ g = mem[h].active
        BY <2>1 DEF CanLease, At
      <3> QED BY <3>1, HostRecords, ClosedMeans DEF Sane
    <2>3. /\ \A k \in Hosts \ {h} : leases'[k] = leases[k]
          /\ \A x \in Generations : x # g => leases'[h][x] = leases[h][x]
      BY <1>1, <2>1
    <2>4. LeasesFit(h)'
      BY <1>1, <1>2, <2>2, <2>3 DEF Careful, LeasesFit, Running
    <2>5. Harmless(op[h])
      BY <2>2 DEF Harmless
    <2> QED BY <1>1, <1>2, <1>3, <1>4, <2>3, <2>4, <2>5, HarmlessFits DEF Tended, Alone, Careful
  <1>6. CASE Release(h, g) \/ Die(h, g)
    <2>1. /\ \A k \in Hosts \ {h} : leases'[k] = leases[k]
          /\ \A x \in Generations :
                /\ leases[h][x] = 0 => leases'[h][x] = 0
                /\ leases'[h][x] > 0 => leases[h][x] > 0
      BY <1>1, <1>6 DEF Release, Die
    <2>2. LeasesFit(h)'
      BY <1>1, <1>2, <2>1 DEF Careful, LeasesFit, Running
    <2>3. Justified(op[h], mem[h], leases'[h], now)
      <3>1. op[h].at \in {"stop", "retiring"} => op[h].gen \in Generations
        BY HostRecords DEF PassFits
      <3> QED BY <1>1, <2>1, <3>1 DEF Careful, Justified
    <2>4. Unleasing(op[h], leases'[h], slots[h])
      <3>1. /\ op[h].at = "retiring" => op[h].gen \in Generations
            /\ op[h].at = "maintenance" => op[h].edge.from \in Generations
            /\ slots[h] \in SUBSET Generations
        BY HostRecords, HostTypes DEF PassFits, TransitionFits, Edges
      <3> QED BY <1>1, <2>1, <3>1 DEF Careful, Unleasing
    <2> QED BY <1>1, <1>2, <1>3, <1>4, <2>1, <2>2, <2>3, <2>4 DEF Tended, Alone, Careful
  <1> QED BY <1>5, <1>6 DEF Work

-----------------------------------------------------------------------------
(* Every step, and the theorems about what is kept                          *)

\* Every step of a Host is tended.
LEMMA HostsTended ==
  ASSUME FencingInv, RecordsInv, KeptInv, NEW h \in Hosts,
         \/ Start(h) \/ Operator(h) \/ Tick(h) \/ Continue(h) \/ StageFails(h) \/ Crash(h)
         \/ \E g \in Generations : Work(h, g)
  PROVE  Tended(h)
  <1>1. CASE Operator(h)
    BY <1>1, TransitionTended, RollbackTended, StartShutdownTended, BeginSuspendTended
       DEF Operator
  <1>2. CASE Continue(h)
    <2>1. CASE RefuseLeased(h) \/ StopPredecessor(h) \/ RetirePredecessor(h)
               \/ RecordStageFailure(h) \/ StageSucceeds(h) \/ Publish(h)
      BY <2>1, StageTended, StopPredecessorTended, RetirePredecessorTended, PublishTended
    <2>2. CASE React(h) \/ StopRetained(h) \/ RetireStopped(h) \/ Stop(h)
      BY <2>2, ReactTended, StopRetainedTended, RetireStoppedTended, EndTended
    <2>3. ASSUME NEW g \in Generations,
                 MarkInactiveFailed(h, g) \/ MaintainCandidate(h, g) \/ SuspendSlot(h, g)
          PROVE  Tended(h)
      BY <2>3, MarkInactiveFailedTended, MaintainCandidateTended, SuspendSlotTended
    <2>4. CASE FinishSuspend(h) \/ LeasesDrained(h) \/ SuspendTimesOut(h) \/ FinishBounded(h)
      BY <2>4, BeginSuspendTended, EndSuspendTended
    <2> QED BY <1>2, <2>1, <2>2, <2>3, <2>4 DEF Continue
  <1> QED BY <1>1, <1>2, StartsTended, TickTended, StageTended, EndTended, WorkTended

\* The Hosts that a step leaves alone are as careful as they were.
LEMMA TendedPreserves ==
  ASSUME FencingInv, KeptInv, NEW h \in Hosts, Sound(h), Tended(h)
  PROVE  KeptInv'
  <1>1. ASSUME NEW k \in Hosts \ {h} PROVE Careful(k)'
    <2>1. /\ mem'[k] = mem[k] /\ mode'[k] = mode[k] /\ op'[k] = op[k]
          /\ slots'[k] = slots[k] /\ leases'[k] = leases[k] /\ now' = now
      BY DEF Sound, HostStep, Others, Tended, Alone
    <2> QED BY <2>1 DEF KeptInv, Careful, ModeFits, Up, At, LeasesFit, Running
  <1> QED BY <1>1 DEF KeptInv, Tended

\* Time may pass: what was over stays over.
LEMMA ClockTended ==
  ASSUME FencingInv, KeptInv, AdvanceTime
  PROVE  KeptInv' /\ UNCHANGED <<mem, mode, slots>>
  <1>1. /\ UNCHANGED <<mem, mode, op, slots, leases>> /\ now' = now + 1 /\ now \in Nat
        /\ \A h \in Hosts : op[h].time \in Nat
    BY HostTypes DEF AdvanceTime, local, live, FencingInv, TypeOK
  <1>2. ASSUME NEW h \in Hosts PROVE Careful(h)'
    <2>1. Justified(op[h], mem[h], leases[h], now)'
      BY <1>1 DEF KeptInv, Careful, Justified
    <2>2. (ModeFits(h) /\ LeasesFit(h) /\ Unleasing(op[h], leases[h], slots[h]))'
      BY <1>1 DEF KeptInv, Careful, ModeFits, Up, At, LeasesFit, Running, Unleasing
    <2> QED BY <2>1, <2>2 DEF Careful
  <1> QED BY <1>1, <1>2 DEF KeptInv

\* No Host is up yet.
LEMMA InitKept == Init => KeptInv
  <1> SUFFICES ASSUME Init, NEW h \in Hosts PROVE Careful(h)
    BY DEF KeptInv
  <1>1. /\ mode[h] = "down" /\ op[h] = Idle
        /\ \A g \in Generations : leases[h][g] = 0
    BY DEF Init
  <1>2. Harmless(Idle) /\ Idle.at = "idle"
    BY DEF Harmless, Idle
  <1> QED BY <1>1, <1>2, HarmlessFits DEF Careful, ModeFits, Up, At, LeasesFit, StartSteps

\* What a Host honours is what RuntimesKept asks of its step.
LEMMA HonoursKeeps ==
  ASSUME FencingInv, NEW h \in Hosts, Honours(h), mode'[h] = mode[h]
  PROVE  /\ \A g \in slots[h] \ slots'[h] : leases[h][g] > 0 =>
               \/ mem[h].records[g].health = "Failed"
               \/ /\ mem[h].records[g].lifecycle = "Draining"
                  /\ ~Open(mem[h].records[g].drainDeadline, now)
         /\ \A g \in Generations :
               /\ Running(h)
               /\ mem[h].records[g].lifecycle = "Standby"
               /\ mem'[h].records[g].lifecycle = "Retired"
               => \/ mem[h].records[g].health = "Failed"
                  \/ ~Open(mem[h].records[g].rollbackDeadline, now)
  BY DEF Honours, Taken, Overdue, Spares, SparesAt, Expired

\* Every step keeps the invariant, and every Host what it has promised.
LEMMA StepKept ==
  ASSUME FencingInv, RecordsInv, KeptInv, [Next]_vars
  PROVE  KeptInv' /\ \A h \in Hosts : Honours(h)
  <1>1. CASE UNCHANGED vars
    <2>1. KeptInv'
      BY <1>1 DEF vars, KeptInv, Careful, ModeFits, Up, At, LeasesFit, Running, Justified, Unleasing
    <2>2. \A h \in Hosts : Honours(h)
      BY <1>1, KeptParts DEF vars, Honours
    <2> QED BY <2>1, <2>2
  <1>2. CASE AdvanceTime
    BY <1>2, ClockTended, KeptParts DEF Honours
  <1>3. ASSUME NEW h \in Hosts, Sound(h), Tended(h)
        PROVE  KeptInv' /\ \A k \in Hosts : Honours(k)
    <2>1. ASSUME NEW k \in Hosts \ {h} PROVE Honours(k)
      <3>1. mem'[k] = mem[k] /\ slots'[k] = slots[k]
        BY <1>3 DEF Sound, HostStep, Others, Tended, Alone
      <3> QED BY <3>1, KeptParts DEF Honours
    <2> QED BY <1>3, <2>1, TendedPreserves DEF Tended
  <1>4. Next => AdvanceTime \/ \E h \in Hosts : Sound(h) /\ Tended(h)
    BY HostsSound, HostsTended DEF Next
  <1> QED BY <1>1, <1>2, <1>3, <1>4

\* Every reachable state satisfies the whole invariant, with any number of
\* Hosts and under every fault: in particular leases are open only on routed or
\* draining Generations of a running Host, and a pass stops only what failed,
\* outlived its deadline or is not leased.
THEOREM InductiveHolds == Spec => []Inductive
  <1>1. Init => KeptInv
    BY InitKept
  <1>2. FencingInv /\ RecordsInv /\ KeptInv /\ [Next]_vars => KeptInv'
    BY StepKept
  <1>3. FencingInv /\ RecordsInv /\ KeptInv => Inductive
    BY DEF Inductive
  <1> QED BY <1>1, <1>2, <1>3, Invariance, RecordsMakeSense, PTL DEF Spec

\* What is kept is kept as long as was promised: as long as a Host goes on, a
\* leased runtime leaves its slots only when it has failed or its drain deadline
\* has passed, and a standby is retired only when it has failed or its rollback
\* deadline has passed.
THEOREM PromisesKept == Spec => RuntimesKept
  <1>1. ASSUME FencingInv, RecordsInv, KeptInv, [Next]_vars
        PROVE  /\ [\A h \in Hosts : \A g \in slots[h] \ slots'[h] :
                      leases[h][g] > 0 /\ mode'[h] = mode[h] =>
                         \/ mem[h].records[g].health = "Failed"
                         \/ /\ mem[h].records[g].lifecycle = "Draining"
                            /\ ~Open(mem[h].records[g].drainDeadline, now)]_vars
               /\ [\A h \in Hosts, g \in Generations :
                      /\ Running(h) /\ mode'[h] = mode[h]
                      /\ mem[h].records[g].lifecycle = "Standby"
                      /\ mem'[h].records[g].lifecycle = "Retired"
                      => \/ mem[h].records[g].health = "Failed"
                         \/ ~Open(mem[h].records[g].rollbackDeadline, now)]_vars
    BY <1>1, StepKept, HonoursKeeps
  <1> QED BY <1>1, Invariance, RecordsMakeSense, InductiveHolds, PTL
          DEF Spec, RuntimesKept, LeasedGenerationKept, StandbyWindowHonoured, Inductive
=============================================================================
