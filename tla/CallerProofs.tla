---------------------------- MODULE CallerProofs ----------------------------
(***************************************************************************)
(* What callers of a running Generation rely on: the lease of an in-memory *)
(* Generation, the stream a lane keeps for them, and the call to a lane.   *)
(*                                                                         *)
(* Leases pin their Generation, for any number of Generations, leases and  *)
(* route switches.  What makes it inductive: the routed Generation is the  *)
(* one with an active slot; whoever holds a lease of the current epoch is  *)
(* on it, which a maintenance replacement must not break although it       *)
(* leaves the epoch (it waits for the leases of the slot that it takes     *)
(* out); and what is awaited has no slot.                                  *)
(*                                                                         *)
(* An action on a stream that crosses lanes reaches its own stream, for    *)
(* any number of streams and actions.  What makes it inductive: ids are    *)
(* drawn once (Drawn), and the table has a stream under its own id only    *)
(* (Filed), however the opens, the actions and the cleanup of streams that *)
(* were abandoned interleave.                                              *)
(*                                                                         *)
(* A call to a lane whose caller has gone is told so, and the shutdown of  *)
(* a replicated App says Ok of clean lanes only, for any number of lanes,  *)
(* calls and faults.  What makes it inductive: the queue has each task     *)
(* once and only of calls that were sent (QueueFits), and a failure that   *)
(* shutdown can overlook is one a monitor reported: a lane that panicked   *)
(* or lost its callers gives no answer (FailureFits).                      *)
(*                                                                         *)
(* The other streams callers have: the handles of a guest are the streams  *)
(* the Host keeps for it, for any number of them, because numbers are      *)
(* given in order (Numbered) and the cancel of an unfinished handle is     *)
(* never refused; and the outcome of a provided stream is its last word,   *)
(* because nothing is said once it is under way (LastWord).                *)
(***************************************************************************)
EXTENDS GenerationSupervisor, LaneStreams, LaneSet, GuestSdk, ProviderStream, SequenceTheorems,
        TLAPS

-----------------------------------------------------------------------------
(* Leases in memory                                                        *)

MemorySpec == MemoryInit /\ [][MemoryNext]_supervisor

SlotsOK ==
  /\ routingEpoch \in Nat /\ active \in Generations \cup {None} /\ live \subseteq Generations
  /\ slots \in [Generations -> {NoSlot} \cup [status: Statuses, staged: Nat \ {0}]]

HeldOK ==
  held \in [LeaseIds -> {NoLease} \cup [generation: Generations, epoch: Nat \ {0}, staged: Nat \ {0}]]

\* The route and the slots say the same, a slot has a runtime, and a route has an epoch.
RouteHasSlot ==
  /\ active # None => routingEpoch > 0
  /\ \A g \in Generations : slots[g].status = "Active" <=> active = g
  /\ \A g \in Generations : HasSlot(g) => g \in live

\* What is awaited is in no slot.
AwaitedOutside ==
  /\ pending = "stopping" => \A g \in Generations : edge.from = g => ~HasSlot(g)
  /\ pending \in {"stopping", "staging"} => edge.to \in Generations
  /\ pending = "staging" => ~HasSlot(edge.to)

\* A lease has the slot it was taken from, and no later epoch.
LeaseHasSlot(i) ==
  held[i] # NoLease =>
    /\ slots[held[i].generation].staged = held[i].staged
    /\ held[i].epoch <= routingEpoch
    /\ held[i].epoch = routingEpoch => held[i].generation = active

EpochsAgree ==
  \A i, j \in LeaseIds : held[i] # NoLease /\ held[j] # NoLease /\ held[i].epoch = held[j].epoch
                           => held[i].generation = held[j].generation

MemoryInv ==
  /\ SlotsOK /\ HeldOK /\ RouteHasSlot /\ AwaitedOutside
  /\ \A i \in LeaseIds : LeaseHasSlot(i)
  /\ EpochsAgree

-----------------------------------------------------------------------------

\* Before the first transition there is nothing to relate.
LEMMA MemoryInitially == None \notin Generations /\ MemoryInit => MemoryInv
BY DEF MemoryInit, MemoryInv, SlotsOK, HeldOK, RouteHasSlot, AwaitedOutside, LeaseHasSlot,
       EpochsAgree, HasSlot, NoSlot

\* A replacement that stops the active slot has waited for its leases.
LEMMA TransitionKeeps ==
  ASSUME None \notin Generations, MemoryInv, NEW e \in TransitionSpecs, Transition(e)
  PROVE  MemoryInv'
<1> USE DEF MemoryInv, Transition, StopActive, Unstaged, Admitted, ClosesOver, TransitionSpecs
<1>1. SlotsOK'
  BY DEF SlotsOK
<1>2. HeldOK'
  BY DEF HeldOK
<1>3. RouteHasSlot'
  BY DEF SlotsOK, RouteHasSlot, HasSlot, NoSlot
<1>4. AwaitedOutside'
  BY DEF SlotsOK, AwaitedOutside, HasSlot
<1>5. \A x \in LeaseIds : LeaseHasSlot(x)'
  BY DEF SlotsOK, HeldOK, LeaseHasSlot, LeasesOf
<1>6. EpochsAgree'
  BY DEF EpochsAgree
<1> QED
  BY <1>1, <1>2, <1>3, <1>4, <1>5, <1>6

\* The stopped Generation has no slot, and its runtime goes.
LEMMA StoppedKeeps ==
  ASSUME None \notin Generations, MemoryInv, NEW ok \in BOOLEAN, Stopped(ok)
  PROVE  MemoryInv'
<1> USE DEF MemoryInv, Stopped, Unstaged, NoEdge
<1>1. SlotsOK'
  BY DEF SlotsOK
<1>2. HeldOK'
  BY DEF HeldOK
<1>3. RouteHasSlot'
  BY DEF RouteHasSlot, AwaitedOutside, HasSlot
<1>4. AwaitedOutside'
  BY DEF AwaitedOutside, HasSlot
<1>5. \A x \in LeaseIds : LeaseHasSlot(x)'
  BY DEF LeaseHasSlot
<1>6. EpochsAgree'
  BY DEF EpochsAgree
<1> QED
  BY <1>1, <1>2, <1>3, <1>4, <1>5, <1>6

\* A candidate that fails leaves no trace.
LEMMA StageFailsKeeps ==
  ASSUME None \notin Generations, MemoryInv, StageFails
  PROVE  MemoryInv'
<1> USE DEF MemoryInv, StageFails, NoEdge
<1>1. SlotsOK'
  BY DEF SlotsOK
<1>2. HeldOK'
  BY DEF HeldOK
<1>3. RouteHasSlot'
  BY DEF RouteHasSlot, HasSlot
<1>4. AwaitedOutside'
  BY DEF AwaitedOutside
<1>5. \A x \in LeaseIds : LeaseHasSlot(x)'
  BY DEF LeaseHasSlot
<1>6. EpochsAgree'
  BY DEF EpochsAgree
<1> QED
  BY <1>1, <1>2, <1>3, <1>4, <1>5, <1>6

\* The next epoch is no lease's.
LEMMA StagedKeeps ==
  ASSUME None \notin Generations, MemoryInv, Staged
  PROVE  MemoryInv'
<1> USE DEF MemoryInv, Staged, NoEdge
<1>1. SlotsOK'
  <2>1. \A g \in Generations : slots'[g] \in {NoSlot} \cup [status: Statuses, staged: Nat \ {0}]
    BY DEF SlotsOK, RouteHasSlot, NoSlot, Statuses
  <2>2. routingEpoch' \in Nat /\ active' \in Generations \cup {None}
        /\ live' \subseteq Generations
    BY DEF SlotsOK, AwaitedOutside
  <2>3. slots' = [x \in Generations |-> slots'[x]]
    OBVIOUS
  <2> QED
    BY <2>1, <2>2, <2>3 DEF SlotsOK
<1>2. HeldOK'
  BY DEF HeldOK
<1>3. RouteHasSlot'
  BY DEF SlotsOK, RouteHasSlot, AwaitedOutside, HasSlot, NoSlot
<1>4. AwaitedOutside'
  BY DEF AwaitedOutside
<1>5. \A x \in LeaseIds : LeaseHasSlot(x)'
  BY DEF SlotsOK, HeldOK, AwaitedOutside, LeaseHasSlot, HasSlot, NoSlot
<1>6. EpochsAgree'
  BY DEF EpochsAgree
<1> QED
  BY <1>1, <1>2, <1>3, <1>4, <1>5, <1>6

\* What a dropped future leaves are the slots and the route.
LEMMA DroppedKeeps ==
  ASSUME None \notin Generations, MemoryInv, Dropped
  PROVE  MemoryInv'
<1> USE DEF MemoryInv, Dropped, NoEdge
<1>1. SlotsOK'
  BY DEF SlotsOK
<1>2. HeldOK'
  BY DEF HeldOK
<1>3. RouteHasSlot'
  BY DEF RouteHasSlot, HasSlot
<1>4. AwaitedOutside'
  BY DEF AwaitedOutside
<1>5. \A x \in LeaseIds : LeaseHasSlot(x)'
  BY DEF LeaseHasSlot
<1>6. EpochsAgree'
  BY DEF EpochsAgree
<1> QED
  BY <1>1, <1>2, <1>3, <1>4, <1>5, <1>6

\* A new lease has the active slot and the current epoch, as others of that epoch do.
LEMMA LeaseKeeps ==
  ASSUME None \notin Generations, MemoryInv, NEW i \in LeaseIds, Lease(i)
  PROVE  MemoryInv'
<1> USE DEF MemoryInv, Lease
<1>1. SlotsOK'
  BY DEF SlotsOK
<1>2. HeldOK'
  BY DEF SlotsOK, HeldOK, NoSlot, RouteHasSlot
<1>3. RouteHasSlot'
  BY DEF RouteHasSlot, HasSlot
<1>4. AwaitedOutside'
  BY DEF AwaitedOutside
<1>5. \A x \in LeaseIds : LeaseHasSlot(x)'
  BY DEF SlotsOK, LeaseHasSlot
<1>6. EpochsAgree'
  BY DEF LeaseHasSlot, EpochsAgree
<1> QED
  BY <1>1, <1>2, <1>3, <1>4, <1>5, <1>6

\* The other leases stay.
LEMMA DropLeaseKeeps ==
  ASSUME None \notin Generations, MemoryInv, NEW i \in LeaseIds, DropLease(i)
  PROVE  MemoryInv'
<1> USE DEF MemoryInv, DropLease
<1>1. SlotsOK'
  BY DEF SlotsOK
<1>2. HeldOK'
  BY DEF HeldOK
<1>3. RouteHasSlot'
  BY DEF RouteHasSlot, HasSlot
<1>4. AwaitedOutside'
  BY DEF AwaitedOutside, HasSlot
<1>5. \A x \in LeaseIds : LeaseHasSlot(x)'
  BY DEF LeaseHasSlot
<1>6. EpochsAgree'
  BY DEF EpochsAgree
<1> QED
  BY <1>1, <1>2, <1>3, <1>4, <1>5, <1>6

\* Going back takes a new epoch.
LEMMA RollbackKeeps ==
  ASSUME None \notin Generations, MemoryInv, NEW g \in Generations, Rollback(g)
  PROVE  MemoryInv'
<1> USE DEF MemoryInv, Rollback, StandsBy
<1>1. SlotsOK'
  <2>1. \A h \in Generations : slots'[h] \in {NoSlot} \cup [status: Statuses, staged: Nat \ {0}]
    BY DEF SlotsOK, RouteHasSlot, NoSlot, Statuses
  <2>2. routingEpoch' \in Nat /\ active' \in Generations \cup {None}
        /\ live' \subseteq Generations
    BY DEF SlotsOK
  <2>3. slots' = [x \in Generations |-> slots'[x]]
    OBVIOUS
  <2> QED
    BY <2>1, <2>2, <2>3 DEF SlotsOK
<1>2. HeldOK'
  BY DEF HeldOK
<1>3. RouteHasSlot'
  BY DEF SlotsOK, RouteHasSlot, HasSlot, NoSlot
<1>4. AwaitedOutside'
  BY DEF AwaitedOutside
<1>5. \A x \in LeaseIds : LeaseHasSlot(x)'
  BY DEF SlotsOK, HeldOK, LeaseHasSlot
<1>6. EpochsAgree'
  BY DEF EpochsAgree
<1> QED
  BY <1>1, <1>2, <1>3, <1>4, <1>5, <1>6

\* A slot that drains is still its leases' slot.
LEMMA CloseKeeps ==
  ASSUME None \notin Generations, MemoryInv, NEW g \in Generations, CloseRollbackWindow(g)
  PROVE  MemoryInv'
<1> USE DEF MemoryInv, CloseRollbackWindow, StandsBy
<1>1. SlotsOK'
  BY DEF SlotsOK, NoSlot, Statuses
<1>2. HeldOK'
  BY DEF HeldOK
<1>3. RouteHasSlot'
  BY DEF RouteHasSlot, HasSlot, NoSlot
<1>4. AwaitedOutside'
  BY DEF AwaitedOutside
<1>5. \A x \in LeaseIds : LeaseHasSlot(x)'
  BY DEF LeaseHasSlot
<1>6. EpochsAgree'
  BY DEF EpochsAgree
<1> QED
  BY <1>1, <1>2, <1>3, <1>4, <1>5, <1>6

\* A slot is taken out when it has no lease.
LEMMA RetireKeeps ==
  ASSUME None \notin Generations, MemoryInv, NEW g \in Generations, Retire(g)
  PROVE  MemoryInv'
<1> USE DEF MemoryInv, Retire
<1>1. SlotsOK'
  BY DEF SlotsOK
<1>2. HeldOK'
  BY DEF HeldOK
<1>3. RouteHasSlot'
  BY DEF RouteHasSlot, HasSlot, NoSlot
<1>4. AwaitedOutside'
  BY DEF AwaitedOutside
<1>5. \A x \in LeaseIds : LeaseHasSlot(x)'
  BY DEF LeaseHasSlot, LeasesOf
<1>6. EpochsAgree'
  BY DEF EpochsAgree
<1> QED
  BY <1>1, <1>2, <1>3, <1>4, <1>5, <1>6

\* The runtime of a Generation without a slot goes.
LEMMA RetiredKeeps ==
  ASSUME None \notin Generations, MemoryInv, Retired
  PROVE  MemoryInv'
<1> USE DEF MemoryInv, Retired
<1>1. SlotsOK'
  BY DEF SlotsOK
<1>2. HeldOK'
  BY DEF HeldOK
<1>3. RouteHasSlot'
  BY DEF RouteHasSlot, HasSlot
<1>4. AwaitedOutside'
  BY DEF AwaitedOutside
<1>5. \A x \in LeaseIds : LeaseHasSlot(x)'
  BY DEF LeaseHasSlot
<1>6. EpochsAgree'
  BY DEF EpochsAgree
<1> QED
  BY <1>1, <1>2, <1>3, <1>4, <1>5, <1>6

\* The invariant implies the property.
LEMMA PinFromInv == MemoryInv => LeasesPin
BY DEF MemoryInv, LeasesPin, HeldOK, RouteHasSlot, LeaseHasSlot, EpochsAgree, LeasesOf, HasSlot,
       NoSlot, NoLease

\* No step breaks the invariant.
LEMMA MemoryStep ==
  ASSUME None \notin Generations, MemoryInv, [MemoryNext]_supervisor PROVE MemoryInv'
<1>1. CASE MemoryNext
  BY <1>1, TransitionKeeps, StoppedKeeps, StageFailsKeeps, StagedKeeps, DroppedKeeps, LeaseKeeps,
     DropLeaseKeeps, RollbackKeeps, CloseKeeps, RetireKeeps, RetiredKeeps
  DEF MemoryNext
<1>2. CASE UNCHANGED supervisor
  BY <1>2 DEF supervisor, MemoryInv, SlotsOK, HeldOK, RouteHasSlot, AwaitedOutside, LeaseHasSlot,
              EpochsAgree, HasSlot
<1> QED
  BY <1>1, <1>2

\* The invariant holds in every reachable state.
LEMMA MemoryInvariance == None \notin Generations /\ MemorySpec => []MemoryInv
<1> SUFFICES ASSUME None \notin Generations PROVE MemorySpec => []MemoryInv
  OBVIOUS
<1>1. MemoryInit => MemoryInv
  BY MemoryInitially
<1>2. MemoryInv /\ [MemoryNext]_supervisor => MemoryInv'
  BY MemoryStep
<1> QED
  BY <1>1, <1>2, PTL DEF MemorySpec

\* Whoever holds a lease has its Generation, whatever transitions, rollbacks and retirements (also
\* given up half-way) happen meanwhile.
THEOREM LeasesKept == ASSUME None \notin Generations PROVE MemorySpec => []LeasesPin
BY MemoryInvariance, PinFromInv, PTL

-----------------------------------------------------------------------------
(* The refinement                                                          *)

\* The abstract stages have their type, before and after a step.
LEMMA StagesAreStages ==
  /\ \A g \in Generations : StageOf(g) \in Routing!Stages
  /\ \A g \in Generations : (StageOf(g) \in Routing!Stages)'
BY DEF StageOf, Routing!Stages

\* The routed Generation is the one whose slot is active.
LEMMA RouteIsConsistent ==
  ASSUME None \notin Generations, MemoryInv PROVE Routing!Consistent
<1>1. \A g \in Generations : StageOf(g) = "routed" <=> slots[g].status = "Active"
  BY DEF MemoryInv, AwaitedOutside, HasSlot, StageOf, NoSlot
<1>2. \A g \in Generations : StageOf(g) = "routed" <=> active = g
  BY <1>1 DEF MemoryInv, RouteHasSlot
<1>3. active \in Generations \cup {None}
  BY DEF MemoryInv, SlotsOK
<1> QED
  BY <1>2, <1>3 DEF Routing!Consistent

\* What only falls back is a Withdraw of the abstract routing.
LEMMA Withdrawn ==
  ASSUME Routing!Consistent', active' \in {active, None}, routingEpoch' = routingEpoch,
         \A g \in Generations : \/ StageOf(g)' = StageOf(g) \/ StageOf(g)' = "unknown"
                                \/ StageOf(g) = "routed" /\ StageOf(g)' = "kept"
  PROVE  Routing!Next
BY StagesAreStages DEF Routing!Next, Routing!Withdraw, Routing!FallBack

\* What makes a candidate is a Nominate.
LEMMA Nominated ==
  ASSUME Routing!Consistent', active' = active, routingEpoch' = routingEpoch,
         NEW g \in Generations, StageOf(g) = "unknown", StageOf(g)' = "candidate",
         \A h \in Generations \ {g} : StageOf(h)' = StageOf(h)
  PROVE  Routing!Next
BY DEF Routing!Next, Routing!Nominate

\* What routes a candidate or a standby under the next epoch is a Switch.
LEMMA Switched ==
  ASSUME Routing!Consistent', NEW g \in Generations, active' = g, routingEpoch' = routingEpoch + 1,
         StageOf(g) \in {"candidate", "kept"}, StageOf(g)' = "routed",
         \A h \in Generations \ {g} : \/ StageOf(h)' = StageOf(h) \/ StageOf(h)' = "unknown"
                                      \/ StageOf(h) = "routed" /\ StageOf(h)' = "kept"
  PROVE  Routing!Next
BY StagesAreStages DEF Routing!Next, Routing!Switch, Routing!FallBack

\* A transition withdraws the route (maintenance) or nominates its candidate.
LEMMA TransitionRoutes ==
  ASSUME MemoryInv, Routing!Consistent', NEW e \in TransitionSpecs, Transition(e)
  PROVE  Routing!Next
<1> USE DEF MemoryInv, SlotsOK, Transition, TransitionSpecs, StageOf
<1>1. CASE StopActive(e)
  BY <1>1, Withdrawn DEF StopActive, NoSlot
<1>2. CASE ~StopActive(e)
  BY <1>2, Nominated DEF Unstaged, HasSlot, NoSlot
<1> QED
  BY <1>1, <1>2

\* After the shutdown the candidate is nominated, or nothing is.
LEMMA StoppedRoutes ==
  ASSUME MemoryInv, Routing!Consistent', NEW ok \in BOOLEAN, Stopped(ok)
  PROVE  [Routing!Next]_Routing!routing
<1> USE DEF MemoryInv, SlotsOK, AwaitedOutside, Stopped, StageOf
<1>1. CASE pending' = "staging"
  BY <1>1, Nominated DEF Unstaged, HasSlot, NoSlot
<1>2. CASE pending' = "none"
  BY <1>2 DEF Routing!routing
<1> QED
  BY <1>1, <1>2

\* A staged candidate is switched to.
LEMMA StagedRoutes ==
  ASSUME None \notin Generations, MemoryInv, Routing!Consistent', Staged PROVE Routing!Next
<1> USE DEF MemoryInv, SlotsOK, AwaitedOutside, RouteHasSlot, Staged
<1>1. PICK g \in Generations : g = edge.to
  OBVIOUS
<1>2. g # active /\ slots[g] = NoSlot
  BY <1>1 DEF HasSlot, NoSlot
<1>3. StageOf(g) = "candidate"
  BY <1>1, <1>2 DEF StageOf
<1>4. slots'[g].status = "Active" /\ active' = g /\ routingEpoch' = routingEpoch + 1
  <2>1. slots'[g] = [status |-> "Active", staged |-> routingEpoch + 1]
    BY <1>1, <1>2
  <2> QED
    BY <1>1, <2>1
<1>5. StageOf(g)' = "routed"
  BY <1>4 DEF StageOf
<1>6. ASSUME NEW h \in Generations \ {g}
      PROVE  \/ StageOf(h)' = StageOf(h) \/ StageOf(h)' = "unknown"
             \/ StageOf(h) = "routed" /\ StageOf(h)' = "kept"
  <2>1. CASE h = active
    BY <1>1, <2>1 DEF StageOf
  <2>2. CASE h # active
    BY <1>1, <2>2 DEF StageOf
  <2> QED
    BY <2>1, <2>2
<1> QED
  BY <1>3, <1>4, <1>5, <1>6, Switched

\* A rollback switches to a standby.
LEMMA RollbackRoutes ==
  ASSUME None \notin Generations, MemoryInv, Routing!Consistent', NEW g \in Generations, Rollback(g)
  PROVE  Routing!Next
<1> USE DEF MemoryInv, SlotsOK, RouteHasSlot, Rollback, StandsBy
<1>1. StageOf(g) = "kept" /\ StageOf(g)' = "routed"
  BY DEF StageOf
<1>2. ASSUME NEW h \in Generations \ {g}
      PROVE  StageOf(h)' = StageOf(h) \/ StageOf(h)' = "unknown"
  <2>1. CASE h = active
    BY <2>1 DEF StageOf, NoSlot
  <2>2. CASE h # active
    BY <2>2 DEF StageOf
  <2> QED
    BY <2>1, <2>2
<1> QED
  BY <1>1, <1>2, Switched

\* A candidate that is given up is forgotten.
LEMMA FallsBack ==
  ASSUME MemoryInv, Routing!Consistent', StageFails \/ Dropped PROVE Routing!Next
<1>1. \A g \in Generations : StageOf(g)' = StageOf(g) \/ StageOf(g)' = "unknown"
  BY DEF MemoryInv, AwaitedOutside, HasSlot, StageFails, Dropped, StageOf, NoSlot
<1> QED
  BY <1>1, Withdrawn DEF StageFails, Dropped

\* A closed window is a standby forgotten.
LEMMA CloseRoutes ==
  ASSUME MemoryInv, Routing!Consistent', NEW g \in Generations, CloseRollbackWindow(g)
  PROVE  Routing!Next
<1> USE DEF MemoryInv, SlotsOK, CloseRollbackWindow, StandsBy
<1>1. \A h \in Generations : StageOf(h)' = StageOf(h) \/ StageOf(h)' = "unknown"
  BY DEF StageOf
<1> QED
  BY <1>1, Withdrawn

\* Leases and retirements do not show.
LEMMA Unnoticed ==
  ASSUME MemoryInv,
         \/ Retired \/ \E g \in Generations : Retire(g)
         \/ \E i \in LeaseIds : Lease(i) \/ DropLease(i)
         \/ UNCHANGED supervisor
  PROVE  UNCHANGED Routing!routing
<1>1. UNCHANGED <<active, routingEpoch>>
  BY DEF Retired, Retire, Lease, DropLease, supervisor
<1>2. \A g \in Generations : StageOf(g)' = StageOf(g)
  BY DEF MemoryInv, SlotsOK, Retired, Retire, Lease, DropLease, supervisor, StageOf, NoSlot
<1> QED
  BY <1>1, <1>2 DEF Routing!routing

\* Every step is a step of the abstract routing, or none.
LEMMA MemoryRoutes ==
  ASSUME None \notin Generations, MemoryInv, [MemoryNext]_supervisor
  PROVE  [Routing!Next]_Routing!routing
<1>1. Routing!Consistent'
  <2>1. MemoryInv'
    BY MemoryStep
  <2> QED
    BY <2>1, RouteIsConsistent, PTL
<1> QED
  BY <1>1, TransitionRoutes, StoppedRoutes, StagedRoutes, RollbackRoutes, FallsBack, CloseRoutes,
     Unnoticed
  DEF MemoryNext

\* The in-memory Supervisor promises its callers what the durable one promises: one routed
\* Generation, a new epoch for every switch, and no way back but from a standby.
THEOREM SupervisorRoutes == ASSUME None \notin Generations PROVE MemorySpec => RoutesAlike
<1>1. MemoryInit => Routing!Init
  BY DEF MemoryInit, Routing!Init, StageOf, NoSlot
<1>2. MemoryInv /\ [MemoryNext]_supervisor => [Routing!Next]_Routing!routing
  BY MemoryRoutes
<1> QED
  BY <1>1, <1>2, MemoryInvariance, PTL DEF MemorySpec, RoutesAlike, Routing!Spec

-----------------------------------------------------------------------------
(* Streams between lanes                                                   *)

StreamSpec == StreamInit /\ [][StreamNext]_streamVars

\* A session has an id before anything is opened or done under it, and nobody else has it.
Drawn ==
  /\ nextSession \in Nat \ {0} /\ id \in [Streams -> Nat]
  /\ \A s \in Streams : consumer[s] = "new" <=> id[s] = 0
  /\ \A s \in Streams : id[s] < nextSession
  /\ \A s, t \in Streams : id[s] = id[t] /\ id[s] # 0 => s = t

Typed ==
  /\ consumer \in [Streams -> {"new", "sending", "opening", "open", "acting", "gone"}]
  /\ opening \in [Streams -> {"none", "queued", "opening", "opened", "refused", "dropped"}]
  /\ action \in [Streams -> {"none", "queued", "running", "answered", "dropped"}]
  /\ acting \in [Streams -> SUBSET Streams]

Begun == \A s \in Streams : opening[s] # "none" \/ action[s] # "none" => consumer[s] # "new"

\* The table has a stream under its own id.
Filed == \A i \in DOMAIN table : table[i] \in Streams /\ id[table[i]] = i /\ i # 0

StreamInv == Drawn /\ Typed /\ Begun /\ Filed /\ OwnStream

-----------------------------------------------------------------------------
\* At first there is no stream.
LEMMA StreamInitially == StreamInit => StreamInv
BY DEF StreamInit, StreamInv, Drawn, Typed, Begun, Filed, OwnStream

\* A stream is opened: its id is drawn.
LEMMA OpenKeeps == ASSUME StreamInv, NEW s \in Streams, Open(s) PROVE StreamInv'
<1> USE DEF StreamInv, Open, Moves, Draw
<1>1. Drawn'
  BY DEF Drawn, Typed
<1>2. Typed'
  BY DEF Typed
<1>3. Begun'
  BY DEF Begun
<1>4. Filed'
  BY DEF Drawn, Filed
<1>5. OwnStream'
  BY DEF OwnStream
<1> QED
  BY <1>1, <1>2, <1>3, <1>4, <1>5

\* The request to open goes to the provider's lane, or nowhere.
LEMMA SendOpenKeeps == ASSUME StreamInv, NEW s \in Streams, SendOpen(s) PROVE StreamInv'
<1> USE DEF StreamInv, SendOpen, Moves, Abandons
<1>1. Drawn'
  BY DEF Drawn, Typed
<1>2. Typed'
  BY DEF Typed
<1>3. Begun'
  BY DEF Typed, Begun
<1>4. Filed'
  BY DEF Filed
<1>5. OwnStream'
  BY DEF OwnStream
<1> QED
  BY <1>1, <1>2, <1>3, <1>4, <1>5

\* The consumer gives up an open.
LEMMA GiveUpOpenKeeps == ASSUME StreamInv, NEW s \in Streams, GiveUpOpen(s) PROVE StreamInv'
<1> USE DEF StreamInv, GiveUpOpen, Moves, Abandons
<1>1. Drawn'
  BY DEF Drawn
<1>2. Typed'
  BY DEF Typed
<1>3. Begun'
  BY DEF Begun
<1>4. Filed'
  BY DEF Filed
<1>5. OwnStream'
  BY DEF OwnStream
<1> QED
  BY <1>1, <1>2, <1>3, <1>4, <1>5

\* The consumer hears that the stream is open, or is not.
LEMMA FinishOpenKeeps == ASSUME StreamInv, NEW s \in Streams, FinishOpen(s) PROVE StreamInv'
<1> USE DEF StreamInv, FinishOpen, Moves, Abandons, Accept
<1>1. Drawn'
  BY DEF Drawn, Typed
<1>2. Typed'
  BY DEF Typed
<1>3. Begun'
  BY DEF Typed, Begun
<1>4. Filed'
  BY DEF Filed
<1>5. OwnStream'
  BY DEF OwnStream
<1> QED
  BY <1>1, <1>2, <1>3, <1>4, <1>5

\* The consumer sends, receives or closes.
LEMMA ActKeeps == ASSUME StreamInv, NEW s \in Streams, Act(s) PROVE StreamInv'
<1> USE DEF StreamInv, Act, Moves
<1>1. Drawn'
  BY DEF Drawn, Typed
<1>2. Typed'
  BY DEF Typed
<1>3. Begun'
  BY DEF Typed, Begun
<1>4. Filed'
  BY DEF Filed
<1>5. OwnStream'
  BY DEF OwnStream
<1> QED
  BY <1>1, <1>2, <1>3, <1>4, <1>5

\* The consumer hears the end of its action.
LEMMA HearActionKeeps == ASSUME StreamInv, NEW s \in Streams, HearAction(s) PROVE StreamInv'
<1> USE DEF StreamInv, HearAction, Moves
<1>1. Drawn'
  BY DEF Drawn
<1>2. Typed'
  BY DEF Typed
<1>3. Begun'
  BY DEF Begun
<1>4. Filed'
  BY DEF Filed
<1>5. OwnStream'
  BY DEF OwnStream
<1> QED
  BY <1>1, <1>2, <1>3, <1>4, <1>5

\* The consumer lets go of the stream.
LEMMA ReleaseKeeps == ASSUME StreamInv, NEW s \in Streams, Release(s) PROVE StreamInv'
<1> USE DEF StreamInv, Release, Moves, Abandons
<1>1. Drawn'
  BY DEF Drawn
<1>2. Typed'
  BY DEF Typed
<1>3. Begun'
  BY DEF Begun
<1>4. Filed'
  BY DEF Filed
<1>5. OwnStream'
  BY DEF OwnStream
<1> QED
  BY <1>1, <1>2, <1>3, <1>4, <1>5

\* The provider takes an open.
LEMMA StartOpenKeeps == ASSUME StreamInv, NEW s \in Streams, StartOpen(s) PROVE StreamInv'
<1> USE DEF StreamInv, StartOpen, Moves
<1>1. Drawn'
  BY DEF Drawn
<1>2. Typed'
  BY DEF Typed
<1>3. Begun'
  BY DEF Begun
<1>4. Filed'
  BY DEF Filed
<1>5. OwnStream'
  BY DEF OwnStream
<1> QED
  BY <1>1, <1>2, <1>3, <1>4, <1>5

\* The provider opens the stream and files it, or refuses.
LEMMA EndOpenKeeps == ASSUME StreamInv, NEW s \in Streams, EndOpen(s) PROVE StreamInv'
<1> USE DEF StreamInv, EndOpen, Moves, Keeps
<1>1. Drawn'
  BY DEF Drawn
<1>2. Typed'
  BY DEF Typed
<1>3. Begun'
  BY DEF Typed, Begun
<1>4. Filed'
  BY DEF Drawn, Begun, Filed
<1>5. OwnStream'
  BY DEF OwnStream
<1> QED
  BY <1>1, <1>2, <1>3, <1>4, <1>5

\* The provider cleans up a stream that was abandoned.
LEMMA CleansKeeps == ASSUME StreamInv, NEW s \in Streams, Cleans(s) PROVE StreamInv'
<1> USE DEF StreamInv, Cleans, Moves, Removed, Restrict
<1>1. Drawn'
  BY DEF Drawn
<1>2. Typed'
  BY DEF Typed
<1>3. Begun'
  BY DEF Begun
<1>4. Filed'
  BY DEF Filed
<1>5. OwnStream'
  BY DEF OwnStream
<1> QED
  BY <1>1, <1>2, <1>3, <1>4, <1>5

\* The provider takes an action, under the id it names.
LEMMA StartActionKeeps == ASSUME StreamInv, NEW s \in Streams, StartAction(s) PROVE StreamInv'
<1> USE DEF StreamInv, StartAction, Moves
<1>1. Drawn'
  BY DEF Drawn
<1>2. Typed'
  BY DEF Typed, Filed
<1>3. Begun'
  BY DEF Typed, Begun
<1>4. Filed'
  BY DEF Filed
<1>5. OwnStream'
  BY DEF Drawn, Typed, Filed, OwnStream
<1> QED
  BY <1>1, <1>2, <1>3, <1>4, <1>5

\* The provider ends an action.
LEMMA EndActionKeeps == ASSUME StreamInv, NEW s \in Streams, EndAction(s) PROVE StreamInv'
<1> USE DEF StreamInv, EndAction, Moves, Removed, Restrict
<1>1. Drawn'
  BY DEF Drawn
<1>2. Typed'
  BY DEF Typed
<1>3. Begun'
  BY DEF Begun
<1>4. Filed'
  BY DEF Filed
<1>5. OwnStream'
  BY DEF OwnStream
<1> QED
  BY <1>1, <1>2, <1>3, <1>4, <1>5

\* A lane that ends leaves no table and no action.
LEMMA LaneEndsKeeps == ASSUME StreamInv, LaneEnds PROVE StreamInv'
BY DEF StreamInv, LaneEnds, Drawn, Typed, Begun, Filed, OwnStream

\* No step breaks the invariant.
LEMMA StreamStep == StreamInv /\ [StreamNext]_streamVars => StreamInv'
<1> SUFFICES ASSUME StreamInv, [StreamNext]_streamVars PROVE StreamInv'
  OBVIOUS
<1>1. CASE StreamNext
  BY <1>1, OpenKeeps, SendOpenKeeps, GiveUpOpenKeeps, FinishOpenKeeps, ActKeeps, HearActionKeeps,
     ReleaseKeeps, StartOpenKeeps, EndOpenKeeps, CleansKeeps, StartActionKeeps, EndActionKeeps,
     LaneEndsKeeps
  DEF StreamNext, StreamConsumer, StreamProvider
<1>2. CASE UNCHANGED streamVars
  BY <1>2 DEF streamVars, StreamInv, Drawn, Typed, Begun, Filed, OwnStream
<1> QED
  BY <1>1, <1>2

\* A send, receive or close of a stream between lanes (interaction_transfer.rs) never reaches a
\* stream of another consumer, whatever is opened, abandoned and cleaned up meanwhile.
THEOREM OwnStreamOnly == StreamSpec => []OwnStream
<1>1. StreamSpec => []StreamInv
  BY StreamInitially, StreamStep, PTL DEF StreamSpec
<1> QED
  BY <1>1, PTL DEF StreamInv
-----------------------------------------------------------------------------
(* Calls to the lanes of a replicated App                                  *)

LaneSpec == LaneInit /\ [][LaneNext]_laneVars

LaneAnswers == {"none", "failed", "unavailable", "gaveup", "answered", "dropped"}

CallsTyped ==
  /\ queue \in Seq(LaneCallers) /\ signalled \subseteq LaneCallers
  /\ call \in [LaneCallers -> [at: {"new", "sending", "sent", "gone", "done"}, answer: LaneAnswers]]
  /\ task \in [LaneCallers -> {"none", "queued", "taken", "running", "ended", "dropped"}]
  /\ watch \in [LaneCalls -> {"idle", "checked", "registered", "parked", "told"}]

\* The queue has each task once, and none of a call that was not sent.
QueueFits ==
  /\ \A c \in LaneCallers : call[c].at \in {"new", "sending"} => task[c] = "none"
  /\ \A k \in 1..Len(queue) : task[queue[k]] = "queued"
  /\ \A k, l \in 1..Len(queue) : queue[k] = queue[l] => k = l

CallsInv == CallsTyped /\ QueueFits /\ OrphansKnowIt

\* A lane answers when it ends, and a failure of the App is of a lane that gave no answer, or
\* was seen by its monitor.
FailureFits ==
  failure # NoFailure =>
    \E l \in Lanes :
      \/ failure = <<"runtime", l>>
      \/ failure = <<"panicked", l>> /\ thread[l] = "ended" /\ outcome[l] = "none"
      \/ /\ failure = <<"unavailable", l>> /\ thread[l] \in {"failing", "unwound", "ended"}
         /\ outcome[l] = "none"

ThreadsInv ==
  /\ thread \in [Lanes -> {"none", "assembling", "starting", "loop", "stopping", "failing",
                           "unwound", "ended"}]
  /\ outcome \in [Lanes -> {"none", "clean", "unclean"}] /\ next \in Nat
  /\ owner = "spawning" => \A l \in Lanes : l >= next => thread[l] = "none"
  /\ \A l \in Lanes : outcome[l] # "none" => thread[l] = "ended"
  /\ FailureFits
  /\ result = "ok" => owner = "closed"
  /\ OkMeansClean

-----------------------------------------------------------------------------
\* A step that leaves the calls alone.
LEMMA CallsUntouched == ASSUME CallsInv, UNCHANGED callVars PROVE CallsInv'
  BY DEF CallsInv, callVars, CallsTyped, QueueFits, OrphansKnowIt

\* A call moves on the caller's side.
LEMMA SaidCalls ==
  ASSUME CallsInv, NEW c \in LaneCallers,
         NEW at \in {"new", "sending", "sent", "gone", "done"}, NEW answer \in LaneAnswers,
         Says(c, at, answer)
  PROVE  /\ call' \in [LaneCallers ->
                         [at: {"new", "sending", "sent", "gone", "done"}, answer: LaneAnswers]]
         /\ call'[c].at = at /\ \A d \in LaneCallers : d # c => call'[d] = call[d]
  BY DEF CallsInv, CallsTyped, Says

\* A cancellation is stored: whoever waits for it is woken.
LEMMA Signalled ==
  ASSUME CallsInv, NEW cs \in SUBSET LaneCallers, Signals(cs)
  PROVE  /\ signalled' = signalled \union cs /\ signalled' \subseteq LaneCallers
         /\ watch' \in [LaneCalls -> {"idle", "checked", "registered", "parked", "told"}]
         /\ \A c \in LaneCalls : watch'[c] = "parked" => watch[c] = "parked"
         /\ \A c \in LaneCalls : c \in signalled' /\ task[c] = "running" => watch'[c] # "parked"
  BY DEF CallsInv, CallsTyped, OrphansKnowIt, Signals, Wakes

\* A lane unwinds: its queue and tasks are dropped, and so are the calls it makes, with a signal.
LEMMA UnwindKeeps ==
  ASSUME CallsInv, NEW l \in Lanes, Abandoned(l), Orphaned(l)
  PROVE  CallsInv'
  <1>1. /\ queue' \in Seq(LaneCallers)
        /\ task' \in [LaneCallers -> {"none", "queued", "taken", "running", "ended", "dropped"}]
        /\ \A c \in LaneCallers : /\ task'[c] \in {task[c], "dropped"}
                                  /\ task[c] = "none" => task'[c] = "none"
        /\ \A k \in 1..Len(queue') : task'[queue'[k]] = "queued"
        /\ \A k, j \in 1..Len(queue') : queue'[k] = queue'[j] => k = j
    <2>1. CASE l # Provider
      BY <2>1 DEF Abandoned, CallsInv, CallsTyped, QueueFits
    <2>2. CASE l = Provider
      <3>1. queue' = <<>> /\ Len(queue') = 0
        BY <2>2 DEF Abandoned
      <3>2. task' = [c \in LaneCallers |->
                      IF task[c] \in {"none", "ended"} THEN task[c] ELSE "dropped"]
        BY <2>2 DEF Abandoned
      <3>3. queue' \in Seq(LaneCallers)
        BY <3>1
      <3> QED BY <3>1, <3>2, <3>3 DEF CallsInv, CallsTyped
    <2> QED BY <2>1, <2>2
  <1>2. CASE l # Caller
    BY <1>1, <1>2 DEF Orphaned, CallsInv, CallsTyped, QueueFits, OrphansKnowIt
  <1>3. CASE l = Caller
    <2>1. Guarded \in SUBSET LaneCallers /\ Signals(Guarded)
      BY <1>3 DEF Guarded, LaneCallers, Orphaned
    <2>2. call' = [c \in LaneCallers |-> IF c \in Guarded THEN [at |-> "gone", answer |-> "none"]
                                        ELSE call[c]]
      BY <1>3 DEF Orphaned
    <2>3. call' \in [LaneCallers ->
                       [at: {"new", "sending", "sent", "gone", "done"}, answer: LaneAnswers]]
      BY <2>2 DEF CallsInv, CallsTyped, LaneAnswers
    <2>4. \A c \in LaneCallers : IF c \in Guarded THEN call'[c].at = "gone" ELSE call'[c] = call[c]
      BY <2>2
    <2>5. CallsTyped'
      BY <1>1, <2>1, <2>3, Signalled DEF CallsTyped
    <2>6. QueueFits'
      BY <1>1, <2>4 DEF CallsInv, QueueFits
    <2>7. OrphansKnowIt'
      <3>1. \A c \in LaneCallers : call'[c].at \in {"gone", "done"}
              /\ task'[c] \in {"queued", "taken", "running"} => c \in signalled'
        BY <1>1, <2>1, <2>4, Signalled DEF CallsInv, OrphansKnowIt
      <3>2. \A c \in LaneCalls : c \in signalled' /\ task'[c] = "running" => watch'[c] # "parked"
        BY <1>1, <2>1, Signalled DEF LaneCallers
      <3> QED BY <3>1, <3>2 DEF OrphansKnowIt
    <2> QED BY <2>5, <2>6, <2>7 DEF CallsInv
  <1> QED BY <1>2, <1>3

\* What a call does: a case for each kind of step.
LEMMA CallKeeps ==
  ASSUME CallsInv, NEW c \in LaneCallers,
         BeginCall(c) \/ SendTask(c) \/ GiveUp(c) \/ CancelStarted(c) \/ Hear(c)
  PROVE  CallsInv'
  <1>0. /\ {"none", "failed", "unavailable", "gaveup", "answered", "dropped"} \subseteq LaneAnswers
        /\ {c} \in SUBSET LaneCallers /\ ({c} \intersect LaneCalls) \in SUBSET LaneCallers
        /\ {} \in SUBSET LaneCallers
    BY DEF LaneAnswers
  <1> DEFINE Moved(to) ==
        /\ call' \in [LaneCallers ->
                        [at: {"new", "sending", "sent", "gone", "done"}, answer: LaneAnswers]]
        /\ call'[c].at \in to /\ \A d \in LaneCallers : d # c => call'[d] = call[d]
  <1>6. CASE Moved({"sending", "done"}) /\ task[c] \in {"none", "ended", "dropped"}
             /\ (call'[c].at = "sending" => task[c] = "none") /\ UNCHANGED <<queue, task>>
             /\ (UNCHANGED <<signalled, watch>> \/ \E cs \in SUBSET LaneCallers : Signals(cs))
    <2>1. /\ signalled \subseteq signalled' /\ signalled' \subseteq LaneCallers
          /\ watch' \in [LaneCalls -> {"idle", "checked", "registered", "parked", "told"}]
          /\ \A d \in LaneCalls : d \in signalled' /\ task[d] = "running" => watch'[d] # "parked"
      <3>1. CASE UNCHANGED <<signalled, watch>>
        BY <3>1 DEF CallsInv, CallsTyped, OrphansKnowIt
      <3>2. CASE \E cs \in SUBSET LaneCallers : Signals(cs)
        BY <3>2, Signalled
      <3> QED BY <1>6, <3>1, <3>2
    <2>2. CallsTyped'
      BY <1>6, <2>1 DEF CallsInv, CallsTyped
    <2>3. QueueFits'
      BY <1>6 DEF CallsInv, QueueFits
    <2>4. OrphansKnowIt'
      BY <1>6, <2>1 DEF CallsInv, OrphansKnowIt
    <2> QED BY <2>2, <2>3, <2>4 DEF CallsInv
  <1>1. CASE BeginCall(c)
    <2>1. \E answer \in LaneAnswers, at \in {"done", "sending"} : Says(c, at, answer)
      BY <1>0, <1>1 DEF BeginCall
    <2>2. UNCHANGED <<queue, task, signalled, watch>> /\ task[c] = "none"
      BY <1>1 DEF BeginCall, CallsInv, QueueFits
    <2>3. Moved({"sending", "done"})
      BY <2>1, SaidCalls
    <2> QED BY <1>6, <2>2, <2>3
  <1>2. CASE SendTask(c)
    <2>1. task[c] = "none" /\ call[c].at = "sending"
      BY <1>2 DEF SendTask, CallsInv, QueueFits
    <2>2. CASE ~Receiving
      <3>1. /\ Says(c, "done", "unavailable") /\ Signals({c} \intersect LaneCalls)
            /\ UNCHANGED <<queue, task>>
        BY <1>2, <2>2 DEF SendTask
      <3>2. Moved({"done"})
        BY <1>0, <3>1, SaidCalls
      <3> QED BY <1>0, <1>6, <2>1, <3>1, <3>2
    <2>3. CASE Receiving
      <3>1. /\ queue' = Append(queue, c) /\ Tasks(c, "queued") /\ Says(c, "sent", "none")
            /\ UNCHANGED <<signalled, watch>>
        BY <1>2, <2>3 DEF SendTask
      <3>2. /\ queue' \in Seq(LaneCallers) /\ Len(queue') = Len(queue) + 1 /\ Len(queue) \in Nat
            /\ \A k \in 1..Len(queue) : queue'[k] = queue[k] /\ queue[k] \in LaneCallers
            /\ queue'[Len(queue) + 1] = c
        BY <3>1 DEF CallsInv, CallsTyped
      <3>3. /\ task' \in [LaneCallers -> {"none", "queued", "taken", "running", "ended", "dropped"}]
            /\ task'[c] = "queued" /\ \A d \in LaneCallers : d # c => task'[d] = task[d]
        BY <3>1 DEF CallsInv, CallsTyped, Tasks
      <3>4. \A k \in 1..Len(queue) : queue[k] # c
        BY <2>1 DEF CallsInv, QueueFits
      <3>5. CallsTyped' /\ OrphansKnowIt'
        BY <1>0, <3>1, <3>2, <3>3, SaidCalls DEF CallsInv, CallsTyped, OrphansKnowIt
      <3>6. QueueFits'
        <4>1. \A d \in LaneCallers : call'[d].at \in {"new", "sending"} => task'[d] = "none"
          BY <1>0, <3>1, <3>3, SaidCalls DEF CallsInv, QueueFits
        <4>2. \A k \in 1..Len(queue') : k \in 1..Len(queue) \/ k = Len(queue) + 1
          BY <3>2
        <4>3. \A k \in 1..Len(queue') : task'[queue'[k]] = "queued"
          BY <3>2, <3>3, <3>4, <4>2 DEF CallsInv, QueueFits
        <4>4. \A k, l \in 1..Len(queue') : queue'[k] = queue'[l] => k = l
          BY <3>2, <3>4, <4>2 DEF CallsInv, QueueFits
        <4> QED BY <4>1, <4>3, <4>4 DEF QueueFits
      <3> QED BY <3>5, <3>6 DEF CallsInv
    <2> QED BY <2>2, <2>3
  <1>3. CASE GiveUp(c)
    <2>1. Says(c, "done", "gaveup") /\ Signals({c}) /\ UNCHANGED <<queue, task>>
      BY <1>3 DEF GiveUp
    <2>2. Moved({"done"})
      BY <1>0, <2>1, SaidCalls
    <2>3. /\ signalled' = signalled \union {c} /\ signalled' \subseteq LaneCallers
          /\ watch' \in [LaneCalls -> {"idle", "checked", "registered", "parked", "told"}]
          /\ \A d \in LaneCalls : d \in signalled' /\ task[d] = "running" => watch'[d] # "parked"
      BY <1>0, <2>1, Signalled
    <2>4. CallsTyped'
      BY <2>1, <2>2, <2>3 DEF CallsInv, CallsTyped
    <2>5. QueueFits'
      BY <2>1, <2>2 DEF CallsInv, QueueFits
    <2>6. OrphansKnowIt'
      BY <2>1, <2>2, <2>3 DEF CallsInv, OrphansKnowIt
    <2> QED BY <2>4, <2>5, <2>6 DEF CallsInv
  <1>4. CASE CancelStarted(c)
    <2>1. Signals({c}) /\ UNCHANGED <<queue, task, call>>
      BY <1>4 DEF CancelStarted
    <2>2. CallsTyped' /\ QueueFits' /\ OrphansKnowIt'
      BY <1>0, <2>1, Signalled DEF CallsInv, CallsTyped, QueueFits, OrphansKnowIt
    <2> QED BY <2>2 DEF CallsInv
  <1>5. CASE Hear(c)
    <2>1. /\ \E answer \in LaneAnswers : Says(c, "done", answer)
          /\ \E cs \in SUBSET LaneCallers : Signals(cs)
          /\ UNCHANGED <<queue, task>> /\ task[c] \in {"ended", "dropped"}
      BY <1>0, <1>5 DEF Hear, Settled
    <2>2. Moved({"done"})
      BY <1>0, <2>1, SaidCalls
    <2> QED BY <1>6, <2>1, <2>2
  <1> QED BY <1>1, <1>2, <1>3, <1>4, <1>5

\* The provider takes a task out of the queue and works at it.
LEMMA TaskKeeps == ASSUME CallsInv, TaskStep PROVE CallsInv'
  <1>1. CASE TakeTask
    <2> DEFINE c == Head(queue)
    <2>1. /\ Tasks(c, "taken") /\ queue' = Tail(queue) /\ queue # <<>>
          /\ UNCHANGED <<call, signalled, watch>>
      BY <1>1 DEF TakeTask
    <2>2. /\ c \in LaneCallers /\ c = queue[1] /\ Len(queue) \in Nat /\ Len(queue) >= 1
          /\ queue' \in Seq(LaneCallers) /\ Len(queue') = Len(queue) - 1
          /\ \A k \in 1..Len(queue') : queue'[k] = queue[k + 1] /\ k + 1 \in 1..Len(queue)
                                       /\ queue[k + 1] \in LaneCallers
      BY <2>1 DEF CallsInv, CallsTyped
    <2> HIDE DEF c
    <2>3. /\ task' \in [LaneCallers -> {"none", "queued", "taken", "running", "ended", "dropped"}]
          /\ task'[c] = "taken" /\ \A d \in LaneCallers : d # c => task'[d] = task[d]
      BY <2>1, <2>2 DEF CallsInv, CallsTyped, Tasks
    <2>4. task[c] = "queued" /\ \A k \in 1..Len(queue') : queue[k + 1] # c
      BY <2>2 DEF CallsInv, QueueFits
    <2>5. CallsTyped' /\ OrphansKnowIt'
      BY <2>1, <2>2, <2>3, <2>4 DEF CallsInv, CallsTyped, OrphansKnowIt
    <2>6. QueueFits'
      <3>1. \A k \in 1..Len(queue') : task'[queue'[k]] = "queued"
        BY <2>2, <2>3, <2>4 DEF CallsInv, QueueFits
      <3>2. ASSUME NEW k \in 1..Len(queue'), NEW l \in 1..Len(queue'), queue'[k] = queue'[l]
            PROVE  k = l
        <4>1. k + 1 = l + 1
          BY <2>2, <3>2 DEF CallsInv, QueueFits
        <4> QED BY <4>1
      <3> QED BY <2>1, <2>3, <2>4, <3>1, <3>2 DEF CallsInv, QueueFits
    <2> QED BY <2>5, <2>6 DEF CallsInv
  <1>2. ASSUME NEW c \in LaneCallers, Started(c) \/ TaskEnds(c) PROVE CallsInv'
    <2>1. /\ \E to \in {"running", "ended"} : Tasks(c, to)
          /\ task[c] \in {"taken", "running"} /\ UNCHANGED <<queue, call, signalled>>
      BY <1>2 DEF Started, TaskEnds
    <2>2. /\ task' \in [LaneCallers -> {"none", "queued", "taken", "running", "ended", "dropped"}]
          /\ task'[c] \in {"running", "ended"} /\ \A d \in LaneCallers : d # c => task'[d] = task[d]
      BY <2>1 DEF CallsInv, CallsTyped, Tasks
    <2>3. /\ watch' \in [LaneCalls -> {"idle", "checked", "registered", "parked", "told"}]
          /\ \A d \in LaneCalls : d # c => watch'[d] = watch[d]
          /\ c \in LaneCalls /\ c \in signalled /\ task'[c] = "running" => watch'[c] # "parked"
      <3>1. CASE Started(c)
        BY <3>1 DEF Started, CallsInv, CallsTyped
      <3>2. CASE TaskEnds(c)
        BY <2>2, <3>2 DEF TaskEnds, Tasks, CallsInv, CallsTyped
      <3> QED BY <1>2, <3>1, <3>2
    <2>4. \A k \in 1..Len(queue) : queue[k] \in LaneCallers /\ queue[k] # c
      BY <2>1 DEF CallsInv, CallsTyped, QueueFits
    <2>5. CallsTyped' /\ QueueFits'
      <3>1. CallsTyped'
        BY <2>1, <2>2, <2>3 DEF CallsInv, CallsTyped
      <3>2. \A d \in LaneCallers : call'[d].at \in {"new", "sending"} => task'[d] = "none"
        BY <2>1, <2>2 DEF CallsInv, QueueFits
      <3>3. \A k \in 1..Len(queue) : task'[queue[k]] = "queued"
        BY <2>2, <2>4 DEF CallsInv, QueueFits
      <3> QED BY <2>1, <3>1, <3>2, <3>3 DEF CallsInv, QueueFits
    <2>6. OrphansKnowIt'
      BY <2>1, <2>2, <2>3 DEF CallsInv, OrphansKnowIt
    <2> QED BY <2>5, <2>6 DEF CallsInv
  <1>3. ASSUME NEW c \in LaneCallers, Watch(c) PROVE CallsInv'
    <2>1. /\ UNCHANGED <<queue, call, task, signalled>> /\ c \in LaneCalls
          /\ \E to \in {"told", "checked", "registered", "parked"} :
               /\ watch' = [watch EXCEPT ![c] = to]
               /\ to = "parked" => c \notin signalled
      BY <1>3 DEF Watch, Again
    <2>2. CallsTyped' /\ QueueFits'
      BY <2>1 DEF CallsInv, CallsTyped, QueueFits
    <2>3. OrphansKnowIt'
      BY <2>1 DEF CallsInv, CallsTyped, OrphansKnowIt
    <2> QED BY <2>2, <2>3 DEF CallsInv
  <1> QED BY <1>1, <1>2, <1>3 DEF TaskStep
-----------------------------------------------------------------------------
\* A step that leaves the threads and the owner's place alone.
LEMMA ThreadsUntouched ==
  ASSUME ThreadsInv, UNCHANGED <<owner, next, result, thread, outcome, failure>>
  PROVE  ThreadsInv'
  BY DEF ThreadsInv, FailureFits, OkMeansClean

\* What the owner does: threads are spawned in their order, and an answer is "ok" only for lanes
\* that are all clean.
LEMMA OwnerKeeps ==
  ASSUME ThreadsInv, OwnerStep \/ Shutdown \/ Drop
  PROVE  ThreadsInv'
  <1>1. CASE Spawn
    <2>1. CASE owner' = "joining"
      <3>1. UNCHANGED <<next, result, thread, outcome, failure>> /\ owner = "spawning"
        BY <1>1, <2>1 DEF Spawn, Refuse
      <3> QED BY <2>1, <3>1 DEF ThreadsInv, FailureFits, OkMeansClean
    <2>2. CASE owner' # "joining"
      <3>1. /\ thread' = [thread EXCEPT ![next] = "assembling"]
            /\ next' = next + 1 /\ next \in Lanes
            /\ owner = "spawning" /\ UNCHANGED <<owner, result, outcome, failure>>
        BY <1>1, <2>2 DEF Spawn, Refuse
      <3>2. thread[next] = "none" /\ next \in Nat
        BY <3>1 DEF ThreadsInv
      <3>3. \A l \in Lanes : l \in Int
        BY DEF Lanes
      <3>4. \A l \in Lanes : /\ l = next \/ thread'[l] = thread[l]
                             /\ thread'[l] \in {"none", "assembling", "starting", "loop",
                                                "stopping", "failing", "unwound", "ended"}
                             /\ l >= next + 1 => thread'[l] = "none"
                             /\ outcome[l] # "none" => thread'[l] = "ended"
        BY <3>1, <3>2, <3>3 DEF ThreadsInv
      <3>5. FailureFits'
        BY <3>1, <3>2, <3>4 DEF ThreadsInv, FailureFits
      <3>6. result # "ok"
        BY <3>1 DEF ThreadsInv
      <3> QED BY <3>1, <3>2, <3>4, <3>5, <3>6 DEF ThreadsInv, OkMeansClean
    <2> QED BY <2>1, <2>2
  <1>2. CASE SpawnedAll \/ Ready \/ NotReady \/ Refused \/ Shutdown \/ Drop
    <2>1. /\ UNCHANGED <<thread, outcome, failure>> /\ next' \in Nat
          /\ owner' # "spawning" /\ owner # "closed" /\ result' # "ok"
      BY <1>2 DEF SpawnedAll, Ready, NotReady, Refused, Refuse, Shutdown, Drop, threadVars,
                  ThreadsInv
    <2> QED BY <2>1 DEF ThreadsInv, FailureFits, OkMeansClean
  <1>3. CASE ShutdownReturns
    <2>1. /\ UNCHANGED <<next, thread, outcome, failure>> /\ owner' = "closed"
          /\ result' = "ok" => AllClean /\ \A l \in Lanes : thread[l] = "ended"
      BY <1>3 DEF ShutdownReturns, threadVars
    <2>2. result' = "ok" => failure[1] \notin {"panicked", "unavailable"}
      <3>1. CASE failure = NoFailure
        BY <3>1 DEF NoFailure
      <3>2. CASE failure # NoFailure
        BY <2>1, <3>2 DEF ThreadsInv, FailureFits, AllClean
      <3> QED BY <3>1, <3>2
    <2> QED BY <2>1, <2>2 DEF ThreadsInv, FailureFits, OkMeansClean, AllClean
  <1> QED BY <1>1, <1>2, <1>3 DEF OwnerStep

\* A thread that has not ended goes on; it fails the App only in its own name, and answers at
\* its end.
LEMMA ThreadKeeps ==
  ASSUME ThreadsInv, NEW l \in Lanes, LaneStep(l) \/ Panics(l) \/ AppBreaks(l)
  PROVE  ThreadsInv'
  <1>1. /\ UNCHANGED <<owner, next, result>> /\ thread[l] \notin {"none", "ended"}
    BY DEF LaneStep, Assembled, KernelStarts, Panics, Caught, AppBreaks, MonitorSees, LoopStops,
           LoopFails, CommandsClosed, LoopEnds, ownerVars
  <1>2. result # "ok"
    BY <1>1 DEF ThreadsInv, OkMeansClean
  <1>3. CASE MonitorSees(l) \/ AppBreaks(l)
    <2>1. /\ UNCHANGED <<thread, outcome>> /\ failure' \in {failure, <<"runtime", l>>}
      BY <1>3 DEF MonitorSees, AppBreaks, Fail
    <2> QED BY <1>1, <1>2, <2>1 DEF ThreadsInv, FailureFits, OkMeansClean
  <1>4. ASSUME NEW to \in {"starting", "loop", "stopping", "failing", "unwound", "ended"},
               Goes(l, to), outcome'[l] # "none" => to = "ended",
               outcome' \in [Lanes -> {"none", "clean", "unclean"}],
               \A m \in Lanes : m # l => outcome'[m] = outcome[m],
               thread[l] \in {"failing", "unwound"} =>
                 to \in {"failing", "unwound", "ended"} /\ outcome'[l] = "none",
               \/ failure' = failure
               \/ failure' = <<"panicked", l>> /\ to = "ended" /\ outcome'[l] = "none"
               \/ failure' = <<"unavailable", l>> /\ to = "failing" /\ outcome'[l] = "none"
        PROVE  ThreadsInv'
    <2>1. \A m \in Lanes : thread'[m] = IF m = l THEN to ELSE thread[m]
      BY <1>4 DEF Goes, ThreadsInv
    <2>2. FailureFits'
      <3>1. CASE failure' = failure
        <4>1. SUFFICES ASSUME failure # NoFailure PROVE FailureFits'
          BY <3>1 DEF FailureFits
        <4>2. PICK m \in Lanes :
                \/ failure = <<"runtime", m>>
                \/ failure = <<"panicked", m>> /\ thread[m] = "ended" /\ outcome[m] = "none"
                \/ /\ failure = <<"unavailable", m>>
                   /\ thread[m] \in {"failing", "unwound", "ended"}
                   /\ outcome[m] = "none"
          BY <4>1 DEF ThreadsInv, FailureFits
        <4> QED BY <1>1, <1>4, <2>1, <3>1, <4>2 DEF FailureFits
      <3>2. CASE failure' # failure
        BY <1>4, <2>1, <3>2 DEF FailureFits
      <3> QED BY <3>1, <3>2
    <2>3. thread' \in [Lanes -> {"none", "assembling", "starting", "loop", "stopping", "failing",
                                "unwound", "ended"}]
      BY <1>4 DEF Goes, ThreadsInv
    <2>4. \A m \in Lanes : outcome'[m] # "none" => thread'[m] = "ended"
      BY <1>4, <2>1 DEF ThreadsInv
    <2>5. owner = "spawning" => \A m \in Lanes : m >= next => thread'[m] = "none"
      BY <1>1, <2>1 DEF ThreadsInv
    <2> QED BY <1>1, <1>2, <1>4, <2>2, <2>3, <2>4, <2>5 DEF ThreadsInv, OkMeansClean
  <1>5. outcome \in [Lanes -> {"none", "clean", "unclean"}] /\ outcome[l] = "none"
    BY <1>1 DEF ThreadsInv
  <1>6. CASE Assembled(l) \/ KernelStarts(l) \/ LoopStops(l) \/ LoopFails(l) \/ Panics(l)
    <2>1. \E to \in {"starting", "loop", "stopping", "failing", "unwound", "ended"} :
            /\ Goes(l, to)
            /\ thread[l] \in {"failing", "unwound"} => to = "unwound"
      BY <1>6 DEF Assembled, KernelStarts, LoopStops, LoopFails, Panics, Unwinds
    <2>2. UNCHANGED <<outcome, failure>>
      BY <1>6 DEF Assembled, KernelStarts, LoopStops, LoopFails, Panics
    <2> QED BY <1>4, <1>5, <2>1, <2>2
  <1>7. CASE Caught(l)
    <2>1. Goes(l, "ended") /\ outcome' = outcome /\ failure' \in {failure, <<"panicked", l>>}
      BY <1>7 DEF Caught, Fail
    <2> QED BY <1>4, <1>5, <2>1
  <1>8. CASE CommandsClosed(l)
    <2>1. /\ Goes(l, "failing") /\ outcome' = outcome
          /\ failure' \in {failure, <<"unavailable", l>>}
      BY <1>8 DEF CommandsClosed, Fail
    <2> QED BY <1>4, <1>5, <2>1
  <1>9. CASE LoopEnds(l)
    <2>1. /\ Goes(l, "ended") /\ failure' = failure /\ thread[l] \in {"stopping", "failing"}
          /\ \E how \in {"none", "clean", "unclean"} :
               /\ outcome' = [outcome EXCEPT ![l] = how]
               /\ thread[l] = "failing" => how = "none"
      BY <1>9 DEF LoopEnds, Unwinds
    <2>2. /\ outcome' \in [Lanes -> {"none", "clean", "unclean"}]
          /\ \A m \in Lanes : m # l => outcome'[m] = outcome[m]
          /\ thread[l] = "failing" => outcome'[l] = "none"
      BY <1>5, <2>1
    <2> QED BY <1>4, <2>1, <2>2
  <1> QED BY <1>3, <1>6, <1>7, <1>8, <1>9 DEF LaneStep

-----------------------------------------------------------------------------
\* At first no lane runs and nobody calls.
LEMMA LanesInitially == LaneInit => CallsInv /\ ThreadsInv
  <1> SUFFICES ASSUME LaneInit PROVE CallsInv /\ ThreadsInv
    OBVIOUS
  <1>1. ThreadsInv
    BY DEF LaneInit, ThreadsInv, FailureFits, OkMeansClean
  <1>2. CallsTyped
    BY DEF LaneInit, CallsTyped, LaneAnswers
  <1>3. QueueFits /\ OrphansKnowIt
    BY DEF LaneInit, QueueFits, OrphansKnowIt
  <1> QED BY <1>1, <1>2, <1>3 DEF CallsInv

\* What the threads and the owner do to the calls, and the calls to them.
LEMMA LanesStep == CallsInv /\ ThreadsInv /\ [LaneNext]_laneVars => (CallsInv /\ ThreadsInv)'
  <1> SUFFICES ASSUME CallsInv, ThreadsInv, [LaneNext]_laneVars PROVE CallsInv' /\ ThreadsInv'
    OBVIOUS
  <1>1. CASE OwnerStep \/ Shutdown \/ Drop
    <2>1. CASE Spawn /\ ~(UNCHANGED callVars)
      <3>1. Abandoned(Provider) /\ UNCHANGED <<call, signalled, watch>>
        BY <2>1 DEF Spawn, callVars
      <3>2. /\ queue' = <<>> /\ Len(queue') = 0
            /\ task' = [c \in LaneCallers |->
                          IF task[c] \in {"none", "ended"} THEN task[c] ELSE "dropped"]
        BY <3>1 DEF Abandoned
      <3>3. CallsTyped'
        <4>1. queue' \in Seq(LaneCallers)
          BY <3>2
        <4> QED BY <3>1, <3>2, <4>1 DEF CallsInv, CallsTyped
      <3>4. QueueFits' /\ OrphansKnowIt'
        BY <3>1, <3>2 DEF CallsInv, CallsTyped, QueueFits, OrphansKnowIt, LaneCallers
      <3> QED BY <1>1, <3>3, <3>4, OwnerKeeps DEF CallsInv
    <2>2. CASE UNCHANGED callVars
      BY <1>1, <2>2, OwnerKeeps, CallsUntouched
    <2>3. UNCHANGED callVars \/ Spawn
      BY <1>1 DEF OwnerStep, SpawnedAll, Ready, NotReady, Refused, ShutdownReturns, Shutdown, Drop
    <2> QED BY <2>1, <2>2, <2>3
  <1>2. CASE DropRoutes \/ UNCHANGED laneVars
    <2>1. UNCHANGED callVars /\ UNCHANGED <<owner, next, result, thread, outcome, failure>>
      BY <1>2 DEF DropRoutes, laneVars, ownerVars, threadVars
    <2> QED BY <2>1, CallsUntouched, ThreadsUntouched
  <1>3. ASSUME NEW l \in Lanes, LaneStep(l) \/ Panics(l) \/ AppBreaks(l)
        PROVE  CallsInv' /\ ThreadsInv'
    <2>1. UNCHANGED callVars \/ (Abandoned(l) /\ Orphaned(l))
      BY <1>3 DEF LaneStep, Assembled, KernelStarts, Panics, Caught, AppBreaks, MonitorSees,
                  LoopStops, LoopFails, CommandsClosed, LoopEnds, Unwinds
    <2>2. CallsInv'
      BY <2>1, CallsUntouched, UnwindKeeps
    <2> QED BY <1>3, <2>2, ThreadKeeps
  <1>4. CASE TaskStep
    <2>1. UNCHANGED <<owner, next, result, thread, outcome, failure>>
      BY <1>4 DEF TaskStep, TakeTask, Started, Watch, TaskEnds, ownerVars, threadVars
    <2> QED BY <1>4, <2>1, TaskKeeps, ThreadsUntouched
  <1>5. ASSUME NEW c \in LaneCallers,
               CallerStep(c) \/ BeginCall(c) \/ GiveUp(c) \/ CancelStarted(c)
        PROVE  CallsInv' /\ ThreadsInv'
    <2>1. BeginCall(c) \/ SendTask(c) \/ GiveUp(c) \/ CancelStarted(c) \/ Hear(c)
      BY <1>5 DEF CallerStep
    <2>2. UNCHANGED <<owner, next, result, thread, outcome, failure>>
      BY <2>1 DEF BeginCall, SendTask, GiveUp, CancelStarted, Hear, ownerVars, threadVars
    <2> QED BY <2>1, <2>2, CallKeeps, ThreadsUntouched
  <1> QED BY <1>1, <1>2, <1>3, <1>4, <1>5 DEF LaneNext

\* The invariant of the lanes and their calls.
LEMMA LanesHold == LaneSpec => [](CallsInv /\ ThreadsInv)
  <1>1. LaneInit => CallsInv /\ ThreadsInv
    BY LanesInitially
  <1> QED BY <1>1, LanesStep, PTL DEF LaneSpec

\* For any number of lanes, calls and faults: shutdown (replicated.rs) says Ok only when every
\* lane answered that it ended cleanly, and no lane had panicked or lost its callers.
THEOREM OkIsClean == LaneSpec => []OkMeansClean
  <1>1. CallsInv /\ ThreadsInv => OkMeansClean
    BY DEF ThreadsInv
  <1> QED BY <1>1, LanesHold, PTL

\* For any number of lanes, calls and faults: a task whose caller has gone (transfer.rs,
\* admission.rs) can tell, and its provider is not asleep when the signal is stored.
THEOREM OrphansAreTold == LaneSpec => []OrphansKnowIt
  <1>1. CallsInv /\ ThreadsInv => OrphansKnowIt
    BY DEF CallsInv
  <1> QED BY <1>1, LanesHold, PTL

-----------------------------------------------------------------------------
(* The handles and sessions of a guest                                     *)

\* The numbers, and what is in the tables of either side.
SdkShape ==
  /\ bindings \in BOOLEAN /\ hostStreams \subseteq StreamIds /\ nextHostStream \in StreamIds
  /\ handles \in [StreamIds -> {"none", "open", "finished"}]
  /\ guest \in {"idle", "calling", "abandoned", "dead"}

\* No stream has a number that is yet to be given.
Numbered ==
  /\ \A s \in hostStreams : s < nextHostStream
  /\ \A s \in StreamIds : handles[s] # "none" => s < nextHostStream

\* A guest that has not been activated has nothing, and has not run.
Untouched == ~bindings /\ guest # "dead" => guest = "idle" /\ hostStreams = {} /\ Unfinished = {}

\* Session ids are issued in order.
Issued == sessions \subseteq Nat /\ nextId \in Nat /\ SessionIdsFresh

SdkInv == SdkShape /\ Numbered /\ Untouched /\ HandlesMatchStreams /\ Issued

\* A guest that has not begun is in order.
LEMMA SdkInitially == SdkInit => SdkInv
  BY NumbersAssumption
  DEF NumbersAssumption, SdkInit, ImportsInit, SdkInv, SdkShape, Numbered, Untouched, Unfinished,
      HandlesMatchStreams, Issued, SessionIdsFresh

\* An import comes back from the tables, or without having reached them.
LEMMA AnsweredImport ==
  ASSUME NEW i, NEW r, Reply(i, r)
  PROVE  /\ Running /\ guest' = guest
         /\ \/ UNCHANGED imports /\ r \in {"closed", "limit", "refused"}
               /\ (r = "refused" => Refusal(i) # "none")
            \/ Refusal(i) = "none" /\ CanNumber(i) /\ r \in Results(i) /\ Landed(i, r)
  BY DEF Reply

\* What a guest's step keeps if it touches neither the streams nor the handles.
LEMMA SdkGoesOn ==
  ASSUME SdkInv, UNCHANGED <<bindings, hostStreams, nextHostStream, handles, strays>>,
         guest' \in {"idle", "calling", "abandoned", "dead"},
         guest = "dead" => guest' = "dead", guest' # "idle" /\ guest' # "dead" => bindings,
         Issued'
  PROVE  SdkInv'
  <1> Unfinished' = Unfinished
    BY DEF Unfinished
  <1>1. SdkShape' /\ Numbered' /\ HandlesMatchStreams'
    BY DEF SdkInv, SdkShape, Numbered, HandlesMatchStreams
  <1>2. Untouched'
    BY DEF SdkInv, SdkShape, Untouched
  <1> QED BY <1>1, <1>2 DEF SdkInv

\* Imports that open and end no stream leave the tables alone.
LEMMA KeepsTables ==
  ASSUME NEW i, NEW r, Reply(i, r), i.op \in {"bindings", "invoke", "publish", "send", "close"}
  PROVE  UNCHANGED imports /\ guest' = guest /\ Running
  BY AnsweredImport DEF Landed, imports

\* The handle that is opened is that of the stream that the Host has opened.
LEMMA OpenHandleKeeps ==
  ASSUME SdkInv, NEW b \in Table, NEW r, OpenStream(b, r)
  PROVE  SdkInv'
  <1> DEFINE i == [op |-> "open", binding |-> b]
  <1>1. Reply(i, r) /\ UNCHANGED <<strays, sessions, nextId>>
        /\ handles' = IF r = "ok" THEN [handles EXCEPT ![nextHostStream] = "open"] ELSE handles
    BY DEF OpenStream, sdkTable
  <1>2. Issued'
    BY <1>1 DEF SdkInv, Issued, SessionIdsFresh
  <1>3. Running /\ guest' = guest
    BY <1>1, AnsweredImport
  <1>4. Running => bindings
    BY DEF SdkInv, Untouched, Running
  <1>5. CASE r # "ok"
    <2>1. UNCHANGED imports
      BY <1>1, <1>5, AnsweredImport DEF Landed, imports
    <2> QED BY <1>1, <1>2, <1>3, <1>4, <1>5, <2>1, SdkGoesOn DEF imports, SdkInv, SdkShape, Running
  <1>6. CASE r = "ok"
    <2>1. /\ bindings' = bindings /\ hostStreams' = hostStreams \cup {nextHostStream}
          /\ nextHostStream' = nextHostStream + 1 /\ nextHostStream + 1 \in StreamIds
      BY <1>1, <1>6, AnsweredImport DEF Landed, CanNumber
    <2>2. nextHostStream \in Nat /\ StreamIds \subseteq Nat
      BY NumbersAssumption DEF NumbersAssumption, SdkInv, SdkShape
    <2>3. handles' = [handles EXCEPT ![nextHostStream] = "open"]
      BY <1>1, <1>6
    <2>4. SdkShape'
      BY <1>3, <2>1, <2>3 DEF SdkInv, SdkShape
    <2>5. Numbered'
      BY <2>1, <2>2, <2>3 DEF SdkInv, SdkShape, Numbered
    <2>6. Unfinished' = Unfinished \cup {nextHostStream}
      BY <2>3 DEF Unfinished, SdkInv, SdkShape
    <2>7. HandlesMatchStreams'
      BY <1>1, <1>3, <2>1, <2>6 DEF SdkInv, HandlesMatchStreams
    <2>8. Untouched'
      BY <1>3, <1>4, <2>1 DEF Untouched
    <2> QED BY <1>2, <2>4, <2>5, <2>7, <2>8 DEF SdkInv
  <1> QED BY <1>5, <1>6

\* A handle that ends: the stream leaves the table, or is one whose cancel went astray.
LEMMA EndKeeps ==
  ASSUME SdkInv, NEW s \in StreamIds, Running, guest' = guest,
         UNCHANGED <<bindings, nextHostStream, sessions, nextId>>,
         NEW to \in {"none", "finished"}, handles' = [handles EXCEPT ![s] = to],
         handles[s] # "none",
         \/ hostStreams' = hostStreams \ {s} /\ strays' = strays
         \/ hostStreams' = hostStreams /\ (handles[s] = "open" => s \in strays') /\ strays \subseteq strays'
  PROVE  SdkInv'
  <1>1. Issued'
    BY DEF SdkInv, Issued, SessionIdsFresh
  <1>2. SdkShape' /\ Numbered'
    BY DEF SdkInv, SdkShape, Numbered
  <1>3. Unfinished' = Unfinished \ {s}
    BY DEF Unfinished, SdkInv, SdkShape
  <1>4. handles[s] = "open" <=> s \in Unfinished
    BY DEF Unfinished
  <1>5. Running => bindings
    BY DEF SdkInv, Untouched, Running
  <1>6. Untouched'
    BY <1>5 DEF Untouched
  <1>7. HandlesMatchStreams'
    BY <1>3, <1>4 DEF SdkInv, HandlesMatchStreams
  <1> QED BY <1>1, <1>2, <1>6, <1>7 DEF SdkInv

\* A receive finishes a handle exactly when the Host has forgotten the stream.
LEMMA ReceiveKeeps ==
  ASSUME SdkInv, NEW s \in StreamIds, NEW r, NEW decodes, ReceiveStream(s, r, decodes)
  PROVE  SdkInv'
  <1> DEFINE i == [op |-> "receive", stream |-> s]
  <1>1. Reply(i, r) /\ UNCHANGED <<strays, sessions, nextId>> /\ handles[s] # "none"
        /\ handles' = IF r = "terminal" THEN [handles EXCEPT ![s] = "finished"] ELSE handles
    BY DEF ReceiveStream, sdkTable, Finished
  <1>2. Issued'
    BY <1>1 DEF SdkInv, Issued, SessionIdsFresh
  <1>3. Running /\ guest' = guest
    BY <1>1, AnsweredImport
  <1>4. Running => bindings
    BY DEF SdkInv, Untouched, Running
  <1>5. CASE r # "terminal"
    <2>1. UNCHANGED imports
      BY <1>1, <1>5, AnsweredImport DEF Landed, imports
    <2> QED BY <1>1, <1>2, <1>3, <1>4, <1>5, <2>1, SdkGoesOn DEF imports, SdkInv, SdkShape, Running
  <1>6. CASE r = "terminal"
    <2>1. UNCHANGED <<bindings, nextHostStream>> /\ hostStreams' = hostStreams \ {s}
      BY <1>1, <1>6, AnsweredImport DEF Landed
    <2> QED BY <1>1, <1>3, <1>6, <2>1, EndKeeps
  <1> QED BY <1>5, <1>6

\* The cancel of an unfinished handle is never refused: the Host has the stream.
LEMMA CancelKeeps ==
  ASSUME SdkInv, NEW s \in StreamIds, NEW r, CancelStream(s, r) \/ DropHandle(s, r)
  PROVE  SdkInv'
  <1> DEFINE i == [op |-> "cancel", stream |-> s]
  <1>1. Reply(i, r) /\ UNCHANGED <<sessions, nextId>> /\ handles[s] # "none"
        /\ handles' = [handles EXCEPT ![s] = "none"] /\ Cancelled(s, r)
    BY DEF CancelStream, DropHandle, sdkTable
  <1>2. Running /\ guest' = guest
    BY <1>1, AnsweredImport
  <1>3. CASE UNCHANGED imports /\ r \in {"closed", "limit", "refused"} /\ (r = "refused" => Refusal(i) # "none")
    <2>1. handles[s] = "open" => s \in hostStreams
      BY <1>2 DEF SdkInv, HandlesMatchStreams, Untouched, Unfinished, Running
    <2>2. handles[s] = "open" => r # "refused"
      BY <1>3, <2>1 DEF Refusal, StreamRefusal
    <2>3. strays \subseteq strays' /\ (handles[s] = "open" => s \in strays')
      BY <1>1, <1>3, <2>2 DEF Cancelled
    <2> QED BY <1>1, <1>2, <1>3, <2>3, EndKeeps DEF imports
  <1>4. CASE Refusal(i) = "none" /\ CanNumber(i) /\ r \in Results(i) /\ Landed(i, r)
    <2>1. UNCHANGED <<bindings, nextHostStream>> /\ hostStreams' = hostStreams \ {s}
      BY <1>4 DEF Landed
    <2>2. strays' = strays
      BY <1>1, <1>4 DEF Cancelled, Results
    <2> QED BY <1>1, <1>2, <2>1, <2>2, EndKeeps
  <1> QED BY <1>1, <1>3, <1>4, AnsweredImport

\* Whatever the guest, the SDK and the Adapter do.
LEMMA SdkStep ==
  ASSUME SdkInv, [SdkNext]_sdkVars
  PROVE  SdkInv'
  <1> USE DEF imports, sdkGuest, sdkStreams, sdkTable
  <1>0. CASE UNCHANGED sdkVars
    BY <1>0, SdkGoesOn DEF sdkVars, SdkInv, SdkShape, Untouched, Issued, SessionIdsFresh
  <1> SUFFICES ASSUME SdkNext PROVE SdkInv'
    BY <1>0
  <1>1. Running => bindings
    BY DEF SdkInv, Untouched, Running
  <1>2. UNCHANGED sdkTable => Issued'
    BY DEF SdkInv, Issued, SessionIdsFresh
  <1>3. CASE SdkActivate
    <2>1. /\ UNCHANGED <<hostStreams, nextHostStream, handles, strays, guest>> /\ bindings' = TRUE
          /\ guest = "idle" /\ ~bindings /\ UNCHANGED sdkTable
      BY <1>3 DEF SdkActivate, ActivateImports
    <2>2. hostStreams = {} /\ Unfinished = {} /\ Unfinished' = {}
      BY <2>1 DEF SdkInv, Untouched, Unfinished
    <2> QED BY <1>2, <2>1, <2>2 DEF SdkInv, SdkShape, Numbered, Untouched, HandlesMatchStreams
  <1>4. CASE SdkDeactivate
    <2>1. /\ UNCHANGED <<nextHostStream, handles, strays>> /\ bindings' = FALSE /\ hostStreams' = {}
          /\ guest' = "dead" /\ UNCHANGED sdkTable
      BY <1>4 DEF SdkDeactivate, DeactivateImports
    <2> QED BY <1>2, <2>1 DEF SdkInv, SdkShape, Numbered, Untouched, HandlesMatchStreams
  <1>5. CASE SdkBeginCall \/ SdkEndCall \/ AbandonCall \/ Trap
    <2>1. UNCHANGED <<imports, handles, strays, sdkTable>>
      BY <1>5 DEF SdkBeginCall, SdkEndCall, AbandonCall, Trap
    <2>2. /\ guest' \in {"idle", "calling", "abandoned", "dead"}
          /\ guest = "dead" => guest' = "dead"
          /\ guest' # "idle" /\ guest' # "dead" => bindings
      BY <1>1, <1>5 DEF SdkBeginCall, SdkEndCall, AbandonCall, Trap, Running
    <2> QED BY <1>2, <2>1, <2>2, SdkGoesOn
  <1>6. CASE Insert \/ \E n \in sessions : Remove(n)
    <2>1. UNCHANGED <<imports, guest, handles, strays>> /\ Running
      BY <1>6 DEF Insert, Remove
    <2>2. CASE Insert
      <3>1. nextId # 0 /\ sessions' = sessions \cup {nextId}
            /\ (nextId' = 0 \/ nextId' = nextId + 1)
        BY <2>2 DEF Insert
      <3>2. nextId \in Nat /\ sessions \subseteq Nat /\ 0 \notin sessions
            /\ \A n \in sessions : n < nextId
        BY <3>1 DEF SdkInv, Issued, SessionIdsFresh
      <3>3. Issued'
        BY ONLY <3>1, <3>2 DEF Issued, SessionIdsFresh
      <3> QED BY <1>1, <2>1, <3>3, SdkGoesOn DEF SdkInv, SdkShape, Running
    <2>3. ASSUME NEW n \in sessions, Remove(n) PROVE SdkInv'
      <3>1. nextId' = nextId /\ sessions' \subseteq sessions
        BY <2>3 DEF Remove
      <3>2. Issued'
        BY <3>1 DEF SdkInv, Issued, SessionIdsFresh
      <3> QED BY <1>1, <2>1, <3>2, SdkGoesOn DEF SdkInv, SdkShape, Running
    <2> QED BY <1>6, <2>2, <2>3
  <1>7. ASSUME NEW b \in Table, Require(b, CapabilityOf[b], OperationsOf(b)) PROVE SdkInv'
    <2>1. UNCHANGED <<imports, guest, handles, strays, sdkTable>> /\ Running
      BY <1>7 DEF Require
    <2> QED BY <1>1, <1>2, <2>1, SdkGoesOn DEF SdkInv, SdkShape, Running
  <1>8. ASSUME NEW s \in StreamIds, DropFinished(s) PROVE SdkInv'
    <2>1. /\ UNCHANGED <<imports, guest, strays, sdkTable>> /\ Running /\ handles[s] = "finished"
          /\ handles' = [handles EXCEPT ![s] = "none"]
      BY <1>8 DEF DropFinished
    <2> QED BY <2>1, EndKeeps
  <1>9. ASSUME NEW r \in Replies,
               \/ Load(r)
               \/ \E b \in Table : \E k \in {"invoke", "publish"} : Ask(k, b, r)
               \/ \E s \in StreamIds : \E k \in {"send", "close"} : Use(k, s, r)
        PROVE SdkInv'
    <2>1. UNCHANGED <<handles, strays, sdkTable>>
      BY <1>9 DEF Load, Ask, Use
    <2>2. \E i : Reply(i, r) /\ i.op \in {"bindings", "invoke", "publish", "send", "close"}
      <3>1. CASE Load(r)
        BY <3>1 DEF Load
      <3>2. ASSUME NEW b \in Table, NEW k \in {"invoke", "publish"}, Ask(k, b, r)
            PROVE  Reply([op |-> k, binding |-> b], r) /\ [op |-> k, binding |-> b].op = k
        BY <3>2 DEF Ask
      <3>3. ASSUME NEW s \in StreamIds, NEW k \in {"send", "close"}, Use(k, s, r)
            PROVE  Reply([op |-> k, stream |-> s], r) /\ [op |-> k, stream |-> s].op = k
        BY <3>3 DEF Use
      <3> QED BY <1>9, <3>1, <3>2, <3>3
    <2>3. UNCHANGED imports /\ guest' = guest /\ Running
      BY <2>2, KeepsTables
    <2> QED BY <1>1, <1>2, <2>1, <2>3, SdkGoesOn DEF SdkInv, SdkShape, Running
  <1> QED BY <1>3, <1>4, <1>5, <1>6, <1>7, <1>8, <1>9, OpenHandleKeeps, ReceiveKeeps, CancelKeeps
          DEF SdkNext

\* The guest's handles are the Host's streams, for any number of streams, imports and calls: but
\* for those whose cancel the Adapter did not pass on, each stream the Host keeps has an unfinished
\* handle, and each unfinished handle its stream.
THEOREM HandlesAreStreams == SdkSpec => []HandlesMatchStreams
  <1>1. SdkInv /\ [SdkNext]_sdkVars => SdkInv'
    BY SdkStep
  <1>2. SdkInv => HandlesMatchStreams
    BY DEF SdkInv
  <1> QED BY <1>1, <1>2, SdkInitially, PTL DEF SdkSpec

\* A guest's session ids are issued once, and none of them is zero, also when they run out.
THEOREM SessionIdsAreFresh == SdkSpec => []SessionIdsFresh
  <1>1. SdkInv /\ [SdkNext]_sdkVars => SdkInv'
    BY SdkStep
  <1>2. SdkInv => SessionIdsFresh
    BY DEF SdkInv, Issued
  <1> QED BY <1>1, <1>2, SdkInitially, PTL DEF SdkSpec

-----------------------------------------------------------------------------
(* The outcome of a stream that is provided                                *)

\* All the provider has put into its channel, in order.
Words == given \o outgoing

Holds(x) == \E k \in DOMAIN Words : Words[k] = x

ProvidedShape ==
  /\ given \in Seq(Output) /\ outgoing \in Seq(Output)
  /\ doing \in {"none", "made", "queued", "receive"}
  /\ doing \in {"made", "queued"} => item \in Output
  /\ receive \in [Receives -> {"idle", "waiting", "done", "failure"}]

\* Nothing is said after the outcome, nor while it is under way; and what was sent has been said.
LastWord ==
  /\ \A k \in DOMAIN Words : Words[k] = "terminal" => k = Len(Words)
  /\ Holds("terminal") => terminated /\ doing # "made"
  /\ doing = "made" => (terminated <=> item = "terminal")
  /\ doing = "queued" => Holds(item)
  /\ \A x \in sent : Holds(x)

\* A receive that failed has seen that the provider left, and everything it said.
Failures ==
  /\ dropped => doing = "none"
  /\ (\E r \in Receives : receive[r] = "failure") =>
       dropped /\ ("terminal" \in sent => At("terminal", given))

ProvidedInv == ProvidedShape /\ LastWord /\ Failures

\* What a receive takes from the channel is still said.
LEMMA Moved ==
  ASSUME NEW S, NEW g \in Seq(S), NEW o \in Seq(S), o # <<>>
  PROVE  /\ Append(g, Head(o)) \in Seq(S) /\ Tail(o) \in Seq(S)
         /\ Append(g, Head(o)) \o Tail(o) = g \o o
  OBVIOUS

\* A word that is pushed comes after all the others.
LEMMA Pushed ==
  ASSUME NEW S, NEW g \in Seq(S), NEW o \in Seq(S), NEW x \in S
  PROVE  /\ Append(o, x) \in Seq(S)
         /\ g \o Append(o, x) = Append(g \o o, x)
  OBVIOUS

\* By index.
LEMMA AppendedWords ==
  ASSUME NEW S, NEW s \in Seq(S), NEW x \in S
  PROVE  /\ Len(s) \in Nat /\ Len(Append(s, x)) = Len(s) + 1
         /\ DOMAIN s = 1..Len(s) /\ DOMAIN Append(s, x) = 1..(Len(s) + 1)
         /\ \A k \in 1..Len(s) : Append(s, x)[k] = s[k]
         /\ Append(s, x)[Len(s) + 1] = x
  OBVIOUS

\* A stream that has begun is in order.
LEMMA ProvidedInitially == ProvidedInit => ProvidedInv
  <1> SUFFICES ASSUME ProvidedInit PROVE ProvidedInv
    OBVIOUS
  <1>1. ProvidedShape /\ Failures
    BY DEF ProvidedInit, ProvidedShape, Failures
  <1>2. Words = <<>>
    BY DEF ProvidedInit, Words
  <1>3. LastWord
    BY <1>2 DEF ProvidedInit, LastWord, Holds
  <1> QED BY <1>1, <1>3 DEF ProvidedInv

\* Steps of either end that say nothing, and leave nothing that was under way said.
LEMMA ProvidedGoesOn ==
  ASSUME ProvidedInv, Words' = Words, given' \in Seq(Output), outgoing' \in Seq(Output),
         doing' \in {"none", "made", "queued", "receive"},
         doing' \in {"made", "queued"} => item' \in Output,
         receive' \in [Receives -> {"idle", "waiting", "done", "failure"}],
         terminated => terminated',
         doing' = "made" => \/ doing = "made" /\ item' = item /\ terminated' = terminated
                            \/ ~terminated /\ (terminated' <=> item' = "terminal"),
         doing' = "queued" => doing = "queued" /\ item' = item,
         \A x \in sent' : x \in sent \/ (doing = "queued" /\ x = item),
         Failures'
  PROVE  ProvidedInv'
  <1>1. \A x : Holds(x)' <=> Holds(x)
    BY DEF Holds
  <1>2. ProvidedShape'
    BY DEF ProvidedShape
  <1>3. LastWord'
    BY <1>1 DEF ProvidedInv, LastWord
  <1> QED BY <1>2, <1>3 DEF ProvidedInv

\* A failure stays one: its provider does not come back.
LEMMA FailuresStay ==
  ASSUME ProvidedInv, dropped' => doing' = "none", dropped => dropped' /\ sent' = sent,
         \A r \in Receives : receive'[r] = "failure" => receive[r] = "failure",
         \A x : At(x, given) => At(x, given)'
  PROVE  Failures'
  BY DEF ProvidedInv, Failures

\* What is in the channel when nothing more will come has been sent before.
LEMMA LastTaken ==
  ASSUME ProvidedInv, outgoing = <<>>, "terminal" \in sent
  PROVE  At("terminal", given)
  <1>1. Words = given
    BY DEF ProvidedInv, ProvidedShape, Words
  <1> QED BY <1>1 DEF ProvidedInv, LastWord, Holds, At

\* Whatever the consumer and the provider do.
LEMMA ProvidedStep ==
  ASSUME ProvidedInv, [ProvidedNext]_provided
  PROVE  ProvidedInv'
  <1> USE DEF consumerEnd, providerEnd
  <1>0. /\ given \in Seq(Output) /\ outgoing \in Seq(Output)
        /\ doing \in {"none", "made", "queued", "receive"}
        /\ doing \in {"made", "queued"} => item \in Output
        /\ receive \in [Receives -> {"idle", "waiting", "done", "failure"}]
        /\ dropped => doing = "none"
    BY DEF ProvidedInv, ProvidedShape, Failures
  <1>1. CASE UNCHANGED <<given, outgoing, doing, item, terminated, dropped, sent>>
             /\ receive' \in [Receives -> {"idle", "waiting", "done", "failure"}]
             /\ \A r \in Receives : receive'[r] = "failure" => receive[r] = "failure"
    <2>1. Failures'
      BY <1>0, <1>1, FailuresStay DEF At
    <2> QED BY <1>0, <1>1, <2>1, ProvidedGoesOn DEF Words
  <1>2. CASE UNCHANGED provided \/ Cancel \/ Disconnect
             \/ \E s \in Inputs : Make(s) \/ Poll(s) \/ DropInput(s) \/ InputReturns(s)
    BY <1>0, <1>1, <1>2 DEF provided, Cancel, Disconnect, Make, Poll, DropInput, InputReturns
  <1>3. ASSUME NEW r \in Receives, Receive(r) PROVE ProvidedInv'
    BY <1>0, <1>1, <1>3 DEF Receive
  <1>4. ASSUME NEW r \in Receives, ReceiveReturns(r) PROVE ProvidedInv'
    <2>1. /\ UNCHANGED <<doing, item, terminated, dropped, sent>>
          /\ receive' \in [Receives -> {"idle", "waiting", "done", "failure"}]
          /\ \A q \in Receives \ {r} : receive'[q] = receive[q]
      BY <1>0, <1>4 DEF ReceiveReturns
    <2>2. CASE outgoing # <<>>
      <3>1. /\ outgoing' = Tail(outgoing) /\ given' = Append(given, Head(outgoing))
            /\ receive'[r] = "done"
        BY <1>0, <1>4, <2>2 DEF ReceiveReturns
      <3>2. given' \in Seq(Output) /\ outgoing' \in Seq(Output) /\ Words' = Words
        BY <1>0, <2>2, <3>1, Moved DEF Words
      <3>3. \A x : At(x, given) => At(x, given)'
        BY <1>0, <2>2, <3>1, <3>2 DEF At
      <3>4. Failures'
        BY <1>0, <2>1, <3>1, <3>3, FailuresStay
      <3> QED BY <1>0, <2>1, <3>2, <3>4, ProvidedGoesOn
    <2>3. CASE outgoing = <<>>
      <3>1. UNCHANGED <<outgoing, given>> /\ (receive'[r] = "failure" => dropped)
        BY <1>0, <1>4, <2>3 DEF ReceiveReturns
      <3>2. "terminal" \in sent => At("terminal", given)
        BY <2>3, LastTaken
      <3>3. Failures'
        BY <1>0, <2>1, <3>1, <3>2 DEF ProvidedInv, Failures, At
      <3> QED BY <1>0, <2>1, <3>1, <3>3, ProvidedGoesOn DEF Words
    <2> QED BY <2>2, <2>3
  <1>5. ASSUME NEW x \in Output, Begin(x) PROVE ProvidedInv'
    <2>1. /\ UNCHANGED <<given, outgoing, receive, sent>> /\ doing = "none" /\ ~dropped /\ ~terminated
          /\ (terminated' <=> x = "terminal")
          /\ \/ UNCHANGED <<doing, item>>
             \/ doing' = "made" /\ item' = x /\ dropped' = dropped
      BY <1>5 DEF Begin, Idle, Allowed, Marks
    <2>2. Failures'
      BY <1>0, <2>1, FailuresStay DEF At
    <2> QED BY <1>0, <2>1, <2>2, ProvidedGoesOn DEF Words
  <1>6. CASE Complete \/ DropChannel \/ Listen \/ ListenReturns \/ DropOutput
    <2>1. /\ UNCHANGED <<given, outgoing, receive, sent, terminated>>
          /\ doing' \in {"none", "receive"} /\ (dropped => dropped')
          /\ (dropped' => doing' = "none")
      BY <1>0, <1>6 DEF Complete, DropChannel, Listen, ListenReturns, DropOutput, Idle
    <2>2. Failures'
      BY <1>0, <2>1, FailuresStay DEF At
    <2> QED BY <1>0, <2>1, <2>2, ProvidedGoesOn DEF Words
  <1>7. CASE Push
    <2>1. /\ doing = "made" /\ doing' = "queued" /\ outgoing' = Append(outgoing, item)
          /\ UNCHANGED <<given, receive, item, terminated, dropped, sent>>
      BY <1>7 DEF Push
    <2>2. item \in Output /\ Words \in Seq(Output) /\ outgoing' \in Seq(Output)
          /\ Words' = Append(Words, item)
      BY <1>0, <2>1, Pushed DEF Words
    <2>3. /\ Len(Words) \in Nat /\ Len(Words') = Len(Words) + 1
          /\ DOMAIN Words = 1..Len(Words) /\ DOMAIN Words' = 1..(Len(Words) + 1)
          /\ \A k \in 1..Len(Words) : Words'[k] = Words[k]
          /\ Words'[Len(Words) + 1] = item
      BY <2>2, AppendedWords
    <2>4. \A x : Holds(x)' <=> Holds(x) \/ x = item
      BY <2>3 DEF Holds
    <2>5. ~Holds("terminal")
      BY <2>1 DEF ProvidedInv, LastWord
    <2>6. \A k \in DOMAIN Words' : Words'[k] = "terminal" => k = Len(Words')
      BY <2>3, <2>5 DEF Holds
    <2>7. Holds("terminal")' => terminated'
      BY <2>1, <2>4, <2>5 DEF ProvidedInv, LastWord
    <2>8. LastWord'
      BY <2>1, <2>4, <2>6, <2>7 DEF ProvidedInv, LastWord
    <2>9. Failures'
      BY <1>0, <2>1, FailuresStay DEF At
    <2> QED BY <1>0, <2>1, <2>2, <2>8, <2>9 DEF ProvidedInv, ProvidedShape
  <1>8. CASE OutputReturns
    <2>1. /\ UNCHANGED <<given, outgoing, receive, terminated>> /\ doing' = "none"
          /\ doing \in {"made", "queued"}
          /\ \A x \in sent' : x \in sent \/ (doing = "queued" /\ x = item)
      BY <1>8 DEF OutputReturns, Ends
    <2>2. Failures'
      BY <1>0, <2>1, FailuresStay DEF At
    <2> QED BY <1>0, <2>1, <2>2, ProvidedGoesOn DEF Words
  <1> QED BY <1>2, <1>3, <1>4, <1>5, <1>6, <1>7, <1>8
          DEF ProvidedNext, ConsumerStep, ProviderStep

\* The outcome of a provided stream is its last word, for any number of messages, sends and
\* receives and any capacity: nothing follows it, everything the provider sent was given before it,
\* and a receive that failed was not owed one.
THEOREM OutcomeComesLast == ProvidedSpec => []OutcomeIsLast
  <1>1. ProvidedInv /\ [ProvidedNext]_provided => ProvidedInv'
    BY ProvidedStep
  <1>2. ProvidedInv => OutcomeIsLast
    <2> SUFFICES ASSUME ProvidedInv PROVE OutcomeIsLast
      OBVIOUS
    <2>1. given \in Seq(Output) /\ outgoing \in Seq(Output)
      BY DEF ProvidedInv, ProvidedShape
    <2>2. /\ Len(given) \in Nat /\ Len(outgoing) \in Nat /\ DOMAIN given = 1..Len(given)
          /\ DOMAIN Words = 1..(Len(given) + Len(outgoing))
          /\ Len(Words) = Len(given) + Len(outgoing)
          /\ \A k \in DOMAIN given : Words[k] = given[k]
      BY <2>1 DEF Words
    <2>3. ASSUME NEW k \in DOMAIN given, given[k] = "terminal"
          PROVE  k = Len(given) /\ \A x \in sent : At(x, given)
      <3>1. k \in DOMAIN Words /\ k = Len(Words)
        BY <2>2, <2>3 DEF ProvidedInv, LastWord
      <3>2. k = Len(given) /\ Len(outgoing) = 0
        <4>1. k \in 1..Len(given) /\ k = Len(given) + Len(outgoing)
          BY <2>2, <3>1
        <4>2. Len(given) \in Nat /\ Len(outgoing) \in Nat
          BY <2>2
        <4> HIDE DEF Words
        <4> QED BY ONLY <4>1, <4>2
      <3>3. \A x \in sent : At(x, given)
        BY <2>2, <3>2 DEF ProvidedInv, LastWord, Holds, At
      <3> QED BY <3>2, <3>3
    <2> QED BY <2>3 DEF OutcomeIsLast, ProvidedInv, Failures
  <1> QED BY <1>1, <1>2, ProvidedInitially, PTL DEF ProvidedSpec
=============================================================================
