------------------------ MODULE SupervisorProperties ------------------------
(***************************************************************************)
(* What the Generation Supervisor promises, stated over DurableSupervisor.  *)
(* "At rest" means that the Controller is between two operations of a Host *)
(* that serves or closes; only then do its channels show the state.         *)
(***************************************************************************)
EXTENDS DurableSupervisor

\* Every variable stays in its type; in particular the lease count that
\* DurableGenerationLease::drop decrements never leaves the naturals.
TypeOK ==
    /\ store \in ControlStates
    /\ mem \in [Hosts -> ControlStates]
    /\ plan \in [Hosts -> ControlStates]
    /\ mode \in [Hosts -> {"down", "starting", "serving", "closing", "panicked"}]
    /\ op \in [Hosts -> Operations]
    /\ slots \in [Hosts -> SUBSET Generations]
    /\ leases \in [Hosts -> [Generations -> Nat]]
    /\ dead \in [Hosts -> SUBSET Generations]
    /\ now \in Nat /\ faults \in Nat /\ commands \in Nat /\ starts \in Nat

Rest(h) == Running(h) /\ At(h, "idle")

-----------------------------------------------------------------------------
(* Fencing: several Supervisors over one store                              *)

\* A Supervisor's in-memory state is either the durable state, exactly, or is
\* behind it by at least one revision.  commit() adopts a state only after
\* compare_and_swap returned, so no crash, race or late I/O error may leave a
\* Supervisor that would pass the revision check with different contents.
FencedOrExact ==
    \A h \in Hosts :
        /\ mem[h].revision <= store.revision
        /\ mem[h].revision = store.revision => mem[h] = store

Unfenced(h) == Running(h) /\ mem[h].revision = store.revision

\* At most one running Supervisor can still commit, whatever the number of
\* Hosts that opened or recovered over the same store.
SoleAuthority == \A h, k \in Hosts : Unfenced(h) /\ Unfenced(k) => h = k

\* h has committed a supervisor epoch of its own: open, replace_suspended_host
\* or the first commit of recover succeeded, and it has not stopped.
Owner(h) == Running(h) \/ At(h, "restaging")

\* Two Supervisors never act under one supervisor_epoch, and none is ahead of
\* the store: the epoch identifies the incarnation in leases and fences.
EpochOwners ==
    \A h \in Hosts : Owner(h) =>
        /\ mem[h].supervisorEpoch <= store.supervisorEpoch
        /\ \A k \in Hosts \ {h} :
              Owner(k) => mem[h].supervisorEpoch # mem[k].supervisorEpoch

\* A routing epoch names one routed Generation for good: within an epoch the
\* route may be withdrawn but never given to another Generation, and epochs
\* never go back.  lease_at_epoch and route_at_epoch rely on it to tell a
\* stale caller from a current one.
RoutingEpochPinsGeneration ==
    [][/\ store'.routingEpoch >= store.routingEpoch
       /\ store'.routingEpoch = store.routingEpoch => store'.active \in {store.active, None}]_store

-----------------------------------------------------------------------------
(* The routes callers pin                                                   *)

\* What a lifecycle still allows to become of a Generation.
StageOf(lifecycle) ==
    CASE lifecycle \in {"Absent", "Retired"} -> "unknown"
      [] lifecycle \in {"Staged", "Ready"}   -> "candidate"
      [] lifecycle = "Active"                -> "routed"
      [] lifecycle \in Retained              -> "kept"

Routing == INSTANCE GenerationRouting
             WITH stage <- [g \in Generations |-> StageOf(store.records[g].lifecycle)],
                  route <- store.active,
                  epoch <- store.routingEpoch

\* The store, written by any number of Hosts that crash, race, recover and fall
\* back, implements GenerationRouting: a route is only ever given out under an
\* epoch of its own, to a staged candidate or a kept predecessor.
ImplementsRouting == Routing!Spec

-----------------------------------------------------------------------------
(* Leases, slots and records                                                *)

\* A runtime with open leases is taken out of the slot map of a Host that goes
\* on only because it failed or its drain deadline has passed (StopRetained,
\* StopPredecessor, SuspendSlot: shutdown_and_retire, transition, suspend).
LeasedGenerationKept ==
    [][\A h \in Hosts : \A g \in slots[h] \ slots'[h] :
          leases[h][g] > 0 /\ mode'[h] = mode[h] =>
             \/ mem[h].records[g].health = "Failed"
             \/ /\ mem[h].records[g].lifecycle = "Draining"
                /\ ~Open(mem[h].records[g].drainDeadline, now)]_vars

\* At rest the slot map holds a runtime for exactly the records that are Ready,
\* Active, Draining or Standby: no runtime leaks behind a Retired record and no
\* live record is left without its runtime, after every path of transition,
\* rollback, maintain and recover.
SlotsMatchRecords == \A h \in Hosts : Rest(h) => slots[h] = Live(mem[h])

\* maintain_candidate finds the deadline and the slot it expects of every
\* record it visits ("draining Generation has no live slot", "missing its
\* rollback deadline"); otherwise the Host ends on an inconsistent state.
CandidatesJudgeable ==
    \A h \in Hosts : At(h, "candidates") =>
        \A g \in op[h].todo : ~Unjudgeable(h, g)

\* At most one retained predecessor may be rolled back to: the choice that
\* mark_generation_failed makes among the rollback candidates is unambiguous.
OnePredecessor ==
    \A h \in Hosts : Running(h) =>
        Cardinality({g \in Generations : RollbackTarget(mem[h], g, now)}) <= 1

\* maintain retires an exact standby only when its rollback window has closed
\* or it has failed; the operator can roll back until then.
StandbyWindowHonoured ==
    [][\A h \in Hosts, g \in Generations :
          /\ Running(h) /\ mode'[h] = mode[h]
          /\ mem[h].records[g].lifecycle = "Standby"
          /\ mem'[h].records[g].lifecycle = "Retired"
          => \/ mem[h].records[g].health = "Failed"
             \/ ~Open(mem[h].records[g].rollbackDeadline, now)]_vars

\* What is kept is kept for as long as was promised: a leased runtime until its
\* drain deadline, a standby until its rollback deadline.
RuntimesKept == LeasedGenerationKept /\ StandbyWindowHonoured

-----------------------------------------------------------------------------
(* Failure, suspension, shutdown                                            *)

\* One maintenance pass deals completely with every failure it records: at rest
\* no Failed Generation is routed, draining or kept as a standby.
FailureFencedAtRest ==
    \A h \in Hosts : Rest(h) =>
        \A g \in Live(mem[h]) : mem[h].records[g].health = "Healthy"

\* "When the active transition authorized automatic rollback and retains an
\* exact standby, this call atomically switches the route back"
\* (durable_supervisor.rs:719): at rest a Failed Generation is never routed
\* while its policy has a predecessor to fall back to.
FailureFallsBack ==
    \A h \in Hosts : Rest(h) =>
        \/ mem[h].active = None
        \/ mem[h].records[mem[h].active].health = "Healthy"
        \/ AutomaticTargets(mem[h], now) = {}

\* A Suspended App has no runtime anywhere: suspend and drain_and_suspend
\* commit the flag after the last slot is shut down, and a new Host withdraws
\* it in its first commit, before it stages anything.
SuspensionQuiescent == store.suspended => \A h \in Hosts : slots[h] = {}

\* "Retires all Generations and stops this Host permanently."
\* (lenso/src/host.rs:189): when the Controller finds every slot gone after
\* begin_shutdown, no record is left live.
ShutdownRetiresAll ==
    \A h \in Hosts :
        mode[h] = "closing" /\ At(h, "idle") /\ slots[h] = {} => Live(mem[h]) = {}

\* What the Controller finds in a Supervisor between its operations: slots and
\* records that agree, records that maintain can judge, and, once a shutdown has
\* ended, none that is live.
RecordsHold == SlotsMatchRecords /\ CandidatesJudgeable /\ ShutdownRetiresAll

\* "active slot must be live", "maintenance predecessor slot must be live":
\* no expect() of the Supervisor fails.
NoPanic == \A h \in Hosts : mode[h] # "panicked"

-----------------------------------------------------------------------------
(* Liveness                                                                 *)

\* Leases cannot hold a draining Generation for ever: its drain deadline ends it.
DrainEnds ==
    \A h \in Hosts, g \in Generations :
        (Running(h) /\ mem[h].records[g].lifecycle = "Draining")
            ~> (~Running(h) \/ mem[h].records[g].lifecycle # "Draining")

\* A shutdown that has begun ends, whatever leases are held.
ShutdownTerminates == \A h \in Hosts : mode[h] = "closing" ~> mode[h] = "down"

\* What is on its way out gets there.
DrainsEnd == DrainEnds /\ ShutdownTerminates

\* A routed Generation whose runtime failed terminally does not stay routed.
FailureLosesRoute ==
    \A h \in Hosts, g \in Generations :
        (Running(h) /\ mem[h].active = g /\ g \in dead[h]) ~> (mem[h].active # g)

-----------------------------------------------------------------------------
(* The inductive invariants of the proofs: fencing                          *)

\* An operation past the validation of its edge still has it.
EdgeKnown ==
    \A h \in Hosts :
        op[h].at \in {"candidate", "maintenance", "staging", "ready"} => op[h].edge \in Edges

\* Revision 0 is only ever the state the store was created with.
InitialRevision == store.revision = 0 => store = InitialState

\* The state recover is building differs from the one it fenced in its records
\* and, at most, in a withdrawn route.
RecoveryPlan ==
    \A h \in Hosts : At(h, "restaging") =>
        /\ plan[h].supervisorEpoch = mem[h].supervisorEpoch
        /\ plan[h].routingEpoch = mem[h].routingEpoch
        /\ plan[h].active \in {mem[h].active, None}

\* Fencing is inductive together with the types, the epochs and the plan: every
\* step of any Host either leaves the store or replaces the exact state it read.
FencingInv ==
    /\ TypeOK /\ EdgeKnown /\ InitialRevision
    /\ RecoveryPlan /\ EpochOwners /\ FencedOrExact

-----------------------------------------------------------------------------
(* ... the records                                                          *)

\* A live record names a transition that leads to its Generation or from it, and
\* has the deadline by which maintain judges its lifecycle.
Sensible(g, r) ==
    /\ r.lifecycle \in LiveLifecycles =>
          r.transition \in Edges /\ g \in {r.transition.from, r.transition.to}
    /\ r.lifecycle = "Standby" => r.rollbackDeadline # None
    /\ r.lifecycle = "Draining" => r.drainDeadline # None

Sane(s) == Closed(s) /\ \A g \in Generations : Sensible(g, s.records[g])

\* The candidate and the predecessor of a transition are where its earlier
\* steps left them.
TransitionFits(o, s) ==
    /\ o.at \in {"candidate", "maintenance"} =>
          /\ o.edge \in Edges /\ o.edge.mode = "Maintenance"
          /\ s.active = o.edge.from /\ s.active # None
          /\ s.records[o.edge.to].lifecycle = "Staged"
    /\ o.at \in {"staging", "unstaged", "ready"} =>
          /\ o.edge \in Edges
          /\ s.active = IF o.edge.mode = "Overlap" THEN o.edge.from ELSE None
          /\ s.active = None <=> o.edge.mode # "Overlap"
          /\ s.records[o.edge.to].lifecycle = IF o.at = "ready" THEN "Ready" ELSE "Staged"

\* What a pass has left to do is about predecessors that are still retained.
PassFits(o, s) ==
    /\ o.at = "reconcile" => s.active # None
    /\ o.at \in {"inactive", "candidates", "stop", "retiring"} =>
          \A g \in o.todo : s.records[g].lifecycle \in Retained
    /\ o.at \in {"stop", "retiring"} =>
          /\ o.gen \in Generations \ o.todo
          /\ s.records[o.gen].lifecycle \in Retained

\* The plan p of a recovery differs from s in records that are given up.
PlanFits(o, s, p) ==
    o.at = "restaging" =>
        /\ Closed(p)
        /\ \A g \in Generations :
              \/ p.records[g] = s.records[g]
              \/ g \notin o.todo /\ p.records[g].lifecycle = "Retired"

Fits(h) ==
    /\ TransitionFits(op[h], mem[h])
    /\ PassFits(op[h], mem[h])
    /\ PlanFits(op[h], mem[h], plan[h])

\* Every stored and remembered state makes sense, and every operation fits the
\* state it goes on from, whatever happened between its steps.
RecordsInv == Sane(store) /\ \A h \in Hosts : Sane(mem[h]) /\ Fits(h)

-----------------------------------------------------------------------------
(* ... modes, leases and deadlines                                          *)

Up(h) == mode[h] \notin {"down", "panicked"}

StartSteps == {"opening", "replacing", "fencing", "restaging"}

\* A Host starts in the steps of a start and in no other.
ModeFits(h) ==
    /\ mode[h] = "starting" <=> op[h].at \in StartSteps
    /\ ~Up(h) => At(h, "idle")

\* Leases are open only on a routed or draining Generation of a running Host.
LeasesFit(h) ==
    \A g \in Generations : leases[h][g] > 0 =>
        Running(h) /\ mem[h].records[g].lifecycle \in {"Active", "Draining"}

\* With leases l at time t, the Generation that a pass is about to stop has
\* failed, has outlived its deadline at the time the pass began, or is drained.
Justified(o, s, l, t) ==
    /\ o.at \in {"reconcile", "inactive", "candidates", "stop", "retiring"} => o.time <= t
    /\ o.at \in {"stop", "retiring"} =>
          LET r == s.records[o.gen]
          IN  \/ r.health = "Failed"
              \/ r.lifecycle = "Standby" /\ ~Open(r.rollbackDeadline, o.time)
              \/ r.lifecycle = "Draining" /\ ~Open(r.drainDeadline, o.time)
              \/ r.lifecycle = "Draining" /\ l[o.gen] = 0

\* No lease is open on a Generation that was shut down before its record says
\* so, nor on a slot of S once a suspension stops them.
Unleasing(o, l, S) ==
    /\ o.at = "maintenance" => l[o.edge.from] = 0
    /\ o.at = "retiring" => l[o.gen] = 0
    /\ o.at \in {"suspending", "bounded"} => \A g \in S : l[g] = 0

Careful(h) ==
    /\ ModeFits(h) /\ LeasesFit(h)
    /\ Justified(op[h], mem[h], leases[h], now)
    /\ Unleasing(op[h], leases[h], slots[h])

KeptInv == \A h \in Hosts : Careful(h)

\* Together: they hold with any number of Hosts and under every fault.
Inductive == FencingInv /\ RecordsInv /\ KeptInv

-----------------------------------------------------------------------------
(* ... suspension, for one Host at a time                                   *)

OneHostUp == \A h, k \in Hosts : Up(h) /\ Up(k) => h = k

\* A Host that owns the App found, or made, one that is not suspended, and does
\* not suspend it before it ends; the others have no slot.
Quiet(h) ==
    IF Owner(h)
    THEN /\ ~store.suspended /\ ~mem[h].suspended
         /\ (At(h, "restaging") => ~plan[h].suspended)
    ELSE slots[h] = {}

\* No runtime outlives the Host that suspends the App, and none is staged before
\* the suspension is withdrawn.
QuietInv == OneHostUp /\ \A h \in Hosts : Quiet(h)

-----------------------------------------------------------------------------
(* ... slots and failures, for one Host at a time and while commits succeed *)

\* The live records whose runtime operation o has yet to bring in, or has
\* already shut down.
Away(o) ==
    CASE o.at \in {"candidate", "staging", "unstaged", "ready"} -> {o.edge.to}
      [] o.at = "maintenance" -> {o.edge.from, o.edge.to}
      [] o.at = "retiring" -> {o.gen}
      [] OTHER -> {}

\* The slots of a Host while it starts, and then.
Expected(h) ==
    CASE ~Up(h) \/ op[h].at \in {"opening", "replacing", "fencing"} -> {}
      [] At(h, "restaging") ->
            {g \in Generations \ op[h].todo :
                plan[h].records[g].lifecycle \in {"Active", "Standby"}}
      [] op[h].at \in {"suspending", "bounded"} -> op[h].todo
      [] OTHER -> Live(mem[h]) \ Away(op[h])

\* A Host opens only a state with no live record; what recover has seen of a
\* plan is restaged or given up.
StartFits(h) ==
    /\ At(h, "opening") => Live(mem[h]) = {}
    /\ At(h, "restaging") =>
          \A g \in Generations \ op[h].todo :
              plan[h].records[g].lifecycle \notin {"Staged", "Ready", "Draining"}

\* One Host is up at a time, and it knows the durable state.
UpToDate ==
    \A h \in Hosts : Up(h) => mem[h] = store /\ \A k \in Hosts : Up(k) => k = h

\* A Host that is up has the slots it should have, and never panics.
SlotsInv ==
    /\ NoPanic /\ UpToDate
    /\ \A h \in Hosts : StartFits(h) /\ slots[h] = Expected(h)

\* A failure that is recorded of a live Generation is one that the pass is
\* dealing with, or will come to.
DealtWith(h, g) ==
    LET o == op[h]
        draining == mem[h].records[g].lifecycle = "Draining"
    IN  \/ o.at = "reconcile" /\ g = mem[h].active
        \/ o.at \in {"stop", "retiring"} /\ g = o.gen
        \/ o.at \in {"candidates", "stop", "retiring"} /\ draining /\ g \in o.todo
        \/ o.at \in {"stop", "retiring"} /\ draining /\ o.after = "inactive"
        \/ o.at = "inactive" /\ draining
        \/ mode[h] = "starting" /\ draining

\* A Host that ended in the middle of a pass leaves a failure at most in a
\* Generation that drains, which no recovery restages.
FailuresDealtWith ==
    /\ \A h \in Hosts : \A g \in Live(mem[h]) :
          mem[h].records[g].health = "Failed" => DealtWith(h, g)
    /\ (\A h \in Hosts : ~Up(h)) => \A g \in Live(store) :
          store.records[g].health = "Failed" => store.records[g].lifecycle = "Draining"

\* What holds between any two steps of a Host while no commit fails.
Orderly == Inductive /\ SlotsInv /\ QuietInv /\ FailuresDealtWith
=============================================================================
