------------------------ MODULE GenerationSupervisor ------------------------
(***************************************************************************)
(* The Supervisor that keeps its state in memory (GenerationSupervisor of  *)
(* lenso-plugin-control-plane): it stages complete Generations, switches   *)
(* the route under a new epoch, pins leases, rolls back and retires.       *)
(*                                                                         *)
(* transition and retire await the runtime with the Supervisor borrowed:   *)
(* meanwhile leases can be dropped and nothing else can happen to it.  A   *)
(* caller may drop the future of either.                                   *)
(*                                                                         *)
(* External: the runtime that stages and shuts down, which may fail.       *)
(***************************************************************************)
EXTENDS Naturals, FiniteSets

CONSTANTS Generations, None,
          StateOf,    \* stateful_instances: what state a Generation keeps ("none": no Instance)
          MaxEpoch,   \* bound: route switches
          LeaseIds    \* bound: leases held at one time

VARIABLES active, slots,   \* slots[g]: status, and the epoch that staged it (0: no slot)
          routingEpoch,
          held,            \* the leases: by id, the Generation, its epoch, and its slot
          pending,         \* what is awaited: none, stopping, staging, retiring
          edge,            \* the transition under way
          live             \* Generations the runtime has staged and not shut down

supervisor == <<active, slots, routingEpoch, held, pending, edge, live>>

Statuses == {"Active", "Draining", "RollbackStandby"}
NoSlot == [status |-> "none", staged |-> 0]
NoLease == [generation |-> None, epoch |-> 0, staged |-> 0]
Modes == {"Initial", "Overlap", "Maintenance"}

\* What a transition says: its replacement mode, its predecessor, its candidate, whether it has
\* a rollback window, asks for automatic rollback, and what its compatibility receipt grants.
TransitionSpecs ==
  [mode: Modes, from: Generations \cup {None}, to: Generations, window: BOOLEAN,
   automatic: BOOLEAN, receipt: {"none", "concurrent", "reads_back"}]
NoEdge == [mode |-> "Initial", from |-> None, to |-> None, window |-> FALSE,
           automatic |-> FALSE, receipt |-> "none"]

MemoryInit ==
  /\ active = None /\ slots = [g \in Generations |-> NoSlot] /\ routingEpoch = 0
  /\ held = [i \in LeaseIds |-> NoLease] /\ pending = "none" /\ edge = NoEdge /\ live = {}

HasSlot(g) == slots[g] # NoSlot
LeasesOf(g) == {i \in LeaseIds: held[i].generation = g /\ held[i].staged = slots[g].staged}

-----------------------------------------------------------------------------
(* transition                                                              *)

\* validate_edge
ClosesOver(e) ==
  /\ e.from = active
  /\ e.mode = "Initial" <=> active = None
  /\ e.mode = "Initial" => ~e.automatic

\* validate_state_compatibility: only an overlap of Generations whose state differs needs a
\* receipt, and then one for exactly this pair; state is not added or removed during an overlap.
Compatible(e) ==
  IF e.mode # "Overlap" \/ StateOf[e.from] = StateOf[e.to] THEN e.receipt = "none"
  ELSE /\ "none" \notin {StateOf[e.from], StateOf[e.to]} /\ e.receipt # "none"
       /\ e.window \/ e.automatic => e.receipt = "reads_back"

\* A maintenance replacement keeps nothing to roll back to.
Admitted(e) ==
  ClosesOver(e) /\ Compatible(e) /\ (e.mode = "Maintenance" => ~e.window /\ ~e.automatic)

\* Mutant: a candidate that was staged before is staged again.
UnstagedUnlessActive(g) == slots[g].status # "Active"

\* The candidate has no slot.
Unstaged(g) == ~HasSlot(g)

\* stop_active takes the active slot out before it knows that the candidate can be staged.
StopActive(e) ==
  /\ LeasesOf(active) = {}
  /\ slots' = [slots EXCEPT ![active] = NoSlot] /\ active' = None
  /\ pending' = "stopping" /\ edge' = e /\ UNCHANGED <<routingEpoch, held, live>>

\* Overlap and Initial look for the candidate's slot at once; nothing has changed if it has one.
Transition(e) ==
  /\ pending = "none" /\ Admitted(e)
  /\ \/ e.mode = "Maintenance" /\ StopActive(e)
     \/ /\ e.mode # "Maintenance" /\ Unstaged(e.to)
        /\ pending' = "staging" /\ edge' = e
        /\ UNCHANGED <<active, slots, routingEpoch, held, live>>

\* The shutdown of stop_active is over.  A failure ends the transition, and so does a candidate
\* that is staged already: either way the route is gone.
Stopped(ok) ==
  /\ pending = "stopping" /\ live' = live \ {edge.from}
  /\ pending' = IF ok /\ Unstaged(edge.to) THEN "staging" ELSE "none"
  /\ edge' = IF ok /\ Unstaged(edge.to) THEN edge ELSE NoEdge
  /\ UNCHANGED <<active, slots, routingEpoch, held>>

StageFails ==
  /\ pending = "staging" /\ pending' = "none" /\ edge' = NoEdge
  /\ UNCHANGED <<active, slots, routingEpoch, held, live>>

\* The route changes over in one step; the predecessor drains, or stands by.
Staged ==
  /\ pending = "staging" /\ routingEpoch < MaxEpoch
  /\ routingEpoch' = routingEpoch + 1 /\ active' = edge.to
  /\ slots' = [g \in Generations |->
       CASE g = edge.to -> [status |-> "Active", staged |-> routingEpoch']
         [] g = active ->
              [slots[g] EXCEPT !.status = IF edge.window THEN "RollbackStandby" ELSE "Draining"]
         [] OTHER -> slots[g]]
  /\ live' = live \cup {edge.to} /\ pending' = "none" /\ edge' = NoEdge /\ UNCHANGED held

\* The caller drops the future while the runtime stages or shuts down; what becomes of the
\* runtime's part is its own affair.
Dropped ==
  /\ pending # "none" /\ pending' = "none" /\ edge' = NoEdge
  /\ live' = {g \in live: HasSlot(g)}
  /\ UNCHANGED <<active, slots, routingEpoch, held>>

-----------------------------------------------------------------------------
(* lease, rollback, close_rollback_window, retire                          *)

Lease(i) ==
  /\ pending = "none" /\ active # None /\ held[i] = NoLease
  /\ held' = [held EXCEPT ![i] =
       [generation |-> active, epoch |-> routingEpoch, staged |-> slots[active].staged]]
  /\ UNCHANGED <<active, slots, routingEpoch, pending, edge, live>>

\* A lease is dropped whenever its holder is done with it.
DropLease(i) ==
  /\ held[i] # NoLease /\ held' = [held EXCEPT ![i] = NoLease]
  /\ UNCHANGED <<active, slots, routingEpoch, pending, edge, live>>

\* Mutant: every Generation that is still there is one to go back to.
StandsByOrDrains(g) == slots[g].status \in {"RollbackStandby", "Draining"}

\* g was kept to go back to.
StandsBy(g) == slots[g].status = "RollbackStandby"

Rollback(g) ==
  /\ pending = "none" /\ StandsBy(g) /\ routingEpoch < MaxEpoch
  /\ routingEpoch' = routingEpoch + 1 /\ active' = g
  /\ slots' = [x \in Generations |->
       CASE x = g -> [slots[x] EXCEPT !.status = "Active"]
         [] x = active -> [slots[x] EXCEPT !.status = "Draining"]
         [] OTHER -> slots[x]]
  /\ UNCHANGED <<held, pending, edge, live>>

CloseRollbackWindow(g) ==
  /\ pending = "none" /\ StandsBy(g)
  /\ slots' = [slots EXCEPT ![g].status = "Draining"]
  /\ UNCHANGED <<active, routingEpoch, held, pending, edge, live>>

Retire(g) ==
  /\ pending = "none" /\ slots[g].status = "Draining" /\ LeasesOf(g) = {}
  /\ slots' = [slots EXCEPT ![g] = NoSlot] /\ pending' = "retiring"
  /\ UNCHANGED <<active, routingEpoch, held, edge, live>>

\* The shutdown is over, whatever it says.
Retired ==
  /\ pending = "retiring" /\ pending' = "none" /\ live' = {g \in live: HasSlot(g)}
  /\ UNCHANGED <<active, slots, routingEpoch, held, edge>>

MemoryNext ==
  \/ \E e \in TransitionSpecs: Transition(e)
  \/ \E ok \in BOOLEAN: Stopped(ok)
  \/ StageFails \/ Staged \/ Dropped \/ Retired
  \/ \E i \in LeaseIds: Lease(i) \/ DropLease(i)
  \/ \E g \in Generations: Rollback(g) \/ CloseRollbackWindow(g) \/ Retire(g)

-----------------------------------------------------------------------------
(* Properties                                                              *)

\* Whoever holds a lease has its Generation: the slot it was taken from is there, counts it, and
\* its runtime is staged; and callers that were fenced by the same epoch are on the same
\* Generation.
LeasesPin ==
  \A i \in LeaseIds: held[i] # NoLease =>
    LET g == held[i].generation IN
      /\ i \in LeasesOf(g) /\ HasSlot(g) /\ g \in live /\ held[i].epoch <= routingEpoch
      /\ \A j \in LeaseIds: held[j].epoch = held[i].epoch => held[j].generation = g

\* For the abstract routing: a candidate while it is staged, routed and kept by their slots.
StageOf(g) ==
  CASE slots[g].status = "Active" -> "routed"
    [] slots[g].status = "RollbackStandby" -> "kept"
    [] pending = "staging" /\ edge.to = g -> "candidate"
    [] OTHER -> "unknown"

Routing == INSTANCE GenerationRouting WITH
  stage <- [g \in Generations |-> StageOf(g)], route <- active, epoch <- routingEpoch

\* What callers are promised by the durable Supervisor they are promised by this one: one routed
\* Generation, a new epoch for every switch, and no way back but from a standby.
RoutesAlike == Routing!Spec
=============================================================================
