----------------------------- MODULE OrderProofs -----------------------------
(***************************************************************************)
(* While one Host is up at a time and no commit fails with an I/O error,   *)
(* the slot map of a Host holds what its records and its operation say     *)
(* (SlotsInv).  Every step of a Host is Neat: it leaves the slots that its *)
(* next operation expects, and the other Hosts are down.                   *)
(*                                                                         *)
(* Whatever fails, no runtime is left in a suspended App (QuietInv): every *)
(* step of a Host is Hushed.                                               *)
(*                                                                         *)
(* While no Host crashes either, every failure on record is dealt with     *)
(* (FailuresDealtWith).  Every step of a Host Attends to its failures: its *)
(* next operation covers them, and a Host that ends leaves them draining.  *)
(***************************************************************************)
EXTENDS SupervisorProofs

\* No commit fails with an I/O error: neither before the rename nor after it.
StoreWorks == FaultKinds \cap {"store", "ack"} = {}

\* The slots of a running Host with operation o and records of s.
Slotted(o, s) ==
    IF o.at \in {"suspending", "bounded"} THEN o.todo ELSE Live(s) \ Away(o)

Neat(h) ==
    /\ mode'[h] # "panicked"
    /\ Up(h)' => mem'[h] = store'
    /\ slots'[h] = Expected(h)' /\ StartFits(h)'
    /\ \A k \in Hosts \ {h} : ~Up(k)

\* Neat steps of a Host keep the slots of all Hosts in order.
LEMMA NeatPreserves ==
  ASSUME SlotsInv, NEW h \in Hosts, Sound(h), Tended(h), Neat(h)
  PROVE  SlotsInv'
  <1>1. ASSUME NEW k \in Hosts \ {h}
        PROVE  /\ mem'[k] = mem[k] /\ plan'[k] = plan[k] /\ mode'[k] = mode[k]
               /\ op'[k] = op[k] /\ slots'[k] = slots[k] /\ ~Up(k)
    BY DEF Sound, HostStep, Others, Tended, Alone, Neat
  <1>2. ASSUME NEW k \in Hosts \ {h}
        PROVE  /\ ~Up(k)' /\ mode'[k] # "panicked"
               /\ slots'[k] = Expected(k)' /\ StartFits(k)'
    <2>1. mode[k] # "panicked" /\ StartFits(k) /\ slots[k] = Expected(k)
      BY DEF SlotsInv, NoPanic
    <2> QED BY <1>1, <2>1 DEF Up, StartFits, Expected, At
  <1>3. NoPanic'
    BY <1>2 DEF NoPanic, Neat
  <1>4. UpToDate'
    BY <1>2 DEF UpToDate, Neat
  <1> QED BY <1>2, <1>3, <1>4 DEF SlotsInv, Neat

\* The one Host that is up knows the durable state.
LEMMA OneUp ==
  ASSUME SlotsInv, NEW h \in Hosts, Up(h)
  PROVE  mem[h] = store /\ \A k \in Hosts \ {h} : ~Up(k)
  BY DEF SlotsInv, UpToDate

\* The slots of a running Host.
LEMMA RunningSlots ==
  ASSUME FencingInv, KeptInv, SlotsInv, NEW h \in Hosts, Running(h)
  PROVE  Up(h) /\ slots[h] = Slotted(op[h], mem[h])
  <1>1. Up(h) /\ op[h].at \notin StartSteps
    BY KeptParts DEF Running, Up, ModeFits
  <1>2. slots[h] = Expected(h)
    BY DEF SlotsInv
  <1> QED BY <1>1, <1>2 DEF Expected, Slotted, At, StartSteps

\* A Host that is up knows the state that its commit replaces.
LEMMA CommitWorks ==
  ASSUME SlotsInv, StoreWorks, NEW h \in Hosts, Up(h), NEW next, Proper(mem[h], next)
  PROVE  ~CommitFails(h, next)
  BY OneUp DEF CommitFails, Refused, IoError, Fault, Accepted, StoreWorks, Proper, Sane

\* A Host that stops leaves no slot.
LEMMA ExitNeat ==
  ASSUME FencingInv, SlotsInv, NEW h \in Hosts, Up(h), Exit(h)
  PROVE  Neat(h)
  <1>1. mode'[h] = "down" /\ slots'[h] = {} /\ op'[h] = Idle
    BY HostTypes DEF Exit, Leave, Goto, OpsOK, LiveOK
  <1>2. Idle.at = "idle"
    BY DEF Idle
  <1> QED BY <1>1, <1>2, OneUp DEF Neat, Up, Expected, StartFits, At

\* A Host that goes on has the slots of its next operation.
LEMMA RunsNeat ==
  ASSUME SlotsInv, NEW h \in Hosts, Up(h), Running(h)', NEW o, op'[h] = o,
         o.at \notin StartSteps, mem'[h] = store', slots'[h] = Slotted(o, mem'[h])
  PROVE  Neat(h)
  <1>1. Up(h)' /\ mode'[h] # "panicked"
    BY DEF Running, Up
  <1> QED BY <1>1, OneUp DEF Neat, Slotted, Expected, StartFits, At, StartSteps

\* A commit of a running Host, whatever becomes of the Host.
LEMMA CommitNeat ==
  ASSUME FencingInv, KeptInv, SlotsInv, StoreWorks, NEW h \in Hosts, Up(h),
         NEW next, Proper(mem[h], next), NEW o, o.at \notin StartSteps,
         \/ /\ Commit(h, next) /\ Goto(h, o) /\ Running(h)'
            /\ slots'[h] = Slotted(o, next)
         \/ CommitFails(h, next)
         \/ Exit(h)
  PROVE  Neat(h)
  <1>1. CASE Commit(h, next) /\ Goto(h, o) /\ Running(h)' /\ slots'[h] = Slotted(o, next)
    <2>1. mem'[h] = store' /\ Alike(next, store') /\ op'[h] = o
      BY <1>1, CommitUpdates, HostTypes DEF Goto, OpsOK
    <2>2. Slotted(o, mem'[h]) = Slotted(o, next)
      BY <2>1 DEF Alike, Slotted, Live
    <2> QED BY <1>1, <2>1, <2>2, RunsNeat
  <1> QED BY <1>1, CommitWorks, ExitNeat

\* A step that leaves the records and the slots alone.
LEMMA LooksNeat ==
  ASSUME FencingInv, KeptInv, SlotsInv, NEW h \in Hosts, Running(h),
         UNCHANGED <<store, mem, local>>, NEW o, Goto(h, o), o.at \notin StartSteps,
         slots'[h] = Slotted(o, mem[h])
  PROVE  Neat(h)
  <1>1. op'[h] = o /\ Running(h)' /\ mem'[h] = mem[h] /\ store' = store
    BY HostTypes DEF Goto, OpsOK, Running, local
  <1> QED BY <1>1, RunningSlots, OneUp, RunsNeat

-----------------------------------------------------------------------------
(* Starting a Host                                                          *)

\* A Host that starts, still or for the first time.
LEMMA StartNeat ==
  ASSUME NEW h \in Hosts, \A k \in Hosts \ {h} : ~Up(k),
         mode'[h] = "starting", mem'[h] = store', NEW o, op'[h] = o,
         \/ /\ o.at \in {"opening", "replacing", "fencing"} /\ slots'[h] = {}
            /\ o.at = "opening" => Live(store') = {}
         \/ /\ o.at = "restaging"
            /\ slots'[h] = {g \in Generations \ o.todo :
                               plan'[h].records[g].lifecycle \in {"Active", "Standby"}}
            /\ \A g \in Generations \ o.todo :
                  plan'[h].records[g].lifecycle \notin {"Staged", "Ready", "Draining"}
  PROVE  Neat(h)
  BY DEF Neat, Up, Expected, StartFits, At

\* load
LEMMA LoadNeat ==
  ASSUME FencingInv, KeptInv, SlotsInv, Exclusive, NEW h \in Hosts,
         NEW step \in {"opening", "replacing", "fencing"}, Load(h, step)
  PROVE  Neat(h)
  <1> DEFINE o == [Idle EXCEPT !.at = step, !.time = now]
  <1>1. o.at = step
    BY Zenon DEF Idle
  <1>2. /\ \A k \in Hosts : ~Up(k)
        /\ mode'[h] = "starting" /\ mem'[h] = store /\ store' = store
        /\ Goto(h, o) /\ slots' = slots /\ StartGuard(step)
    BY HostTypes DEF Load, Up, live, OpsOK, StatesOK
  <1> HIDE DEF o
  <1>3. op'[h] = o
    BY <1>2, HostTypes DEF Goto, OpsOK
  <1>4. slots[h] = {}
    <2>1. slots[h] = Expected(h) /\ ~Up(h) /\ op[h].at = "idle"
      BY <1>2, KeptParts DEF SlotsInv, ModeFits, At
    <2> QED BY <2>1 DEF Expected, At
  <1>5. step = "opening" => Live(store') = {}
    BY <1>2 DEF StartGuard
  <1> QED BY <1>1, <1>2, <1>3, <1>4, <1>5, StartNeat

\* What a Host that starts may rely on.
LEMMA StartingSlots ==
  ASSUME FencingInv, RecordsInv, KeptInv, SlotsInv, NEW h \in Hosts, op[h].at \in StartSteps
  PROVE  /\ Up(h) /\ mode[h] = "starting" /\ mem[h] = store
         /\ op[h] \in Operations /\ mem[h] \in ControlStates /\ Sane(mem[h])
         /\ op[h].at # "restaging" => slots[h] = {}
         /\ op[h].at = "opening" => Live(mem[h]) = {}
         /\ op[h].at = "restaging" =>
               /\ slots[h] = {g \in Generations \ op[h].todo :
                                plan[h].records[g].lifecycle \in {"Active", "Standby"}}
               /\ \A g \in Generations \ op[h].todo :
                    plan[h].records[g].lifecycle \notin {"Staged", "Ready", "Draining"}
  <1>1. mode[h] = "starting" /\ Up(h)
    BY Starting DEF Up
  <1>2. StartFits(h) /\ slots[h] = Expected(h)
    BY DEF SlotsInv
  <1> QED BY <1>1, <1>2, OneUp, HostRecords DEF StartFits, Expected, At, StartSteps

\* A Host serves when its first commit, or its second one, succeeds.
LEMMA ServeNeat ==
  ASSUME FencingInv, RecordsInv, KeptInv, SlotsInv, StoreWorks, NEW h \in Hosts,
         op[h].at \in StartSteps, NEW next, Proper(mem[h], next), slots[h] = Live(next),
         \/ Commit(h, next) /\ Serve(h) /\ UNCHANGED live
         \/ CommitFails(h, next)
  PROVE  Neat(h)
  <1>1. Idle.at = "idle" /\ Slotted(Idle, next) = Live(next)
    BY DEF Idle, Slotted, Away
  <1>2. Serve(h) => Goto(h, Idle) /\ Running(h)'
    BY HostTypes DEF Serve, Running, OpsOK
  <1>3. UNCHANGED live => slots' = slots
    BY DEF live
  <1> QED BY <1>1, <1>2, <1>3, StartingSlots, CommitNeat DEF StartSteps

\* HostBuilder::build opens a state without live records; replace_suspended
\* retires them.
LEMMA StartFreshNeat ==
  ASSUME FencingInv, RecordsInv, KeptInv, SlotsInv, StoreWorks, NEW h \in Hosts,
         OpenHost(h) \/ ReplaceHost(h)
  PROVE  Neat(h)
  <1>1. CASE OpenHost(h)
    <2> DEFINE next == OpenState(mem[h])
    <2>1. op[h].at = "opening" /\ op[h].at \in StartSteps
      BY <1>1 DEF OpenHost, At, StartSteps
    <2>2. Proper(mem[h], next)
      BY <2>1, StartingSlots, FlagsProper
    <2>3. Live(next) = {}
      <3>1. mem[h] \in ControlStates /\ Live(mem[h]) = {}
        BY <2>1, StartingSlots
      <3>2. next.records = mem[h].records
        BY <3>1, OpenStateChanges
      <3> QED BY <3>1, <3>2 DEF Live
    <2>4. \/ Commit(h, next) /\ Serve(h) /\ UNCHANGED live
          \/ CommitFails(h, next)
      BY <1>1 DEF OpenHost, StartFresh
    <2>5. slots[h] = {}
      BY <2>1, StartingSlots
    <2> HIDE DEF next
    <2> QED BY <2>1, <2>2, <2>3, <2>4, <2>5, ServeNeat
  <1>2. CASE ReplaceHost(h)
    <2> DEFINE next == ReplaceSuspended(mem[h])
    <2>1. op[h].at = "replacing" /\ op[h].at \in StartSteps
      BY <1>2 DEF ReplaceHost, At, StartSteps
    <2>2. Proper(mem[h], next)
      BY <2>1, StartingSlots, ReplaceSuspendedProper
    <2>3. Live(next) = {}
      <3>1. mem[h] \in ControlStates
        BY <2>1, StartingSlots
      <3>2. \A g \in Generations :
              IF g \in Live(mem[h]) THEN next.records[g].lifecycle = "Retired"
                                   ELSE next.records[g] = mem[h].records[g]
        BY <3>1, ReplaceSuspendedChanges
      <3> QED BY <3>2 DEF Live, LiveLifecycles
    <2>4. \/ Commit(h, next) /\ Serve(h) /\ UNCHANGED live
          \/ CommitFails(h, next)
      BY <1>2 DEF ReplaceHost, StartFresh
    <2>5. slots[h] = {}
      BY <2>1, StartingSlots
    <2> HIDE DEF next
    <2> QED BY <2>1, <2>2, <2>3, <2>4, <2>5, ServeNeat
  <1> QED BY <1>1, <1>2

\* recover fences: nothing is restaged yet.
LEMMA RecoverFenceNeat ==
  ASSUME FencingInv, RecordsInv, KeptInv, SlotsInv, StoreWorks, NEW h \in Hosts,
         RecoverFence(h)
  PROVE  Neat(h)
  <1> DEFINE next == FenceForRecovery(mem[h])
             o == [op[h] EXCEPT !.at = "restaging", !.todo = Live(next)]
  <1>1. op[h].at = "fencing" /\ op[h].at \in StartSteps
    BY DEF RecoverFence, At, StartSteps
  <1>2. Proper(mem[h], next)
    BY <1>1, StartingSlots, FlagsProper
  <1>3. o.at = "restaging" /\ o.todo = Live(next)
    BY <1>1, StartingSlots, Zenon DEF Operations
  <1>4. \/ Commit(h, next) /\ Goto(h, o) /\ UNCHANGED <<mode, live>>
           /\ plan' = [plan EXCEPT ![h] = Stamped(h, next)]
        \/ CommitFails(h, next)
    BY DEF RecoverFence
  <1> HIDE DEF next, o
  <1>5. CASE Commit(h, next) /\ Goto(h, o) /\ UNCHANGED <<mode, live>>
             /\ plan' = [plan EXCEPT ![h] = Stamped(h, next)]
    <2>1. mem'[h] = store' /\ Alike(next, store') /\ op'[h] = o
      BY <1>2, <1>5, CommitUpdates, HostTypes DEF Goto, OpsOK
    <2>2. plan'[h] = store'
      BY <1>5, HostTypes DEF Commit, Write, StatesOK
    <2>3. slots'[h] = {} /\ mode'[h] = "starting"
      BY <1>1, <1>5, StartingSlots DEF live
    <2>4. \A g \in Generations \ o.todo : plan'[h].records[g].lifecycle \notin LiveLifecycles
      BY <1>3, <2>1, <2>2 DEF Live, Alike
    <2>5. slots'[h] = {g \in Generations \ o.todo :
                         plan'[h].records[g].lifecycle \in {"Active", "Standby"}}
      BY <2>3, <2>4 DEF LiveLifecycles
    <2> QED BY <1>1, <1>3, <2>1, <2>3, <2>4, <2>5, StartingSlots, OneUp, StartNeat
            DEF LiveLifecycles
  <1> QED BY <1>1, <1>2, <1>4, <1>5, StartingSlots, CommitWorks

\* recover deals with one record.
LEMMA RecoverRecordNeat ==
  ASSUME FencingInv, RecordsInv, KeptInv, SlotsInv, NEW h \in Hosts, NEW g \in Generations,
         RecoverRecord(h, g)
  PROVE  Neat(h)
  <1> DEFINE T == op[h].todo \ {g}
             o == [op[h] EXCEPT !.todo = T]
             p == plan[h]
             r == mem[h].records[g]
  <1>1. /\ op[h].at = "restaging" /\ op[h].at \in StartSteps /\ g \in op[h].todo
        /\ store' = store /\ mem' = mem /\ mode' = mode /\ Goto(h, o)
        /\ op[h] \in Operations /\ p \in ControlStates /\ StatesOK /\ OpsOK /\ LiveOK
    BY HostTypes DEF RecoverRecord, At, StartSteps
  <1>2. o.at = "restaging" /\ o.todo = T /\ op'[h] = o
    <2>1. o.at = "restaging" /\ o.todo = T
      BY <1>1, Zenon DEF Operations
    <2> QED BY <1>1, <2>1 DEF Goto, OpsOK
  <1>3. p.records[g] = r
    BY <1>1, HostRecords DEF PlanFits
  <1>4. \/ /\ plan'[h] = p /\ slots'[h] = slots[h] \union {g}
           /\ r.lifecycle \in {"Active", "Standby"}
        \/ /\ GivesUp(p, plan'[h], g) \/ (SameBut(p, plan'[h], g, g)
                                          /\ plan'[h].records[g].lifecycle = "Retired")
           /\ slots'[h] = slots[h]
    <2>1. \/ Insert(h, g) /\ plan' = plan /\ r.lifecycle \in {"Active", "Standby"}
          \/ plan' = [plan EXCEPT ![h] = Abandon(p, g, "RecoveryCleanup")] /\ UNCHANGED live
          \/ plan' = [plan EXCEPT ![h] = Abandon(p, g, "RollbackWindowExpired")] /\ UNCHANGED live
          \/ plan' = [plan EXCEPT ![h] = Unstaged(p, g)] /\ UNCHANGED live
      BY DEF RecoverRecord
    <2>2. ASSUME NEW q, NEW reason \in Reasons, q = Abandon(p, g, reason) \/ q = Unstaged(p, g)
          PROVE  SameBut(p, q, g, g) /\ q.records[g].lifecycle = "Retired"
      BY <1>1, <2>2, AbandonChanges, UnstagedChanges
    <2>3. Insert(h, g) => slots'[h] = slots[h] \union {g}
      BY <1>1 DEF Insert, LiveOK
    <2>4. UNCHANGED live => slots'[h] = slots[h]
      BY DEF live
    <2>5. \/ Insert(h, g) /\ plan'[h] = p /\ r.lifecycle \in {"Active", "Standby"}
          \/ plan'[h] = Abandon(p, g, "RecoveryCleanup") /\ UNCHANGED live
          \/ plan'[h] = Abandon(p, g, "RollbackWindowExpired") /\ UNCHANGED live
          \/ plan'[h] = Unstaged(p, g) /\ UNCHANGED live
      BY <1>1, <2>1 DEF StatesOK
    <2> QED BY <2>2, <2>3, <2>4, <2>5, Names
  <1> HIDE DEF o, p, r
  <1>5. /\ slots'[h] = {x \in Generations \ T :
                          plan'[h].records[x].lifecycle \in {"Active", "Standby"}}
        /\ \A x \in Generations \ T :
              plan'[h].records[x].lifecycle \notin {"Staged", "Ready", "Draining"}
    <2>1. /\ slots[h] = {x \in Generations \ op[h].todo :
                           p.records[x].lifecycle \in {"Active", "Standby"}}
          /\ \A x \in Generations \ op[h].todo :
               p.records[x].lifecycle \notin {"Staged", "Ready", "Draining"}
      BY <1>1, StartingSlots DEF p
    <2> QED BY <1>1, <1>3, <1>4, <2>1 DEF GivesUp, SameBut
  <1>6. mode'[h] = "starting" /\ mem'[h] = store' /\ \A k \in Hosts \ {h} : ~Up(k)
    BY <1>1, StartingSlots, OneUp
  <1> QED BY <1>2, <1>5, <1>6, StartNeat

\* The second commit of recover.
LEMMA RecoverFinishNeat ==
  ASSUME FencingInv, RecordsInv, KeptInv, SlotsInv, StoreWorks, NEW h \in Hosts,
         RecoverFinish(h)
  PROVE  Neat(h)
  <1> DEFINE p == plan[h]
  <1>1. /\ mem[h] \in ControlStates /\ Sane(mem[h]) /\ p \in ControlStates
        /\ op[h].at = "restaging" /\ PlanFits(op[h], mem[h], p) /\ op[h].todo = {}
    BY HostRecords DEF RecoverFinish, At, StatesOK
  <1>2. p.routingEpoch = mem[h].routingEpoch /\ p.active \in {mem[h].active, None}
    BY <1>1, LocalParts DEF FencingInv, LocalOK, At
  <1>3. Planned(mem[h], p)
    BY <1>1, <1>2 DEF Planned, PlanFits
  <1>4. Proper(mem[h], p)
    BY <1>1, <1>3, PlanProper
  <1>5. op[h].at \in StartSteps
    BY <1>1 DEF StartSteps
  <1>6. slots[h] = Live(p)
    BY <1>1, <1>5, StartingSlots DEF Live, LiveLifecycles
  <1>7. ASSUME NEW g \in Successors(h)
        PROVE  Proper(mem[h], Promote(p, g)) /\ Live(Promote(p, g)) = Live(p)
    <2>1. g \in slots[h] /\ p.active = None /\ p.records[g].lifecycle = "Standby"
      BY DEF Successors
    <2>2. g \in Generations
      BY <2>1, HostTypes
    <2>3. /\ SameBut(p, Promote(p, g), g, g)
          /\ Promote(p, g).records[g].lifecycle = "Active"
      BY <1>1, <2>2, PromoteChanges DEF Becomes
    <2>4. Live(Promote(p, g)) = Live(p)
      BY <2>1, <2>3 DEF Live, LiveLifecycles, SameBut
    <2> QED BY <1>1, <1>3, <2>1, <2>2, <2>4, PromoteProper
  <1> HIDE DEF Successors, p
  <1>8. PICK next : /\ Proper(mem[h], next) /\ Live(next) = Live(p)
                    /\ \/ Commit(h, next) /\ Serve(h) /\ UNCHANGED live
                       \/ CommitFails(h, next)
    BY <1>4, <1>7 DEF RecoverFinish, p
  <1> QED BY <1>5, <1>6, <1>8, ServeNeat

\* A Host starts.
LEMMA StartsNeat ==
  ASSUME FencingInv, RecordsInv, KeptInv, SlotsInv, Exclusive, StoreWorks, NEW h \in Hosts,
         Start(h)
  PROVE  Neat(h)
  <1>1. CASE RecoverAbort(h)
    BY <1>1, StartingSlots, ExitNeat DEF RecoverAbort, At, StartSteps
  <1> QED BY <1>1, LoadNeat, StartFreshNeat, RecoverFenceNeat, RecoverRecordNeat,
             RecoverFinishNeat DEF Start

-----------------------------------------------------------------------------
(* transition                                                               *)

\* What an update of two records makes of the live Generations.
LEMMA LiveUpdate ==
  ASSUME NEW s, NEW n, NEW g \in Generations, NEW k \in Generations, SameBut(s, n, g, k)
  PROVE  /\ Live(n) \ {g, k} = Live(s) \ {g, k}
         /\ \A x \in Generations : /\ x \in Live(s) <=> s.records[x].lifecycle \in LiveLifecycles
                                   /\ x \in Live(n) <=> n.records[x].lifecycle \in LiveLifecycles
  BY DEF SameBut, Live

\* The names of the live lifecycles.
LEMMA LiveNames ==
  /\ {"Staged", "Ready", "Active", "Draining", "Standby"} = LiveLifecycles
  /\ Retained = {"Draining", "Standby"}
  /\ "Retired" \notin LiveLifecycles /\ "Absent" \notin LiveLifecycles
  BY DEF LiveLifecycles, Retained

\* Steps at which every live record has its runtime.
Present(o) == o.at \in {"idle", "reconcile", "inactive", "candidates", "stop", "draining"}

\* Their slots are all there.
LEMMA PresentSlots ==
  ASSUME NEW o, Present(o), NEW s
  PROVE  Slotted(o, s) = Live(s) /\ o.at \notin StartSteps
  BY DEF Present, Slotted, Away, StartSteps

\* The slots of a Host at such a step.
LEMMA AllPresent ==
  ASSUME FencingInv, KeptInv, SlotsInv, NEW h \in Hosts, Running(h), Present(op[h])
  PROVE  Up(h) /\ slots[h] = Live(mem[h])
  BY RunningSlots, PresentSlots

\* The routed Generation has a slot.
LEMMA RoutedPresent ==
  ASSUME FencingInv, RecordsInv, NEW h \in Hosts, mem[h].active # None
  PROVE  /\ mem[h].active \in Generations /\ mem[h].active \in Live(mem[h])
         /\ mem[h].records[mem[h].active].lifecycle = "Active"
  <1>1. /\ mem[h].active \in Generations
        /\ mem[h].records[mem[h].active].lifecycle = "Active"
    BY HostRecords, RecordParts, ClosedMeans DEF Sane
  <1> QED BY <1>1, LiveNames DEF Live

\* A command finds its Host between two operations.
LEMMA AtCommand ==
  ASSUME FencingInv, KeptInv, SlotsInv, NEW h \in Hosts, Command(h)
  PROVE  /\ Running(h) /\ Up(h) /\ op[h].at = "idle" /\ slots[h] = Live(mem[h])
         /\ UNCHANGED local => Running(h)'
  <1>1. Running(h) /\ op[h].at = "idle"
    BY DEF Command, Running, At
  <1> QED BY <1>1, AllPresent DEF Present, local, Running

\* transition: the expect("active slot must be live") of an overlapping edge
\* holds, and the candidate has no slot yet.
LEMMA TransitionNeat ==
  ASSUME FencingInv, RecordsInv, KeptInv, SlotsInv, StoreWorks, NEW h \in Hosts,
         NEW e \in Edges, Transition(h, e)
  PROVE  Neat(h)
  <1> DEFINE next == StageCandidate(mem[h], e, now)
             x == IF e.mode = "Maintenance" THEN "candidate" ELSE "staging"
             o == [Idle EXCEPT !.at = x, !.edge = e, !.time = now]
  <1>1. Command(h) /\ ValidEdge(mem[h], e) /\ e.to \in Generations
    BY DEF Transition, Edges
  <1>2. ~(e.mode = "Overlap" /\ e.from \notin slots[h])
    BY <1>1, AtCommand, RoutedPresent DEF ValidEdge
  <1>3. /\ NewCandidate(mem[h], e.to)
        /\ \/ Commit(h, next) /\ Goto(h, o) /\ UNCHANGED <<local, live>>
           \/ CommitFails(h, next)
    BY <1>2 DEF Transition
  <1>4. Proper(mem[h], next) /\ SameBut(mem[h], next, e.to, e.to)
    BY <1>3, HostRecords, StageCandidateProper, StageCandidateChanges
  <1>5. o.at = x /\ o.edge = e
    BY Zenon DEF Idle
  <1> HIDE DEF next, o
  <1>6. e.to \notin Live(mem[h])
    BY <1>1, <1>3, LiveNames DEF NewCandidate, Live
  <1>7. Slotted(o, next) = slots[h] /\ o.at \notin StartSteps
    <2>1. Slotted(o, next) = Live(next) \ {e.to} /\ o.at \notin StartSteps
      BY <1>5 DEF Slotted, Away, StartSteps
    <2> QED BY <1>1, <1>4, <1>6, <2>1, AtCommand, LiveUpdate
  <1>8. UNCHANGED <<local, live>> => UNCHANGED local /\ slots' = slots
    BY DEF live
  <1> QED BY <1>1, <1>3, <1>4, <1>7, <1>8, AtCommand, CommitNeat

\* What the steps of a transition may rely on.
LEMMA TransitionSlots ==
  ASSUME FencingInv, RecordsInv, KeptInv, SlotsInv, NEW h \in Hosts,
         op[h].at \in {"candidate", "maintenance", "staging", "unstaged", "ready"}
  PROVE  /\ Up(h) /\ op[h].edge.to \in Generations
         /\ slots[h] = Live(mem[h]) \ (IF op[h].at = "maintenance"
                                       THEN {op[h].edge.from, op[h].edge.to}
                                       ELSE {op[h].edge.to})
  <1>1. Running(h) /\ op[h].edge.to \in Generations
    BY InTransition
  <1>2. Up(h) /\ slots[h] = Slotted(op[h], mem[h])
    BY <1>1, RunningSlots
  <1>3. Slotted(op[h], mem[h]) = Live(mem[h]) \ (IF op[h].at = "maintenance"
                                                 THEN {op[h].edge.from, op[h].edge.to}
                                                 ELSE {op[h].edge.to})
    BY DEF Slotted, Away
  <1> QED BY <1>1, <1>2, <1>3

\* A commit with which a transition goes on, ends or gives up.
LEMMA TransitionCommitNeat ==
  ASSUME FencingInv, RecordsInv, KeptInv, SlotsInv, StoreWorks, NEW h \in Hosts,
         op[h].at \in {"candidate", "maintenance", "staging", "unstaged", "ready"},
         NEW next, Proper(mem[h], next), NEW o, o.at \notin StartSteps,
         slots[h] = Slotted(o, next), Survives(h, next, o) \/ CommitFails(h, next)
  PROVE  Neat(h)
  <1>1. Survives(h, next, o) => /\ Commit(h, next) /\ Goto(h, o) /\ slots' = slots
                                /\ UNCHANGED local
    BY DEF Survives, live
  <1> QED BY <1>1, InTransition, TransitionSlots, CommitNeat

\* The candidate is given up, or Ready.
LEMMA StageNeat ==
  ASSUME FencingInv, RecordsInv, KeptInv, SlotsInv, StoreWorks, NEW h \in Hosts,
         RefuseLeased(h) \/ RecordStageFailure(h) \/ StageFails(h) \/ StageSucceeds(h)
  PROVE  Neat(h)
  <1> DEFINE to == op[h].edge.to
  <1>1. CASE RefuseLeased(h) \/ RecordStageFailure(h)
    <2> DEFINE next == FailCandidate(mem[h], to)
    <2>1. /\ op[h].at \in {"candidate", "unstaged"}
          /\ Survives(h, next, Idle) \/ CommitFails(h, next)
      BY <1>1 DEF RefuseLeased, RecordStageFailure, CommitAndReply, At, Survives
    <2>2. mem[h].records[to].lifecycle = "Staged" /\ mem[h] \in ControlStates
          /\ Sane(mem[h]) /\ to \in Generations
      BY <2>1, InTransition DEF TransitionFits
    <2>3. /\ Proper(mem[h], next) /\ SameBut(mem[h], next, to, to)
          /\ next.records[to].lifecycle = "Retired"
      BY <2>2, CandidateProper, FailCandidateChanges
    <2>4. slots[h] = Live(mem[h]) \ {to}
      BY <2>1, TransitionSlots
    <2>5. Present(Idle)
      BY DEF Present, Idle
    <2> HIDE DEF next, to
    <2>6. slots[h] = Slotted(Idle, next) /\ Idle.at \notin StartSteps
      <3>1. Live(next) \ {to} = Live(mem[h]) \ {to} /\ to \notin Live(next)
        BY <2>2, <2>3, LiveUpdate, LiveNames
      <3> QED BY <2>4, <2>5, <3>1, PresentSlots
    <2> QED BY <2>1, <2>3, <2>6, TransitionCommitNeat
  <1>2. CASE StageFails(h)
    <2> DEFINE o == [op[h] EXCEPT !.at = "unstaged"]
    <2>1. /\ op[h].at = "staging" /\ Goto(h, o) /\ UNCHANGED <<store, mem, local>>
          /\ slots' = slots
      BY <1>2 DEF StageFails, At, live
    <2>2. Moved(op[h], o, "unstaged")
      BY HostTypes, MovesOn
    <2> HIDE DEF o
    <2>3. Slotted(o, mem[h]) = Slotted(op[h], mem[h]) /\ o.at \notin StartSteps
      BY <2>1, <2>2 DEF Moved, Slotted, Away, StartSteps
    <2> QED BY <2>1, <2>3, InTransition, RunningSlots, LooksNeat
  <1>3. CASE StageSucceeds(h)
    <2> DEFINE next == MarkReady(mem[h], to)
               o == [op[h] EXCEPT !.at = "ready"]
    <2>1. /\ op[h].at = "staging"
          /\ Survives(h, next, o) \/ CommitFails(h, next)
      BY <1>3 DEF StageSucceeds, At, Survives
    <2>2. mem[h].records[to].lifecycle = "Staged" /\ mem[h] \in ControlStates
          /\ Sane(mem[h]) /\ to \in Generations
      BY <2>1, InTransition DEF TransitionFits
    <2>3. Proper(mem[h], next) /\ SameBut(mem[h], next, to, to)
      BY <2>2, CandidateProper, MarkReadyChanges
    <2>4. slots[h] = Live(mem[h]) \ {to}
      BY <2>1, TransitionSlots
    <2>5. Moved(op[h], o, "ready")
      BY HostTypes, MovesOn
    <2> HIDE DEF next, o
    <2>6. Slotted(o, next) = Live(next) \ {to} /\ o.at \notin StartSteps
      BY <2>5 DEF Moved, Slotted, Away, StartSteps
    <2>7. slots[h] = Slotted(o, next)
      BY <2>2, <2>3, <2>4, <2>6, LiveUpdate
    <2> QED BY <2>1, <2>3, <2>6, <2>7, TransitionCommitNeat
  <1> QED BY <1>1, <1>2, <1>3

\* Maintenance: the predecessor has a slot, which is taken out.
LEMMA StopPredecessorNeat ==
  ASSUME FencingInv, RecordsInv, KeptInv, SlotsInv, NEW h \in Hosts, StopPredecessor(h)
  PROVE  Neat(h)
  <1> DEFINE e == op[h].edge
             o == [op[h] EXCEPT !.at = "maintenance"]
             p == [op[h] EXCEPT !.at = "maintenance", !.clean = FALSE]
  <1>1. op[h].at = "candidate"
    BY DEF StopPredecessor, At
  <1>2. /\ Running(h) /\ slots[h] = Live(mem[h]) \ {e.to} /\ e.to \in Generations
        /\ mem[h].active = e.from /\ e.from # None
        /\ mem[h].records[e.to].lifecycle = "Staged"
    BY <1>1, InTransition, TransitionSlots DEF TransitionFits
  <1>3. e.from \in slots[h]
    BY <1>2, RoutedPresent
  <1>4. /\ Drop(h, e.from) /\ UNCHANGED <<store, mem, local>>
        /\ Goto(h, o) \/ Goto(h, p)
    BY <1>3 DEF StopPredecessor
  <1>5. Moved(op[h], o, "maintenance") /\ Moved(op[h], p, "maintenance")
    BY HostTypes, MovesOn
  <1>6. slots'[h] = slots[h] \ {e.from}
    BY <1>4, LiveSteps
  <1> HIDE DEF o, p, e
  <1>7. ASSUME NEW q, Moved(op[h], q, "maintenance")
        PROVE  slots'[h] = Slotted(q, mem[h]) /\ q.at \notin StartSteps
    <2>1. Slotted(q, mem[h]) = Live(mem[h]) \ {e.from, e.to} /\ q.at \notin StartSteps
      BY <1>7 DEF Moved, Slotted, Away, StartSteps, e
    <2> QED BY <1>2, <1>6, <2>1
  <1> QED BY <1>2, <1>4, <1>5, <1>7, LooksNeat

\* ... and retired, with its candidate when the shutdown failed.
LEMMA RetirePredecessorNeat ==
  ASSUME FencingInv, RecordsInv, KeptInv, SlotsInv, StoreWorks, NEW h \in Hosts,
         RetirePredecessor(h)
  PROVE  Neat(h)
  <1> DEFINE e == op[h].edge
             ok == op[h].clean
             next == StopForMaintenance(mem[h], e, ok)
             p == [op[h] EXCEPT !.at = "staging"]
             o == IF ok THEN p ELSE Idle
  <1>1. /\ op[h].at = "maintenance"
        /\ Survives(h, next, o) \/ CommitFails(h, next)
    BY DEF RetirePredecessor, At, Survives
  <1>2. /\ mem[h] \in ControlStates /\ Sane(mem[h]) /\ e \in Edges /\ e.to \in Generations
        /\ mem[h].active = e.from /\ e.from # None
        /\ mem[h].records[e.to].lifecycle = "Staged"
        /\ slots[h] = Live(mem[h]) \ {e.from, e.to}
    BY <1>1, InTransition, TransitionSlots DEF TransitionFits
  <1>3. e.from \in Generations /\ e.from # e.to
    BY <1>2, RoutedPresent
  <1>4. Proper(mem[h], next) /\ Stopped(mem[h], next, e, ok)
    BY <1>2, <1>3, StopForMaintenanceProper, StopForMaintenanceChanges
  <1>5. Moved(op[h], p, "staging") /\ Present(Idle)
    BY HostTypes, MovesOn DEF Present, Idle
  <1> HIDE DEF next, p, e, ok
  <1>6. e.from \notin Live(next)
    BY <1>4, LiveNames DEF Stopped, Live
  <1>7. Live(next) \ {e.from, e.to} = slots[h]
    BY <1>2, <1>3, <1>4, LiveUpdate DEF Stopped
  <1>8. CASE ok
    <2>1. Slotted(p, next) = Live(next) \ {e.to} /\ p.at \notin StartSteps
      BY <1>5 DEF Moved, Slotted, Away, StartSteps, e
    <2>2. slots[h] = Slotted(p, next)
      BY <1>6, <1>7, <2>1
    <2> QED BY <1>1, <1>4, <1>8, <2>1, <2>2, TransitionCommitNeat
  <1>9. CASE ~ok
    <2>1. e.to \notin Live(next)
      BY <1>4, <1>9, LiveNames DEF Stopped, Live
    <2>2. slots[h] = Slotted(Idle, next) /\ Idle.at \notin StartSteps
      BY <1>5, <1>6, <1>7, <2>1, PresentSlots
    <2> QED BY <1>1, <1>4, <1>9, <2>2, TransitionCommitNeat
  <1> QED BY <1>8, <1>9

\* The route switch; the handle becomes a slot.
LEMMA PublishNeat ==
  ASSUME FencingInv, RecordsInv, KeptInv, SlotsInv, StoreWorks, NEW h \in Hosts, Publish(h)
  PROVE  Neat(h)
  <1> DEFINE e == op[h].edge
             t == op[h].time
             k == IF e.mode = "Overlap" THEN e.from ELSE e.to
             next == Switch(mem[h], e, t)
  <1>1. op[h].at = "ready"
    BY DEF Publish, At
  <1>2. /\ mem[h] \in ControlStates /\ Sane(mem[h]) /\ e \in Edges /\ e.to \in Generations
        /\ mem[h].active = (IF e.mode = "Overlap" THEN e.from ELSE None)
        /\ mem[h].active = None <=> e.mode # "Overlap"
        /\ mem[h].records[e.to].lifecycle = "Ready" /\ t \in Nat
        /\ slots[h] = Live(mem[h]) \ {e.to} /\ Up(h)
        /\ UNCHANGED local => Running(h)'
    BY <1>1, InTransition, TransitionSlots, HostTypes DEF TransitionFits
  <1>3. /\ e.mode = "Overlap" => /\ e.from \in Generations /\ e.from # e.to
                                 /\ mem[h].records[e.from].lifecycle = "Active"
        /\ k \in Generations
    BY <1>2, RoutedPresent
  <1>4. Proper(mem[h], next) /\ SwitchedAlong(mem[h], next, e)
    BY <1>2, <1>3, SwitchProper, SwitchChanges
  <1>5. \/ Commit(h, next) /\ Insert(h, e.to) /\ Goto(h, Idle) /\ UNCHANGED local
        \/ CommitFails(h, next)
    BY DEF Publish
  <1>6. Insert(h, e.to) => slots'[h] = slots[h] \union {e.to}
    BY LiveSteps
  <1> HIDE DEF next, e, t
  <1>7. /\ SameBut(mem[h], next, e.to, k) /\ next.records[e.to].lifecycle = "Active"
        /\ e.mode = "Overlap" => next.records[e.from].lifecycle = "Draining"
    BY <1>4 DEF SwitchedAlong, Becomes
  <1>8. slots[h] \union {e.to} = Live(next)
    BY <1>2, <1>3, <1>7, LiveUpdate, LiveNames
  <1>9. Slotted(Idle, next) = Live(next) /\ Idle.at \notin StartSteps
    BY PresentSlots DEF Present, Idle
  <1> QED BY <1>2, <1>4, <1>5, <1>6, <1>8, <1>9, CommitNeat

-----------------------------------------------------------------------------
(* Updates that leave the live Generations as they are                      *)

\* Two records that stay live, and the others as they were.
LEMMA LiveStays ==
  ASSUME NEW s, NEW n, NEW g \in Generations, NEW k \in Generations, SameBut(s, n, g, k),
         s.records[g].lifecycle \in LiveLifecycles <=> n.records[g].lifecycle \in LiveLifecycles,
         s.records[k].lifecycle \in LiveLifecycles <=> n.records[k].lifecycle \in LiveLifecycles
  PROVE  Live(n) = Live(s)
  <1>1. \A x \in Generations : s.records[x].lifecycle \in LiveLifecycles
                             <=> n.records[x].lifecycle \in LiveLifecycles
    BY DEF SameBut
  <1> HIDE DEF LiveLifecycles
  <1> QED BY <1>1 DEF Live

\* rollback
LEMMA RolledLive ==
  ASSUME NEW s \in ControlStates, Sane(s), NEW g \in Generations, NEW t \in Nat,
         NEW u, RollbackTarget(s, g, u), NEW n, n = Roll(s, g, t)
  PROVE  Proper(s, n) /\ Live(n) = Live(s)
  <1> DEFINE a == s.active
  <1>1. /\ a \in Generations /\ g # a /\ s.records[a].lifecycle = "Active"
        /\ s.records[g].lifecycle \in Retained
    <2>1. a \in Generations /\ s.records[g].lifecycle \in Retained
      BY RecordParts DEF RollbackTarget
    <2> QED BY <2>1, ClosedMeans DEF Sane, Retained
  <1>2. /\ SameBut(s, n, g, a)
        /\ n.records[g].lifecycle = "Active" /\ n.records[a].lifecycle = "Draining"
    BY <1>1, RollChanges DEF Becomes
  <1>3. Live(n) = Live(s)
    BY <1>1, <1>2, LiveNames, LiveStays DEF Retained
  <1> QED BY <1>3, RollProper

\* The route withdrawn from a failed Generation.
LEMMA FencedLive ==
  ASSUME NEW s \in ControlStates, Sane(s), s.active # None, NEW t \in Nat,
         NEW n, n = FenceActive(s, t)
  PROVE  Proper(s, n) /\ Live(n) = Live(s)
  <1> DEFINE a == s.active
  <1>1. a \in Generations /\ s.records[a].lifecycle = "Active"
    BY RecordParts, ClosedMeans DEF Sane
  <1>2. SameBut(s, n, a, a) /\ n.records[a].lifecycle = "Draining"
    BY <1>1, FenceActiveChanges DEF Becomes
  <1> HIDE DEF a
  <1>3. Live(n) = Live(s)
    BY <1>1, <1>2, LiveNames, LiveStays
  <1> QED BY <1>3, FenceActiveProper

\* A recorded failure.
LEMMA FailedLive ==
  ASSUME NEW s \in ControlStates, Sane(s), NEW g \in Generations, NEW n, n = MarkFailed(s, g)
  PROVE  Proper(s, n) /\ Live(n) = Live(s)
  <1>1. SameBut(s, n, g, g) /\ n.records[g].lifecycle = s.records[g].lifecycle
    BY MarkFailedChanges
  <1>2. Live(n) = Live(s)
    BY <1>1, LiveStays
  <1> QED BY <1>2, MarkFailedProper

-----------------------------------------------------------------------------
(* rollback, begin_shutdown and maintain                                    *)

\* The loops of a pass find every live record's runtime present.
LEMMA EntersPresent ==
  ASSUME NEW h, NEW o \in Operations, NEW s
  PROVE  /\ Present(EnterCandidates(o, s)) /\ Present(EnterInactive(h, o, s))
         /\ Present(Resume(o, s))
  <1> DEFINE due == {g \in Generations : s.records[g].lifecycle \in Retained}
             f == InactiveFailures(h, s)
             p(q) == [q EXCEPT !.at = "candidates", !.todo = due, !.after = "candidates"]
             i == [o EXCEPT !.at = "inactive", !.todo = f]
             q == [o EXCEPT !.gen = None, !.reason = None]
             r == [o EXCEPT !.at = o.after, !.gen = None, !.reason = None]
  <1>1. q \in Operations
    BY Zenon DEF Operations
  <1>2. ASSUME NEW x \in Operations PROVE p(x).at = "candidates"
    BY Zenon DEF Operations
  <1>3. i.at = "inactive"
    BY Zenon DEF Operations
  <1>4. r.at = o.after /\ o.after \in {"inactive", "candidates"}
    BY Zenon DEF Operations
  <1>5. /\ EnterCandidates(o, s) \in {Idle, p(o)} /\ EnterCandidates(q, s) \in {Idle, p(q)}
        /\ EnterInactive(h, o, s) \in {EnterCandidates(o, s), i}
        /\ Resume(o, s) \in {r, EnterCandidates(q, s), Idle}
    BY DEF EnterCandidates, EnterInactive, Resume
  <1>6. Idle.at = "idle"
    BY DEF Idle
  <1>7. p(o).at = "candidates" /\ p(q).at = "candidates"
    BY <1>1, <1>2
  <1> HIDE DEF p, i, q, r
  <1>8. Present(p(o)) /\ Present(p(q)) /\ Present(i) /\ Present(r) /\ Present(Idle)
    BY <1>3, <1>4, <1>6, <1>7 DEF Present
  <1> QED BY <1>5, <1>8

\* A commit that leaves every live record its runtime.
LEMMA PresentCommitNeat ==
  ASSUME FencingInv, KeptInv, SlotsInv, StoreWorks, NEW h \in Hosts, Running(h),
         NEW next, Proper(mem[h], next), Live(next) = slots[h], NEW o, Present(o),
         \/ Commit(h, next) /\ Goto(h, o) /\ Running(h)' /\ UNCHANGED live
         \/ CommitFails(h, next)
         \/ Exit(h)
  PROVE  Neat(h)
  <1>1. UNCHANGED live => slots'[h] = slots[h]
    BY LiveSteps
  <1> QED BY <1>1, RunningSlots, PresentSlots, CommitNeat

\* ... of a pass.
LEMMA PassCommitNeat ==
  ASSUME FencingInv, KeptInv, SlotsInv, StoreWorks, NEW h \in Hosts, Running(h),
         NEW next, Proper(mem[h], next), Live(next) = slots[h], NEW o, Present(o),
         CommitOrExit(h, next, o)
  PROVE  Neat(h)
  <1>1. \/ Commit(h, next) /\ Goto(h, o) /\ Running(h)' /\ UNCHANGED live
        \/ CommitFails(h, next)
    BY DEF CommitOrExit, local, Running
  <1> QED BY <1>1, PresentCommitNeat

\* A pass, or a suspension that waits, looks.
LEMMA PresentLooksNeat ==
  ASSUME FencingInv, KeptInv, SlotsInv, NEW h \in Hosts, Running(h), Present(op[h]),
         UNCHANGED <<store, mem, local, live>>, NEW o, Goto(h, o), Present(o)
  PROVE  Neat(h)
  <1>1. slots'[h] = Slotted(o, mem[h]) /\ o.at \notin StartSteps
    BY AllPresent, PresentSlots DEF live
  <1> QED BY <1>1, LooksNeat

\* rollback: the two records stay live.
LEMMA RollbackNeat ==
  ASSUME FencingInv, RecordsInv, KeptInv, SlotsInv, StoreWorks, NEW h \in Hosts,
         NEW g \in Generations, Rollback(h, g)
  PROVE  Neat(h)
  <1> DEFINE s == mem[h]
             a == mem[h].active
             next == Roll(s, g, now)
  <1>1. Command(h) /\ At(h, "idle") /\ RollbackTarget(s, g, now)
    BY DEF Rollback, Command
  <1>2. s \in ControlStates /\ Sane(s) /\ now \in Nat
    BY HostRecords
  <1>3. Proper(s, next) /\ Live(next) = Live(s)
    BY <1>1, <1>2, RolledLive
  <1>4. \/ Commit(h, next) /\ UNCHANGED <<local, live, op>>
        \/ CommitFails(h, next)
    BY DEF Rollback
  <1> HIDE DEF next
  <1>5. UNCHANGED op => Goto(h, op[h]) /\ Present(op[h])
    BY <1>1, StaysIdle DEF Present, At
  <1>6. Present(Idle)
    BY DEF Present, Idle
  <1> QED BY <1>1, <1>3, <1>4, <1>5, <1>6, AtCommand, PresentCommitNeat

\* begin_shutdown: what is live drains.
LEMMA StartShutdownNeat ==
  ASSUME FencingInv, RecordsInv, KeptInv, SlotsInv, StoreWorks, NEW h \in Hosts,
         StartShutdown(h)
  PROVE  Neat(h)
  <1> DEFINE next == BeginShutdown(mem[h], now)
  <1>1. Command(h) /\ At(h, "idle")
    BY DEF StartShutdown, Command
  <1>2. /\ Proper(mem[h], next)
        /\ \A g \in Generations :
              IF mem[h].records[g].lifecycle \in {"Active", "Draining", "Standby"}
              THEN next.records[g].lifecycle = "Draining"
              ELSE next.records[g] = mem[h].records[g]
    BY HostRecords, BeginShutdownProper, BeginShutdownChanges DEF Becomes
  <1>3. \/ /\ Commit(h, next) /\ mode' = [mode EXCEPT ![h] = "closing"]
           /\ UNCHANGED live /\ UNCHANGED op
        \/ CommitFails(h, next)
    BY DEF StartShutdown
  <1> HIDE DEF next
  <1>4. Live(next) = Live(mem[h])
    BY <1>2 DEF Live, LiveLifecycles
  <1>5. UNCHANGED op => Goto(h, op[h]) /\ Present(op[h])
    BY <1>1, StaysIdle DEF Present, At
  <1>6. mode' = [mode EXCEPT ![h] = "closing"] => Running(h)'
    BY HostTypes DEF OpsOK, Running
  <1>7. Present(Idle)
    BY DEF Present, Idle
  <1> QED BY <1>1, <1>2, <1>3, <1>4, <1>5, <1>6, <1>7, AtCommand, PresentCommitNeat

\* The watched Generation has its slot: the tick never panics.
LEMMA TickNeat ==
  ASSUME FencingInv, RecordsInv, KeptInv, SlotsInv, StoreWorks, NEW h \in Hosts, Tick(h)
  PROVE  Neat(h)
  <1> DEFINE a == mem[h].active
             pass == [Idle EXCEPT !.time = now]
             o == [pass EXCEPT !.at = "reconcile"]
             next == MarkFailed(mem[h], a)
             q == EnterInactive(h, pass, mem[h])
  <1>1. /\ Running(h) /\ op[h].at = "idle" /\ mem[h] \in ControlStates /\ Sane(mem[h])
        /\ Idle \in Operations /\ now \in Nat
    BY HostRecords, IdleOrdinary DEF Tick, Ordinary, At
  <1>2. pass \in Operations
    BY <1>1, OperationFields
  <1>3. Present(op[h]) /\ slots[h] = Live(mem[h])
    BY <1>1, AllPresent DEF Present
  <1>4. Watched(h) => a \in Generations /\ a \in slots[h]
    BY <1>3, RoutedPresent DEF Watched
  <1>5. \/ a \in Generations /\ CommitOrExit(h, next, o)
        \/ Goto(h, q) /\ UNCHANGED <<store, mem, local, live>>
    BY <1>4 DEF Tick
  <1> HIDE DEF pass
  <1>6. o.at = "reconcile"
    BY <1>2, Zenon DEF Operations
  <1> HIDE DEF o
  <1>7. Present(o) /\ Present(q)
    BY <1>2, <1>6, EntersPresent DEF Present
  <1>8. CASE a \in Generations /\ CommitOrExit(h, next, o)
    <2>1. Proper(mem[h], next) /\ Live(next) = slots[h]
      BY <1>1, <1>3, <1>8, FailedLive
    <2> HIDE DEF next
    <2> QED BY <1>1, <1>7, <1>8, <2>1, PassCommitNeat
  <1>9. CASE Goto(h, q) /\ UNCHANGED <<store, mem, local, live>>
    <2> HIDE DEF q
    <2> QED BY <1>1, <1>3, <1>7, <1>9, PresentLooksNeat
  <1> QED BY <1>5, <1>8, <1>9

\* mark_generation_failed: what lost the route drains, with its runtime.
LEMMA ReactNeat ==
  ASSUME FencingInv, RecordsInv, KeptInv, SlotsInv, StoreWorks, NEW h \in Hosts, React(h)
  PROVE  Neat(h)
  <1> DEFINE s == mem[h]
             t == op[h].time
  <1>1. op[h].at = "reconcile" /\ Present(op[h])
    BY DEF React, At, Present
  <1>2. /\ Running(h) /\ s \in ControlStates /\ Sane(s) /\ t \in Nat
        /\ op[h] \in Operations /\ s.active # None /\ slots[h] = Live(s)
    <2>1. Running(h)
      BY <1>1, KeptParts DEF StartSteps
    <2> QED BY <1>1, <2>1, HostRecords, AllPresent DEF PassFits
  <1>3. Proper(s, FenceActive(s, t)) /\ Live(FenceActive(s, t)) = Live(s)
    BY <1>2, FencedLive
  <1>4. ASSUME NEW g \in AutomaticTargets(s, t)
        PROVE  Proper(s, Roll(s, g, t)) /\ Live(Roll(s, g, t)) = Live(s)
    <2>1. g \in Generations /\ RollbackTarget(s, g, t)
      BY <1>4 DEF AutomaticTargets
    <2> QED BY <1>2, <2>1, RolledLive
  <1>5. PICK next : /\ Proper(s, next) /\ Live(next) = Live(s)
                    /\ CommitOrExit(h, next, EnterInactive(h, op[h], next))
    BY <1>3, <1>4 DEF React
  <1> QED BY <1>2, <1>5, EntersPresent, PassCommitNeat

\* The failure of an inactive Generation leaves its runtime, for now.
LEMMA MarkInactiveFailedNeat ==
  ASSUME FencingInv, RecordsInv, KeptInv, SlotsInv, StoreWorks, NEW h \in Hosts,
         NEW g \in Generations, MarkInactiveFailed(h, g)
  PROVE  Neat(h)
  <1> DEFINE T == op[h].todo \ {g}
             o == [op[h] EXCEPT !.at = "stop", !.gen = g, !.todo = T,
                                !.reason = "TerminalFailure", !.after = "inactive"]
             next == MarkFailed(mem[h], g)
  <1>1. op[h].at = "inactive" /\ CommitOrExit(h, next, o) /\ op[h] \in Operations
    BY HostTypes DEF MarkInactiveFailed, At
  <1>2. Running(h) /\ Present(op[h])
    BY <1>1, KeptParts DEF StartSteps, Present
  <1>3. o.at = "stop"
    BY <1>1, Zenon DEF Operations
  <1> HIDE DEF o
  <1>4. Proper(mem[h], next) /\ Live(next) = Live(mem[h])
    BY HostRecords, FailedLive
  <1> HIDE DEF next
  <1>5. Present(o) /\ slots[h] = Live(mem[h])
    BY <1>2, <1>3, AllPresent DEF Present
  <1> QED BY <1>1, <1>2, <1>4, <1>5, PassCommitNeat

\* maintain_candidate: a drained Generation stays live as a standby.
LEMMA MaintainCandidateNeat ==
  ASSUME FencingInv, RecordsInv, KeptInv, SlotsInv, StoreWorks, NEW h \in Hosts,
         NEW g \in Generations, MaintainCandidate(h, g)
  PROVE  Neat(h)
  <1> DEFINE T == op[h].todo \ {g}
             rest == [op[h] EXCEPT !.todo = T, !.after = "candidates"]
             why == DueReason(h, g)
             o == [rest EXCEPT !.at = "stop", !.gen = g, !.reason = why]
             q == Resume(rest, mem[h])
             next == ToStandby(mem[h], g)
  <1>1. op[h].at = "candidates" /\ g \in op[h].todo /\ op[h] \in Operations
    BY HostTypes DEF MaintainCandidate, At
  <1>2. Running(h) /\ Present(op[h]) /\ mem[h] \in ControlStates /\ Sane(mem[h])
    BY <1>1, KeptParts, HostRecords DEF StartSteps, Present
  <1>3. \/ Exit(h)
        \/ Drained(h, g) /\ CommitOrExit(h, next, q)
        \/ UNCHANGED <<store, mem, local, live>> /\ (Goto(h, q) \/ Goto(h, o))
    BY DEF MaintainCandidate
  <1>4. rest \in Operations
    <2>1. T \in SUBSET Generations
      BY <1>1, HostTypes
    <2> HIDE DEF T
    <2> QED BY <1>1, <2>1, Zenon DEF Operations
  <1> HIDE DEF rest
  <1>5. o.at = "stop"
    BY <1>4, Zenon DEF Operations
  <1>6. Present(q)
    BY <1>4, EntersPresent
  <1> HIDE DEF o, q
  <1>7. Present(o) /\ slots[h] = Live(mem[h]) /\ Up(h)
    BY <1>2, <1>5, AllPresent DEF Present
  <1>8. CASE Drained(h, g) /\ CommitOrExit(h, next, q)
    <2>1. mem[h].records[g].lifecycle = "Draining" /\ mem[h].records[g].rollbackDeadline # None
      BY <1>8 DEF Drained, Open
    <2>2. /\ Proper(mem[h], next) /\ SameBut(mem[h], next, g, g)
          /\ next.records[g].lifecycle = "Standby"
      BY <1>2, <2>1, ToStandbyProper, ToStandbyChanges DEF Becomes
    <2> HIDE DEF next
    <2>3. Live(next) = Live(mem[h])
      BY <2>1, <2>2, LiveNames, LiveStays
    <2> QED BY <1>2, <1>6, <1>7, <1>8, <2>2, <2>3, PassCommitNeat
  <1>9. CASE UNCHANGED <<store, mem, local, live>> /\ (Goto(h, q) \/ Goto(h, o))
    BY <1>2, <1>6, <1>7, <1>9, PresentLooksNeat
  <1> QED BY <1>3, <1>7, <1>8, <1>9, ExitNeat

\* shutdown_and_retire, its first half: the runtime is away before the record.
LEMMA StopRetainedNeat ==
  ASSUME FencingInv, RecordsInv, KeptInv, SlotsInv, NEW h \in Hosts, StopRetained(h)
  PROVE  Neat(h)
  <1> DEFINE g == op[h].gen
  <1>1. op[h].at = "stop" /\ Present(op[h])
    BY DEF StopRetained, At, Present
  <1>2. Running(h) /\ g \in Generations /\ op[h] \in Operations
    BY <1>1, JustifiedMeans
  <1>3. Up(h) /\ slots[h] = Live(mem[h])
    BY <1>1, <1>2, AllPresent
  <1>4. ASSUME NEW o, Goto(h, o), Drop(h, g), UNCHANGED <<store, mem, local>>,
               \/ o = [op[h] EXCEPT !.at = "retiring"]
               \/ o = [op[h] EXCEPT !.at = "retiring", !.clean = FALSE]
        PROVE  Neat(h)
    <2>1. Moved(op[h], o, "retiring")
      BY <1>2, <1>4, MovesOn
    <2>2. o.at = "retiring" /\ o.gen = g
      BY <2>1 DEF Moved
    <2>3. slots'[h] = slots[h] \ {g}
      BY <1>4, LiveSteps
    <2>4. Slotted(o, mem[h]) = Live(mem[h]) \ {g} /\ o.at \notin StartSteps
      BY <2>2 DEF Slotted, Away, StartSteps
    <2> QED BY <1>2, <1>3, <1>4, <2>3, <2>4, LooksNeat
  <1>5. \/ Exit(h)
        \/ \E o : /\ Goto(h, o) /\ Drop(h, g) /\ UNCHANGED <<store, mem, local>>
                  /\ \/ o = [op[h] EXCEPT !.at = "retiring"]
                     \/ o = [op[h] EXCEPT !.at = "retiring", !.clean = FALSE]
    BY DEF StopRetained
  <1> QED BY <1>3, <1>4, <1>5, ExitNeat

\* shutdown_and_retire, its second half: the record follows its runtime.
LEMMA RetireStoppedNeat ==
  ASSUME FencingInv, RecordsInv, KeptInv, SlotsInv, StoreWorks, NEW h \in Hosts,
         RetireStopped(h)
  PROVE  Neat(h)
  <1> DEFINE g == op[h].gen
             next == Retire(mem[h], g, op[h].reason, op[h].clean)
             q == Resume(op[h], next)
  <1>1. op[h].at = "retiring"
    BY DEF RetireStopped, At
  <1>2. /\ Running(h) /\ g \in Generations /\ op[h] \in Operations
        /\ mem[h].records[g].lifecycle \in Retained
    BY <1>1, JustifiedMeans
  <1>3. Up(h) /\ slots[h] = Live(mem[h]) \ {g}
    <2>1. Slotted(op[h], mem[h]) = Live(mem[h]) \ {g}
      BY <1>1 DEF Slotted, Away
    <2> QED BY <1>2, <2>1, RunningSlots
  <1>4. /\ Proper(mem[h], next) /\ SameBut(mem[h], next, g, g)
        /\ next.records[g].lifecycle = "Retired"
    BY <1>2, HostRecords, RetireProper, RetireChanges
  <1>5. \/ Commit(h, next) /\ Goto(h, q) /\ UNCHANGED <<local, live>>
        \/ Exit(h)
    BY DEF RetireStopped
  <1>6. Present(q)
    BY <1>2, EntersPresent
  <1> HIDE DEF q, next
  <1>7. Live(next) = slots[h]
    <2>1. Live(next) \ {g} = Live(mem[h]) \ {g} /\ g \notin Live(next)
      BY <1>2, <1>4, LiveUpdate, LiveNames
    <2> QED BY <1>3, <2>1
  <1>8. UNCHANGED <<local, live>> => Running(h)' /\ UNCHANGED live
    BY <1>2 DEF local, Running
  <1> QED BY <1>2, <1>4, <1>5, <1>6, <1>7, <1>8, PresentCommitNeat

-----------------------------------------------------------------------------
(* suspend and drain_and_suspend, the ends of a Host, its work              *)

\* A suspension begins with the slots there are.
LEMMA BeginSuspendNeat ==
  ASSUME FencingInv, KeptInv, SlotsInv, NEW h \in Hosts,
         \/ Suspend(h) \/ LeasesDrained(h)
         \/ \E spent \in {0, SuspendTimeout} : DrainAndSuspend(h, spent)
  PROVE  Neat(h)
  <1>1. op[h] \in Operations /\ Idle \in Operations
    BY HostTypes, IdleOrdinary DEF Ordinary
  <1>2. ASSUME NEW o, o.at \in {"suspending", "bounded"}, o.todo = slots[h], Running(h),
               Goto(h, o), UNCHANGED <<store, mem, local, live>>
        PROVE  Neat(h)
    <2>1. Slotted(o, mem[h]) = slots[h] /\ o.at \notin StartSteps
      BY <1>2 DEF Slotted, StartSteps
    <2> QED BY <1>2, <2>1, LooksNeat DEF live
  <1>3. CASE Suspend(h)
    <2> DEFINE o == [Idle EXCEPT !.at = "suspending", !.todo = slots[h]]
    <2>1. o.at = "suspending" /\ o.todo = slots[h]
      BY <1>1, Zenon DEF Operations
    <2>2. Command(h) /\ Goto(h, o) /\ UNCHANGED <<store, mem, local, live>>
      BY <1>3 DEF Suspend
    <2> HIDE DEF o
    <2> QED BY <1>2, <2>1, <2>2, KeptParts
  <1>4. CASE LeasesDrained(h)
    <2> DEFINE o == [op[h] EXCEPT !.at = "bounded", !.todo = slots[h]]
    <2>1. o.at = "bounded" /\ o.todo = slots[h]
      BY <1>1, Zenon DEF Operations
    <2>2. op[h].at = "draining" /\ Goto(h, o) /\ UNCHANGED <<store, mem, local, live>>
      BY <1>4 DEF LeasesDrained, At
    <2>3. Running(h)
      BY <2>2, KeptParts DEF StartSteps
    <2> HIDE DEF o
    <2> QED BY <1>2, <2>1, <2>2, <2>3
  <1>5. ASSUME NEW spent \in {0, SuspendTimeout}, DrainAndSuspend(h, spent)
        PROVE  Neat(h)
    <2> DEFINE o == [Idle EXCEPT !.at = "draining", !.time = After(now, SuspendTimeout - spent)]
    <2>1. o.at = "draining"
      BY <1>1, Zenon DEF Operations
    <2>2. Command(h) /\ Goto(h, o) /\ UNCHANGED <<store, mem, local, live>>
      BY <1>5 DEF DrainAndSuspend
    <2> HIDE DEF o
    <2>3. Present(o) /\ Present(op[h]) /\ Running(h)
      BY <2>1, <2>2, AtCommand DEF Present
    <2> QED BY <2>2, <2>3, PresentLooksNeat
  <1> QED BY <1>3, <1>4, <1>5

\* One slot is shut down; the others are left to do.
LEMMA SuspendSlotNeat ==
  ASSUME FencingInv, KeptInv, SlotsInv, NEW h \in Hosts, NEW g \in Generations,
         SuspendSlot(h, g)
  PROVE  Neat(h)
  <1> DEFINE T == op[h].todo \ {g}
             o == [op[h] EXCEPT !.todo = T]
             p == [o EXCEPT !.clean = FALSE]
  <1>1. /\ op[h] \in Operations /\ op[h].at \in {"suspending", "bounded"}
        /\ Drop(h, g) /\ UNCHANGED <<store, mem, local>>
        /\ Goto(h, o) \/ Goto(h, p)
    BY HostTypes DEF SuspendSlot, At
  <1>2. o.at = op[h].at /\ p.at = op[h].at /\ o.todo = T /\ p.todo = T
    BY <1>1, Zenon DEF Operations
  <1> HIDE DEF o, p
  <1>3. Running(h) /\ slots'[h] = slots[h] \ {g}
    BY <1>1, KeptParts, LiveSteps DEF StartSteps
  <1>4. slots[h] = op[h].todo
    BY <1>1, <1>3, RunningSlots DEF Slotted
  <1>5. ASSUME NEW q \in {o, p}
        PROVE  slots'[h] = Slotted(q, mem[h]) /\ q.at \notin StartSteps
    BY <1>1, <1>2, <1>3, <1>4 DEF Slotted, StartSteps
  <1> QED BY <1>1, <1>3, <1>5, LooksNeat

\* A suspension ends with its Host: it is not refused.
LEMMA EndSuspendNeat ==
  ASSUME FencingInv, RecordsInv, KeptInv, SlotsInv, StoreWorks, NEW h \in Hosts,
         FinishSuspend(h) \/ FinishBounded(h) \/ SuspendTimesOut(h)
  PROVE  Neat(h)
  <1>1. /\ op[h].at \in {"suspending", "draining", "bounded"}
        /\ Exit(h) \/ Refused(h, Suspended(h))
    BY DEF FinishSuspend, FinishBounded, SuspendTimesOut, At
  <1>2. Up(h)
    BY <1>1, KeptParts DEF StartSteps, Running, Up
  <1>3. Proper(mem[h], Suspended(h))
    BY HostRecords, FlagsProper DEF Suspended
  <1>4. ~Refused(h, Suspended(h))
    BY <1>2, <1>3, CommitWorks DEF CommitFails
  <1> QED BY <1>1, <1>2, <1>4, ExitNeat

\* A Host that stops, or crashes.
LEMMA EndNeat ==
  ASSUME FencingInv, KeptInv, SlotsInv, NEW h \in Hosts, Stop(h) \/ Crash(h)
  PROVE  Neat(h)
  <1>1. Up(h) /\ Exit(h)
    BY DEF Stop, Crash, Up
  <1> QED BY <1>1, ExitNeat

\* Leases come and go, and runtimes fail, in slots that stay.
LEMMA WorkNeat ==
  ASSUME FencingInv, KeptInv, SlotsInv, NEW h \in Hosts, NEW g \in Generations, Work(h, g)
  PROVE  Neat(h)
  <1>1. UNCHANGED <<store, mem, local, op, slots>>
    BY DEF Work, Lease, Release, Die
  <1>2. Up(h)
    <2>1. CASE Lease(h, g)
      BY <2>1 DEF Lease, CanLease, Up
    <2>2. CASE Release(h, g)
      BY <2>2, KeptParts DEF Release, LeasesFit, Running, Up
    <2>3. CASE Die(h, g)
      <3>1. Expected(h) # {}
        BY <2>3 DEF Die, SlotsInv
      <3>2. ~Up(h) => op[h].at = "idle"
        BY KeptParts DEF ModeFits, At
      <3> QED BY <3>1, <3>2 DEF Expected, At
    <2> QED BY <2>1, <2>2, <2>3 DEF Work
  <1>3. StartFits(h) /\ slots[h] = Expected(h) /\ mode[h] # "panicked"
    BY DEF SlotsInv, NoPanic
  <1>4. /\ store' = store /\ mem' = mem /\ mode' = mode /\ plan' = plan
        /\ op' = op /\ slots' = slots
    BY <1>1 DEF local
  <1>5. StartFits(h)' /\ slots'[h] = Expected(h)' /\ mode'[h] # "panicked"
    BY <1>3, <1>4 DEF StartFits, Expected, At, Up
  <1> QED BY <1>2, <1>4, <1>5, OneUp DEF Neat

-----------------------------------------------------------------------------
(* Every step, and the theorems about slots                                 *)

\* Every step of a Host is neat.
LEMMA HostsNeat ==
  ASSUME FencingInv, RecordsInv, KeptInv, SlotsInv, Exclusive, StoreWorks, NEW h \in Hosts,
         \/ Start(h) \/ Operator(h) \/ Tick(h) \/ Continue(h) \/ StageFails(h) \/ Crash(h)
         \/ \E g \in Generations : Work(h, g)
  PROVE  Neat(h)
  <1>1. CASE Operator(h)
    BY <1>1, TransitionNeat, RollbackNeat, StartShutdownNeat, BeginSuspendNeat DEF Operator
  <1>2. CASE Continue(h)
    <2>1. CASE RefuseLeased(h) \/ StopPredecessor(h) \/ RetirePredecessor(h)
               \/ RecordStageFailure(h) \/ StageSucceeds(h) \/ Publish(h)
      BY <2>1, StageNeat, StopPredecessorNeat, RetirePredecessorNeat, PublishNeat
    <2>2. CASE React(h) \/ StopRetained(h) \/ RetireStopped(h) \/ Stop(h)
      BY <2>2, ReactNeat, StopRetainedNeat, RetireStoppedNeat, EndNeat
    <2>3. ASSUME NEW g \in Generations,
                 MarkInactiveFailed(h, g) \/ MaintainCandidate(h, g) \/ SuspendSlot(h, g)
          PROVE  Neat(h)
      BY <2>3, MarkInactiveFailedNeat, MaintainCandidateNeat, SuspendSlotNeat
    <2>4. CASE FinishSuspend(h) \/ LeasesDrained(h) \/ SuspendTimesOut(h) \/ FinishBounded(h)
      BY <2>4, BeginSuspendNeat, EndSuspendNeat
    <2> QED BY <1>2, <2>1, <2>2, <2>3, <2>4 DEF Continue
  <1> QED BY <1>1, <1>2, StartsNeat, TickNeat, StageNeat, EndNeat, WorkNeat

\* A step that leaves what the slots are about.
LEMMA SlotsKept ==
  ASSUME SlotsInv, UNCHANGED <<store, mem, plan, mode, op, slots>>
  PROVE  SlotsInv'
  <1>1. NoPanic' /\ UpToDate'
    BY DEF SlotsInv, NoPanic, UpToDate, Up
  <1>2. ASSUME NEW h \in Hosts PROVE StartFits(h)' /\ slots'[h] = Expected(h)'
    <2>1. StartFits(h) /\ slots[h] = Expected(h)
      BY DEF SlotsInv
    <2> QED BY <2>1 DEF StartFits, Expected, At, Up
  <1> QED BY <1>1, <1>2 DEF SlotsInv

\* Every step keeps the slots in order.
LEMMA StepSlots ==
  ASSUME FencingInv, RecordsInv, KeptInv, SlotsInv, Exclusive, StoreWorks, [Next]_vars
  PROVE  SlotsInv'
  <1>1. CASE UNCHANGED vars
    BY <1>1, SlotsKept DEF vars
  <1>2. CASE AdvanceTime
    BY <1>2, SlotsKept DEF AdvanceTime, local, live
  <1>3. ASSUME NEW h \in Hosts, Sound(h), Tended(h), Neat(h) PROVE SlotsInv'
    BY <1>3, NeatPreserves
  <1>4. Next => AdvanceTime \/ \E h \in Hosts : Sound(h) /\ Tended(h) /\ Neat(h)
    BY HostsSound, HostsTended, HostsNeat DEF Next
  <1> QED BY <1>1, <1>2, <1>3, <1>4

\* No Host is up, and none has a slot.
LEMMA InitSlots == Init => SlotsInv
  <1> SUFFICES ASSUME Init PROVE SlotsInv
    OBVIOUS
  <1>1. NoPanic /\ UpToDate
    BY DEF Init, NoPanic, UpToDate, Up
  <1>2. ASSUME NEW h \in Hosts PROVE StartFits(h) /\ slots[h] = Expected(h)
    <2>1. mode[h] = "down" /\ op[h].at = "idle" /\ slots[h] = {}
      BY DEF Init, Idle
    <2> QED BY <2>1 DEF StartFits, Expected, At, Up
  <1> QED BY <1>1, <1>2 DEF SlotsInv

\* While one Host is up at a time and no commit fails with an I/O error, every
\* reachable state has its slots in order, whatever else fails: a Host has a
\* runtime for exactly the records that its operation expects to have one.
THEOREM SlotsHold == ASSUME Exclusive, StoreWorks PROVE Spec => []SlotsInv
  <1>1. Init => SlotsInv
    BY InitSlots
  <1>2. FencingInv /\ RecordsInv /\ KeptInv /\ SlotsInv /\ [Next]_vars => SlotsInv'
    BY StepSlots
  <1>3. Inductive => FencingInv /\ RecordsInv /\ KeptInv
    BY DEF Inductive
  <1> QED BY <1>1, <1>2, <1>3, InductiveHolds, PTL DEF Spec

\* No expect() of the Supervisor fails then.
THEOREM NoneUnwinds == ASSUME Exclusive, StoreWorks PROVE Spec => []NoPanic
  <1>1. SlotsInv => NoPanic
    BY DEF SlotsInv
  <1> QED BY <1>1, SlotsHold, PTL

\* A candidate that maintain visits has the deadline and the slot it needs.
LEMMA Judgeable ==
  ASSUME FencingInv, RecordsInv, KeptInv, SlotsInv, NEW h \in Hosts, At(h, "candidates"),
         NEW g \in op[h].todo
  PROVE  ~Unjudgeable(h, g)
  <1>1. /\ op[h].at = "candidates" /\ g \in Generations /\ Running(h) /\ Present(op[h])
        /\ mem[h].records[g].lifecycle \in Retained
    BY HostRecords, KeptParts DEF At, PassFits, StartSteps, Present
  <1>2. Sensible(g, mem[h].records[g]) /\ slots[h] = Live(mem[h])
    BY <1>1, HostRecords, AllPresent DEF Sane
  <1>3. g \in slots[h]
    BY <1>1, <1>2, LiveNames DEF Live
  <1> QED BY <1>2, <1>3 DEF Unjudgeable, Sensible

\* What the Controller finds between its operations, then: a runtime for every
\* live record and for no other, records that maintain can judge, and none that
\* is live once a shutdown has ended.
THEOREM RecordsKept == ASSUME Exclusive, StoreWorks PROVE Spec => []RecordsHold
  <1>1. ASSUME FencingInv, RecordsInv, KeptInv, SlotsInv PROVE RecordsHold
    <2>1. ASSUME NEW h \in Hosts, Running(h), At(h, "idle") PROVE slots[h] = Live(mem[h])
      BY <1>1, <2>1, AllPresent DEF At, Present
    <2>2. SlotsMatchRecords
      BY <2>1 DEF SlotsMatchRecords, Rest
    <2>3. CandidatesJudgeable
      BY <1>1, Judgeable DEF CandidatesJudgeable
    <2>4. ShutdownRetiresAll
      BY <2>1 DEF ShutdownRetiresAll, Running
    <2> QED BY <2>2, <2>3, <2>4 DEF RecordsHold
  <1>2. Inductive /\ SlotsInv => RecordsHold
    BY <1>1 DEF Inductive
  <1> QED BY <1>2, InductiveHolds, SlotsHold, PTL

-----------------------------------------------------------------------------
(* Suspension: one Host at a time, whatever fails                           *)

\* Every Host is quiet, and while one is up no other is.
LEMMA QuietParts ==
  ASSUME QuietInv, NEW h \in Hosts
  PROVE  Quiet(h) /\ (Up(h) => \A k \in Hosts \ {h} : ~Up(k))
  BY DEF QuietInv, OneHostUp

\* A step of the only Host that is up, or of one that starts alone.
Hushed(h) == Quiet(h)' /\ \A k \in Hosts \ {h} : ~Up(k)

\* An owner is up.
LEMMA OwnersUp ==
  ASSUME FencingInv, KeptInv, NEW h \in Hosts
  PROVE  Owner(h) => Up(h)
  <1>1. ModeFits(h)
    BY KeptParts
  <1> QED BY <1>1 DEF ModeFits, Owner, Running, Up, At, StartSteps

\* The other Hosts are down and stay as they were.
LEMMA HushedPreserves ==
  ASSUME FencingInv, KeptInv, QuietInv, NEW h \in Hosts, Sound(h), Tended(h), Hushed(h)
  PROVE  QuietInv'
  <1>1. ASSUME NEW k \in Hosts, k # h PROVE Quiet(k)' /\ ~Up(k)'
    <2>1. /\ mem'[k] = mem[k] /\ plan'[k] = plan[k] /\ mode'[k] = mode[k] /\ op'[k] = op[k]
          /\ slots'[k] = slots[k]
      BY <1>1 DEF Sound, HostStep, Others, Tended, Alone
    <2>2. ~Up(k) /\ ~Owner(k) /\ slots[k] = {}
      BY <1>1, QuietParts, OwnersUp DEF Hushed, Quiet
    <2> QED BY <2>1, <2>2 DEF Quiet, Owner, Running, At, Up
  <1>2. OneHostUp'
    BY <1>1 DEF OneHostUp
  <1>3. \A k \in Hosts : Quiet(k)'
    BY <1>1 DEF Hushed
  <1> QED BY <1>2, <1>3 DEF QuietInv

\* What the slots and the suspension depend on is left alone.
LEMMA QuietKept ==
  ASSUME QuietInv, UNCHANGED <<store, mem, plan, mode, op, slots>>
  PROVE  QuietInv'
  BY DEF QuietInv, OneHostUp, Quiet, Owner, Running, At, Up

Ended(h) == \E how \in {"down", "panicked"} : Leave(h, how)

\* Host h tries to write a state that is as suspended as the one it knows.
Speaks(h) ==
    \E next \in ControlStates :
        /\ next.suspended = mem[h].suspended
        /\ Commit(h, next) \/ CommitFails(h, next)

\* What the steps of a running Host have in common.
Discreet(h) ==
    \/ Ended(h)
    \/ /\ UNCHANGED mode \/ mode' = [mode EXCEPT ![h] = "closing"]
       /\ UNCHANGED store \/ Speaks(h)

\* Then the store is as suspended as the state it tries to write.
LEMMA SpeaksMeans ==
  ASSUME NEW h, NEW next \in ControlStates,
         Commit(h, next) \/ CommitFails(h, next)
  PROVE  store' = store \/ store'.suspended = next.suspended
  <1>1. Stamped(h, next).suspended = next.suspended
    BY StampedAlike DEF Alike
  <1> QED BY <1>1 DEF Commit, Write, CommitFails, Refused, IoError

\* A Host that is up ends: it has no slot then.
LEMMA EndedHushed ==
  ASSUME FencingInv, KeptInv, QuietInv, NEW h \in Hosts, Up(h), Ended(h)
  PROVE  Hushed(h)
  <1>1. slots'[h] = {} /\ mode'[h] \in {"down", "panicked"} /\ op'[h] = Idle
    BY HostTypes DEF Ended, Leave, Goto, OpsOK, LiveOK
  <1>2. ~Owner(h)'
    BY <1>1 DEF Owner, Running, At, Idle
  <1> QED BY <1>1, <1>2, QuietParts DEF Hushed, Quiet

\* A running Host stays one, or ends.
LEMMA DiscreetHushed ==
  ASSUME FencingInv, KeptInv, QuietInv, NEW h \in Hosts, Running(h), Sound(h), Tended(h),
         Discreet(h)
  PROVE  Hushed(h)
  <1>1. Up(h) /\ Owner(h)
    BY DEF Running, Up, Owner
  <1>2. CASE Ended(h)
    BY <1>1, <1>2, EndedHushed
  <1>3. CASE /\ UNCHANGED mode \/ mode' = [mode EXCEPT ![h] = "closing"]
             /\ UNCHANGED store \/ Speaks(h)
    <2>1. Running(h)' /\ Owner(h)'
      BY <1>3, HostTypes DEF Running, Owner, OpsOK
    <2>2. ~store.suspended /\ ~mem[h].suspended
      BY <1>1, QuietParts DEF Quiet
    <2>3. ~store'.suspended
      BY <1>3, <2>2, SpeaksMeans DEF Speaks
    <2>4. mem'[h] \in {mem[h], InitialState, store'}
      BY DEF Sound, HostStep
    <2>5. ~mem'[h].suspended
      BY <2>2, <2>3, <2>4 DEF InitialState
    <2>6. ModeFits(h)'
      BY DEF Tended, Careful
    <2>7. ~At(h, "restaging")'
      BY <2>1, <2>6 DEF ModeFits, StartSteps, At, Running
    <2> QED BY <1>1, <2>1, <2>3, <2>5, <2>7, QuietParts DEF Hushed, Quiet
  <1> QED BY <1>2, <1>3 DEF Discreet

\* A Host that ends, and one that writes and goes on.
LEMMA EndsDiscreet == ASSUME NEW h, Exit(h) \/ Panic(h) PROVE Discreet(h)
  BY DEF Discreet, Ended, Exit, Panic

LEMMA SpeaksDiscreet ==
  ASSUME NEW h, NEW next \in ControlStates, next.suspended = mem[h].suspended,
         UNCHANGED mode \/ mode' = [mode EXCEPT ![h] = "closing"],
         Commit(h, next) \/ CommitFails(h, next)
  PROVE  Discreet(h)
  BY DEF Discreet, Speaks

\* transition, rollback, begin_shutdown.
LEMMA CommandsDiscreet ==
  ASSUME FencingInv, RecordsInv, KeptInv, NEW h \in Hosts,
         \/ \E e \in Edges : Transition(h, e)
         \/ \E g \in Generations : Rollback(h, g)
         \/ StartShutdown(h)
  PROVE  Running(h) /\ Discreet(h)
  <1> DEFINE s == mem[h]
  <1>1. Running(h) /\ s \in ControlStates /\ Sane(s) /\ now \in Nat
    BY HostRecords, KeptParts DEF Transition, Rollback, StartShutdown
  <1>2. ASSUME NEW e \in Edges, Transition(h, e) PROVE Discreet(h)
    <2> DEFINE next == StageCandidate(s, e, now)
    <2>1. next \in ControlStates /\ next.suspended = s.suspended
      BY <1>1, StageCandidateChanges DEF SameRoute
    <2>2. Panic(h) \/ (UNCHANGED mode /\ (Commit(h, next) \/ CommitFails(h, next)))
      BY <1>2 DEF Transition, local, Reply
    <2> HIDE DEF next
    <2> QED BY <2>1, <2>2, EndsDiscreet, SpeaksDiscreet
  <1>3. ASSUME NEW g \in Generations, Rollback(h, g) PROVE Discreet(h)
    <2> DEFINE next == Roll(s, g, now)
    <2>1. RollbackTarget(s, g, now) /\ s.active # None
      BY <1>3 DEF Rollback, RollbackTarget
    <2>2. Proper(s, next)
      BY <1>1, <2>1, RollProper
    <2>3. s.active \in Generations /\ g # s.active
      BY <2>1, RoutedPresent DEF RollbackTarget, Retained
    <2>4. next.suspended = s.suspended
      BY <1>1, <2>3, RollChanges DEF Reroutes
    <2>5. UNCHANGED mode /\ (Commit(h, next) \/ CommitFails(h, next))
      BY <1>3 DEF Rollback, local, Reply
    <2>6. next \in ControlStates
      BY <2>2 DEF Proper
    <2> HIDE DEF next
    <2> QED BY <2>4, <2>5, <2>6, SpeaksDiscreet
  <1>4. CASE StartShutdown(h)
    <2> DEFINE next == BeginShutdown(s, now)
    <2>1. next \in ControlStates /\ next.suspended = s.suspended
      BY <1>1, BeginShutdownChanges
    <2>2. \/ mode' = [mode EXCEPT ![h] = "closing"] /\ Commit(h, next)
          \/ Exit(h)
      BY <1>4 DEF StartShutdown
    <2> HIDE DEF next
    <2> QED BY <1>1, <2>1, <2>2, EndsDiscreet, SpeaksDiscreet
  <1> QED BY <1>1, <1>2, <1>3, <1>4

\* The later steps of a transition.
LEMMA StagesDiscreet ==
  ASSUME FencingInv, RecordsInv, KeptInv, NEW h \in Hosts,
         \/ RefuseLeased(h) \/ RecordStageFailure(h) \/ StageSucceeds(h)
         \/ RetirePredecessor(h) \/ Publish(h)
  PROVE  Running(h) /\ Discreet(h)
  <1> DEFINE s == mem[h]
             e == op[h].edge
  <1>1. op[h].at \in {"candidate", "maintenance", "staging", "unstaged", "ready"}
    BY DEF RefuseLeased, RecordStageFailure, StageSucceeds, RetirePredecessor, Publish, At
  <1>2. /\ Running(h) /\ s \in ControlStates /\ e \in Edges /\ e.to \in Generations
        /\ TransitionFits(op[h], s) /\ op[h].time \in Nat
    BY <1>1, InTransition, HostRecords
  <1>4. CASE RefuseLeased(h) \/ RecordStageFailure(h)
    <2> DEFINE next == FailCandidate(s, e.to)
    <2>1. next \in ControlStates /\ next.suspended = s.suspended
      BY <1>2, FailCandidateChanges DEF SameRoute
    <2>2. UNCHANGED mode /\ (Commit(h, next) \/ CommitFails(h, next))
      BY <1>4 DEF RefuseLeased, RecordStageFailure, CommitAndReply, local, Reply
    <2> HIDE DEF next
    <2> QED BY <1>2, <2>1, <2>2, SpeaksDiscreet
  <1>5. CASE StageSucceeds(h)
    <2> DEFINE next == MarkReady(s, e.to)
    <2>1. next \in ControlStates /\ next.suspended = s.suspended
      BY <1>2, MarkReadyChanges DEF SameRoute
    <2>2. UNCHANGED mode /\ (Commit(h, next) \/ CommitFails(h, next))
      BY <1>5 DEF StageSucceeds, local, Reply
    <2> HIDE DEF next
    <2> QED BY <1>2, <2>1, <2>2, SpeaksDiscreet
  <1>6. CASE RetirePredecessor(h)
    <2> DEFINE next == StopForMaintenance(s, e, op[h].clean)
    <2>1. /\ s.active = e.from /\ e.from # None
          /\ s.records[e.to].lifecycle = "Staged"
      BY <1>2, <1>6 DEF RetirePredecessor, At, TransitionFits
    <2>2. e.from \in Generations /\ e.from # e.to
      BY <2>1, RoutedPresent
    <2>3. next \in ControlStates /\ next.suspended = s.suspended
      <3> HIDE DEF s, e
      <3>1. Stopped(s, next, e, op[h].clean)
        BY <1>2, <2>2, StopForMaintenanceChanges
      <3> QED BY <3>1 DEF Stopped
    <2>4. UNCHANGED mode /\ (Commit(h, next) \/ CommitFails(h, next))
      BY <1>6 DEF RetirePredecessor, local, Reply
    <2> HIDE DEF next
    <2> QED BY <1>2, <2>3, <2>4, SpeaksDiscreet
  <1>7. CASE Publish(h)
    <2> DEFINE next == Switch(s, e, op[h].time)
    <2>1. /\ e.mode = "Overlap" => s.active = e.from /\ s.active # None
          /\ s.records[e.to].lifecycle = "Ready"
      BY <1>2, <1>7 DEF Publish, At, TransitionFits
    <2>2. e.mode = "Overlap" => e.from \in Generations /\ e.from # e.to
      BY <2>1, RoutedPresent
    <2>3. next \in ControlStates /\ next.suspended = s.suspended
      BY <1>2, <2>2, SwitchChanges DEF SwitchedAlong, Reroutes
    <2>4. UNCHANGED mode /\ (Commit(h, next) \/ CommitFails(h, next))
      BY <1>7 DEF Publish, local, Reply
    <2> HIDE DEF next
    <2> QED BY <1>2, <2>3, <2>4, SpeaksDiscreet
  <1> QED BY <1>2, <1>4, <1>5, <1>6, <1>7

\* A commit of a pass.
LEMMA PassDiscreet ==
  ASSUME NEW h, NEW next \in ControlStates, next.suspended = mem[h].suspended,
         NEW o, CommitOrExit(h, next, o)
  PROVE  Discreet(h)
  <1>1. (UNCHANGED mode /\ Commit(h, next)) \/ Exit(h)
    BY DEF CommitOrExit, local
  <1> QED BY <1>1, EndsDiscreet, SpeaksDiscreet

\* maintain.
LEMMA MaintainDiscreet ==
  ASSUME FencingInv, RecordsInv, KeptInv, NEW h \in Hosts,
         \/ Tick(h) \/ React(h) \/ RetireStopped(h)
         \/ \E g \in Generations : MarkInactiveFailed(h, g) \/ MaintainCandidate(h, g)
  PROVE  Running(h) /\ Discreet(h)
  <1> DEFINE s == mem[h]
             a == s.active
             t == op[h].time
  <1>1. s \in ControlStates /\ Sane(s) /\ t \in Nat /\ op[h] \in Operations
    BY HostRecords
  <1>2. Running(h)
    <2>1. CASE Tick(h)
      BY <2>1 DEF Tick
    <2>2. op[h].at \in {"reconcile", "retiring", "inactive", "candidates"} => Running(h)
      BY KeptParts DEF StartSteps
    <2> QED BY <2>1, <2>2 DEF React, RetireStopped, MarkInactiveFailed, MaintainCandidate, At
  <1>3. a # None => a \in Generations /\ s.records[a].lifecycle = "Active"
    BY RoutedPresent
  <1>4. ASSUME NEW g \in Generations
        PROVE  MarkFailed(s, g) \in ControlStates /\ MarkFailed(s, g).suspended = s.suspended
    BY <1>1, MarkFailedChanges DEF SameRoute
  <1>5. CASE Tick(h)
    <2>1. \/ Panic(h)
          \/ a # None /\ \E o : CommitOrExit(h, MarkFailed(s, a), o)
          \/ UNCHANGED <<store, mode>>
      BY <1>5 DEF Tick, Watched, local
    <2>2. a # None /\ (\E o : CommitOrExit(h, MarkFailed(s, a), o)) => Discreet(h)
      <3> DEFINE next == MarkFailed(s, a)
      <3>1. a # None => next \in ControlStates /\ next.suspended = mem[h].suspended
        BY <1>3, <1>4
      <3> HIDE DEF next
      <3> QED BY <3>1, PassDiscreet DEF next
    <2>3. UNCHANGED <<store, mode>> => Discreet(h)
      BY DEF Discreet
    <2> QED BY <1>2, <2>1, <2>2, <2>3, EndsDiscreet
  <1>6. CASE React(h)
    <2>1. a # None
      BY <1>6, HostRecords DEF React, At, PassFits
    <2>2. FenceActive(s, t) \in ControlStates /\ FenceActive(s, t).suspended = s.suspended
      BY <1>1, <1>3, <2>1, FenceActiveChanges DEF Reroutes
    <2>3. ASSUME NEW g \in AutomaticTargets(s, t)
          PROVE  Roll(s, g, t) \in ControlStates /\ Roll(s, g, t).suspended = s.suspended
      <3>1. g \in Generations /\ g # a
        BY <1>3, <2>1, <2>3 DEF AutomaticTargets, RollbackTarget, Retained
      <3> QED BY <1>1, <1>3, <2>1, <3>1, RollChanges DEF Reroutes
    <2>4. PICK next \in ControlStates :
                 /\ next.suspended = mem[h].suspended
                 /\ CommitOrExit(h, next, EnterInactive(h, op[h], next))
      BY <1>6, <2>2, <2>3 DEF React
    <2> HIDE DEF s, a
    <2> QED BY <1>2, <2>4, PassDiscreet
  <1>7. CASE RetireStopped(h)
    <2> DEFINE g == op[h].gen
               next == Retire(s, g, op[h].reason, op[h].clean)
    <2>1. op[h].at = "retiring" /\ op[h].reason \in Reasons \union {None}
      BY <1>1, <1>7, Zenon DEF RetireStopped, At, Operations
    <2>2. g \in Generations
      BY <2>1, JustifiedMeans
    <2>3. next \in ControlStates /\ next.suspended = s.suspended
      BY <1>1, <2>1, <2>2, RetireChanges DEF SameRoute
    <2>4. (UNCHANGED mode /\ Commit(h, next)) \/ Exit(h)
      BY <1>7 DEF RetireStopped, local
    <2> HIDE DEF next
    <2> QED BY <1>2, <2>3, <2>4, EndsDiscreet, SpeaksDiscreet
  <1>8. ASSUME NEW g \in Generations, MarkInactiveFailed(h, g) PROVE Discreet(h)
    BY <1>4, <1>8, PassDiscreet DEF MarkInactiveFailed
  <1>9. ASSUME NEW g \in Generations, MaintainCandidate(h, g) PROVE Discreet(h)
    <2>1. ToStandby(s, g) \in ControlStates /\ ToStandby(s, g).suspended = s.suspended
      BY <1>1, ToStandbyChanges DEF SameRoute
    <2>2. \/ Exit(h)
          \/ \E o : CommitOrExit(h, ToStandby(s, g), o)
          \/ UNCHANGED <<store, mode>>
      BY <1>9 DEF MaintainCandidate, local
    <2> QED BY <2>1, <2>2, PassDiscreet DEF Discreet, Ended, Exit
  <1> QED BY <1>2, <1>5, <1>6, <1>7, <1>8, <1>9

\* The steps that write nothing, and those that end the Host.
LEMMA QuietSteps ==
  ASSUME FencingInv, KeptInv, NEW h \in Hosts,
         \/ Suspend(h) \/ LeasesDrained(h) \/ StageFails(h) \/ StopRetained(h)
         \/ StopPredecessor(h) \/ SuspendTimesOut(h) \/ FinishSuspend(h) \/ FinishBounded(h)
         \/ Stop(h)
         \/ \E spent \in {0, SuspendTimeout} : DrainAndSuspend(h, spent)
         \/ \E g \in Generations : SuspendSlot(h, g)
  PROVE  Running(h) /\ Discreet(h)
  <1>1. Running(h)
    <2>1. \/ Command(h)
          \/ op[h].at \in {"draining", "staging", "stop", "candidate", "bounded", "suspending"}
          \/ mode[h] = "closing"
      BY DEF Suspend, LeasesDrained, StageFails, StopRetained, StopPredecessor,
             SuspendTimesOut, FinishSuspend, FinishBounded, Stop, DrainAndSuspend,
             SuspendSlot, At
    <2> QED BY <2>1, KeptParts DEF StartSteps, Running
  <1>2. UNCHANGED <<store, mode>> \/ Exit(h) \/ Panic(h)
    BY DEF Suspend, LeasesDrained, StageFails, StopRetained, StopPredecessor,
           SuspendTimesOut, FinishSuspend, FinishBounded, Stop, DrainAndSuspend,
           SuspendSlot, Refused, Reply, local
  <1> QED BY <1>1, <1>2 DEF Discreet, Ended, Exit, Panic

\* A Host starts: it withdraws the suspension in its first commit.
LEMMA StartsHushed ==
  ASSUME FencingInv, KeptInv, QuietInv, Exclusive, NEW h \in Hosts, Start(h)
  PROVE  Hushed(h)
  <1>1. CASE \E step \in {"opening", "replacing", "fencing"} : Load(h, step)
    <2>1. PICK step \in {"opening", "replacing", "fencing"} : Load(h, step)
      BY <1>1
    <2>2. (\A k \in Hosts : ~Up(k)) /\ mode'[h] = "starting" /\ slots'[h] = slots[h]
      BY <2>1, HostTypes DEF Load, Up, OpsOK, live
    <2>3. op'[h].at = step
      <3>1. [Idle EXCEPT !.at = step, !.time = now].at = step
        BY DEF Idle
      <3> QED BY <2>1, <3>1, HostTypes DEF Load, Goto, OpsOK
    <2>4. slots[h] = {}
      BY <2>2, OwnersUp, QuietParts DEF Quiet
    <2>5. ~Owner(h)'
      BY <2>2, <2>3 DEF Owner, Running, At
    <2> QED BY <2>2, <2>4, <2>5 DEF Hushed, Quiet
  <1>2. ASSUME op[h].at \in StartSteps
        PROVE  Up(h) /\ mode[h] = "starting" /\ \A k \in Hosts \ {h} : ~Up(k)
    <2>1. mode[h] = "starting"
      BY <1>2, KeptParts DEF ModeFits
    <2> QED BY <2>1, QuietParts DEF Up
  <1>3. ASSUME op[h].at \in StartSteps, Exit(h) PROVE Hushed(h)
    BY <1>2, <1>3, EndedHushed DEF Ended, Exit
  <1>4. ASSUME op[h].at \in StartSteps, NEW next \in ControlStates, ~next.suspended,
               Commit(h, next), Serve(h)
        PROVE  Hushed(h)
    <2>1. ~store'.suspended
      <3>1. Stamped(h, next).suspended = next.suspended
        BY StampedAlike DEF Alike
      <3> QED BY <1>4, <3>1 DEF Commit, Write
    <2>2. mem'[h] = store' /\ op'[h] = Idle /\ mode'[h] = "serving"
      BY <1>4, HostTypes DEF Commit, Write, Adopt, Serve, Goto, StatesOK, OpsOK
    <2>3. Owner(h)' /\ ~At(h, "restaging")'
      BY <2>2 DEF Owner, Running, At, Idle
    <2> QED BY <1>2, <1>4, <2>1, <2>2, <2>3 DEF Hushed, Quiet
  <1>5. CASE OpenHost(h) \/ ReplaceHost(h)
    <2>1. op[h].at \in StartSteps
      BY <1>5 DEF OpenHost, ReplaceHost, At, StartSteps
    <2>2. ASSUME NEW next \in {OpenState(mem[h]), ReplaceSuspended(mem[h])}
          PROVE  next \in ControlStates /\ ~next.suspended
      BY <2>2, HostTypes, OpenStateChanges, ReplaceSuspendedChanges
    <2>3. \E next \in {OpenState(mem[h]), ReplaceSuspended(mem[h])} :
             (Commit(h, next) /\ Serve(h)) \/ Exit(h)
      BY <1>5 DEF OpenHost, ReplaceHost, StartFresh
    <2> QED BY <1>3, <1>4, <2>1, <2>2, <2>3
  <1>6. CASE RecoverFence(h)
    <2> DEFINE next == FenceForRecovery(mem[h])
    <2>1. op[h].at \in StartSteps
      BY <1>6 DEF RecoverFence, At, StartSteps
    <2>2. next \in ControlStates /\ ~next.suspended
      BY HostTypes, FenceForRecoveryChanges
    <2>3. \/ Commit(h, next) /\ plan' = [plan EXCEPT ![h] = Stamped(h, next)] /\ UNCHANGED mode
          \/ Exit(h)
      BY <1>6 DEF RecoverFence
    <2> HIDE DEF next
    <2>4. CASE Commit(h, next) /\ plan' = [plan EXCEPT ![h] = Stamped(h, next)] /\ UNCHANGED mode
      <3>1. ~Stamped(h, next).suspended
        BY <2>2, StampedAlike DEF Alike
      <3>2. store' = Stamped(h, next) /\ mem'[h] = store' /\ plan'[h] = store'
        BY <2>4, HostTypes DEF Commit, Write, Adopt, StatesOK
      <3>3. op'[h].at = "restaging"
        <4> DEFINE T == Live(FenceForRecovery(mem[h]))
                   o == [op[h] EXCEPT !.at = "restaging", !.todo = T]
        <4> HIDE DEF T
        <4>1. o.at = "restaging"
          BY HostTypes, Zenon DEF Operations
        <4>2. Goto(h, o) \/ mode' # mode
          <5>1. Exit(h) => mode'[h] = "down"
            BY HostTypes DEF Exit, Leave, OpsOK
          <5> QED BY <1>2, <1>6, <2>1, <5>1 DEF RecoverFence, T
        <4> HIDE DEF o
        <4> QED BY <2>4, <4>1, <4>2, HostTypes DEF Goto, OpsOK
      <3>4. Owner(h)'
        BY <3>3 DEF Owner, At
      <3> QED BY <1>2, <2>1, <3>1, <3>2, <3>4 DEF Hushed, Quiet
    <2> QED BY <1>3, <2>1, <2>3, <2>4
  <1>7. ASSUME NEW g \in Generations, RecoverRecord(h, g) PROVE Hushed(h)
    <2> DEFINE p == plan[h]
               T == op[h].todo \ {g}
               o == [op[h] EXCEPT !.todo = T]
    <2>1. /\ op[h].at = "restaging" /\ op[h].at \in StartSteps
          /\ store' = store /\ mem' = mem /\ Goto(h, o) /\ p \in ControlStates
      BY <1>7, HostTypes DEF RecoverRecord, At, StartSteps
    <2>2. op'[h].at = "restaging"
      <3>1. o.at = op[h].at
        BY HostTypes, Zenon DEF Operations
      <3> HIDE DEF o
      <3> QED BY <2>1, <3>1, HostTypes DEF Goto, OpsOK
    <2>3. Owner(h) /\ Owner(h)'
      BY <2>1, <2>2 DEF Owner, At
    <2>4. ~store.suspended /\ ~mem[h].suspended /\ ~p.suspended
      BY <2>1, <2>3, QuietParts DEF Quiet, At
    <2>5. Unstaged(p, g).suspended = p.suspended
      <3>1. FailCandidate(p, g) \in ControlStates /\ FailCandidate(p, g).suspended = p.suspended
        BY <2>1, FailCandidateChanges DEF SameRoute
      <3> HIDE DEF p
      <3> QED BY <3>1, Zenon DEF Unstaged, ControlStates
    <2>6. \A reason \in Reasons : Abandon(p, g, reason).suspended = p.suspended
      BY <2>1, AbandonChanges DEF SameRoute
    <2>7. \/ plan' = plan
          \/ \E reason \in Reasons : plan' = [plan EXCEPT ![h] = Abandon(p, g, reason)]
          \/ plan' = [plan EXCEPT ![h] = Unstaged(p, g)]
      BY <1>7 DEF RecoverRecord, Reasons
    <2> HIDE DEF p
    <2>8. ~plan'[h].suspended
      <3>1. plan[h] = p /\ StatesOK
        BY HostTypes DEF p
      <3> QED BY <2>4, <2>5, <2>6, <2>7, <3>1 DEF StatesOK
    <2> QED BY <1>2, <2>1, <2>3, <2>4, <2>8 DEF Hushed, Quiet
  <1>8. CASE RecoverFinish(h)
    <2> DEFINE p == plan[h]
    <2>1. op[h].at = "restaging" /\ op[h].at \in StartSteps /\ p \in ControlStates
      BY <1>8, HostTypes DEF RecoverFinish, At, StartSteps
    <2>2. ~p.suspended
      BY <2>1, QuietParts DEF Quiet, Owner, At
    <2>3. ASSUME NEW g \in Successors(h)
          PROVE  Promote(p, g) \in ControlStates /\ Promote(p, g).suspended = p.suspended
      <3>1. g \in Generations
        BY <2>3, HostTypes DEF Successors
      <3> QED BY <2>1, <3>1, PromoteChanges DEF Reroutes
    <2> HIDE DEF Successors
    <2>4. PICK next : /\ next \in ControlStates /\ ~next.suspended
                      /\ (Commit(h, next) /\ Serve(h)) \/ Exit(h)
      BY <1>8, <2>1, <2>2, <2>3 DEF RecoverFinish
    <2> QED BY <1>3, <1>4, <2>1, <2>4
  <1>9. CASE RecoverAbort(h)
    BY <1>3, <1>9 DEF RecoverAbort, At, StartSteps
  <1> QED BY <1>1, <1>5, <1>6, <1>7, <1>8, <1>9 DEF Start

\* Every step leaves a suspended App without a slot.
LEMMA StepQuiet ==
  ASSUME FencingInv, RecordsInv, KeptInv, QuietInv, Exclusive, [Next]_vars
  PROVE  QuietInv'
  <1>1. CASE UNCHANGED vars
    BY <1>1, QuietKept DEF vars
  <1>2. CASE AdvanceTime
    BY <1>2, QuietKept DEF AdvanceTime, local, live
  <1>3. CASE \E h \in Hosts, g \in Generations : Work(h, g)
    <2>1. UNCHANGED <<store, mem, plan, mode, op, slots>>
      BY <1>3 DEF Work, Lease, Release, Die, local
    <2> QED BY <2>1, QuietKept
  <1>4. ASSUME NEW h \in Hosts, \/ Start(h) \/ Operator(h) \/ Tick(h) \/ Continue(h)
                                \/ StageFails(h) \/ Crash(h)
        PROVE  QuietInv'
    <2>1. Sound(h) /\ Tended(h)
      BY <1>4, HostsSound, HostsTended
    <2>2. Start(h) => Hushed(h)
      BY StartsHushed
    <2>3. Crash(h) => Hushed(h)
      <3>1. Crash(h) => Up(h) /\ Ended(h)
        BY DEF Crash, Up, Ended, Exit
      <3> QED BY <3>1, EndedHushed
    <2>4. ASSUME Operator(h) \/ Tick(h) \/ Continue(h) \/ StageFails(h) PROVE Hushed(h)
      <3>1. Running(h) /\ Discreet(h)
        BY <2>4, CommandsDiscreet, StagesDiscreet, MaintainDiscreet, QuietSteps
           DEF Operator, Continue
      <3> QED BY <2>1, <3>1, DiscreetHushed
    <2> QED BY <1>4, <2>1, <2>2, <2>3, <2>4, HushedPreserves
  <1> QED BY <1>1, <1>2, <1>3, <1>4 DEF Next

\* No Host is up.
LEMMA InitQuiet == Init => QuietInv
  BY DEF Init, QuietInv, OneHostUp, Quiet, Up, Owner, Running, At, Idle

\* While one Host is up at a time, an owner's App is not suspended and the other
\* Hosts have no slot, whatever fails.
THEOREM StaysQuiet == ASSUME Exclusive PROVE Spec => []QuietInv
  <1>1. Init => QuietInv
    BY InitQuiet
  <1>2. Inductive /\ QuietInv /\ [Next]_vars => QuietInv'
    BY StepQuiet DEF Inductive
  <1> QED BY <1>1, <1>2, InductiveHolds, PTL DEF Spec

\* A Suspended App has no runtime in any slot: suspend commits after the last
\* one is shut down, and a Host withdraws the suspension before it stages any,
\* through store errors, lost acknowledgements and crashes.
THEOREM SuspendedIsQuiet == ASSUME Exclusive PROVE Spec => []SuspensionQuiescent
  <1>1. QuietInv => SuspensionQuiescent
    BY DEF QuietInv, Quiet, SuspensionQuiescent
  <1> QED BY <1>1, StaysQuiet, PTL

-----------------------------------------------------------------------------
(* Failures                                                                 *)

\* No Host crashes between two steps.
NoCrash == "crash" \notin FaultKinds

\* The live Generations of s whose failure is recorded.
Failing(s) == {g \in Live(s) : s.records[g].health = "Failed"}

\* Operation o, in state s, deals with the failure of g or will come to it.
Covers(o, s, g) ==
    \/ o.at = "reconcile" /\ g = s.active
    \/ o.at \in {"stop", "retiring"} /\ g = o.gen
    \/ /\ s.records[g].lifecycle = "Draining"
       /\ \/ o.at \in {"candidates", "stop", "retiring"} /\ g \in o.todo
          \/ o.at \in {"stop", "retiring"} /\ o.after = "inactive"
          \/ o.at = "inactive"

CoversAll(o, s) == \A g \in Failing(s) : Covers(o, s, g)

\* What fails in s drains.
Drains(s) == \A g \in Failing(s) : s.records[g].lifecycle = "Draining"

\* A step after which the failures of a Host are dealt with.
Attends(h) ==
    /\ \A g \in Failing(mem'[h]) :
          \/ Covers(op'[h], mem'[h], g)
          \/ mode'[h] = "starting" /\ mem'[h].records[g].lifecycle = "Draining"
    /\ ~Up(h)' => Drains(store')

\* FailuresDealtWith, in these terms.
LEMMA DealtParts ==
  /\ FailuresDealtWith <=>
        /\ \A h \in Hosts : \A g \in Failing(mem[h]) :
              \/ Covers(op[h], mem[h], g)
              \/ mode[h] = "starting" /\ mem[h].records[g].lifecycle = "Draining"
        /\ (\A h \in Hosts : ~Up(h)) => Drains(store)
  /\ FailuresDealtWith' <=>
        /\ \A h \in Hosts : \A g \in Failing(mem'[h]) :
              \/ Covers(op'[h], mem'[h], g)
              \/ mode'[h] = "starting" /\ mem'[h].records[g].lifecycle = "Draining"
        /\ (\A h \in Hosts : ~Up(h)') => Drains(store')
  <1>1. \A h \in Hosts : \A g :
          DealtWith(h, g) <=>
             \/ Covers(op[h], mem[h], g)
             \/ mode[h] = "starting" /\ mem[h].records[g].lifecycle = "Draining"
    BY DEF DealtWith, Covers
  <1>2. \A h \in Hosts : \A g :
          DealtWith(h, g)' <=>
             \/ Covers(op'[h], mem'[h], g)
             \/ mode'[h] = "starting" /\ mem'[h].records[g].lifecycle = "Draining"
    BY DEF DealtWith, Covers
  <1> QED BY <1>1, <1>2 DEF FailuresDealtWith, Failing, Drains

\* The failures of the other Hosts are where they were.
LEMMA AttendsPreserves ==
  ASSUME FailuresDealtWith, NEW h \in Hosts, Sound(h), Attends(h)
  PROVE  FailuresDealtWith'
  <1>1. \A k \in Hosts \ {h} : mem'[k] = mem[k] /\ mode'[k] = mode[k] /\ op'[k] = op[k]
    BY DEF Sound, HostStep, Others
  <1> QED BY <1>1, DealtParts DEF Attends

\* What fails in the records of a running Host.
LEMMA FailingMeans ==
  ASSUME FencingInv, KeptInv, FailuresDealtWith, NEW h \in Hosts, Running(h)
  PROVE  /\ CoversAll(op[h], mem[h])
         /\ op[h].at \notin {"reconcile", "inactive", "candidates", "stop", "retiring"} =>
               Failing(mem[h]) = {}
  <1>1. mode[h] # "starting"
    BY DEF Running
  <1>2. CoversAll(op[h], mem[h])
    BY <1>1, DealtParts DEF CoversAll
  <1> QED BY <1>2 DEF CoversAll, Covers

\* An operation without failures to deal with has nothing to cover.
LEMMA CalmCovers ==
  ASSUME NEW s, Failing(s) = {}
  PROVE  (\A o : CoversAll(o, s)) /\ Drains(s)
  BY DEF CoversAll, Drains

\* No failure comes from an update of two records that brings in none.
LEMMA CalmUpdate ==
  ASSUME NEW s, NEW n, NEW g \in Generations, NEW k \in Generations, SameBut(s, n, g, k),
         n.records[g].lifecycle \notin LiveLifecycles \/ n.records[g].health # "Failed",
         n.records[k].lifecycle \notin LiveLifecycles \/ n.records[k].health # "Failed"
  PROVE  Failing(n) \subseteq Failing(s)
  <1> HIDE DEF LiveLifecycles
  <1> QED BY DEF Failing, Live, SameBut

\* The states alike fail alike.
LEMMA AlikeFails ==
  ASSUME NEW s, NEW n, Alike(s, n)
  PROVE  /\ Failing(n) = Failing(s)
         /\ Drains(s) => Drains(n)
         /\ \A o : CoversAll(o, s) => CoversAll(o, n)
  <1>1. Failing(n) = Failing(s)
    BY DEF Alike, Failing, Live
  <1> QED BY <1>1 DEF Alike, Drains, CoversAll, Covers

\* A step of a Host that goes on and covers what fails.
LEMMA RunsAttends ==
  ASSUME NEW h \in Hosts, Running(h)', CoversAll(op'[h], mem'[h])
  PROVE  Attends(h)
  BY DEF Attends, CoversAll, Running, Up

\* A commit of a Host that is up, after which it runs.
LEMMA CommitAttends ==
  ASSUME FencingInv, SlotsInv, StoreWorks, NEW h \in Hosts, Up(h),
         NEW next, Proper(mem[h], next), NEW o, CoversAll(o, next),
         \/ Commit(h, next) /\ Goto(h, o) /\ Running(h)'
         \/ CommitFails(h, next)
  PROVE  Attends(h)
  <1>1. Commit(h, next) /\ Goto(h, o) /\ Running(h)'
    BY CommitWorks
  <1>2. mem'[h] = store' /\ Alike(next, store') /\ op'[h] = o
    BY <1>1, CommitUpdates, HostTypes DEF Goto, OpsOK
  <1> QED BY <1>1, <1>2, AlikeFails, RunsAttends

\* A step of a running Host that leaves its records alone.
LEMMA LooksAttends ==
  ASSUME FencingInv, NEW h \in Hosts, Running(h), UNCHANGED <<mem, local>>,
         NEW o, Goto(h, o), CoversAll(o, mem[h])
  PROVE  Attends(h)
  <1>1. op'[h] = o /\ Running(h)' /\ mem'[h] = mem[h]
    BY HostTypes DEF Goto, OpsOK, Running, local
  <1> QED BY <1>1, RunsAttends

\* A Host that stops and leaves nothing failing but what drains.
LEMMA ExitAttends ==
  ASSUME FencingInv, NEW h \in Hosts, Exit(h), Drains(store')
  PROVE  Attends(h)
  <1>1. mem'[h] = InitialState
    BY HostTypes DEF Exit, Leave, StatesOK
  <1>2. Failing(InitialState) = {}
    BY DEF Failing, Live, InitialState, NoRecord, LiveLifecycles
  <1> QED BY <1>1, <1>2 DEF Attends

\* ... after a last write.
LEMMA WriteAttends ==
  ASSUME FencingInv, NEW h \in Hosts, NEW next, Proper(mem[h], next), Write(h, next), Exit(h),
         Drains(next)
  PROVE  Attends(h)
  <1>1. Alike(next, store')
    BY WriteUpdates DEF Write
  <1> QED BY <1>1, AlikeFails, ExitAttends

\* ... and has nothing failing itself.
LEMMA CalmExitAttends ==
  ASSUME FencingInv, SlotsInv, NEW h \in Hosts, Up(h), Drains(mem[h]), Exit(h), UNCHANGED store
  PROVE  Attends(h)
  BY OneUp, ExitAttends

\* What a Host that starts finds failing drains.
LEMMA StartingDrains ==
  ASSUME KeptInv, FailuresDealtWith, NEW h \in Hosts, op[h].at \in StartSteps
  PROVE  Drains(mem[h])
  BY DealtParts DEF Covers, Drains, StartSteps

\* A Host loads what another one left, or the state it was created with.
LEMMA LoadAttends ==
  ASSUME FencingInv, FailuresDealtWith, Exclusive, NEW h \in Hosts,
         NEW step \in {"opening", "replacing", "fencing"}, Load(h, step)
  PROVE  Attends(h)
  <1>1. /\ \A k \in Hosts : ~Up(k)
        /\ mode'[h] = "starting" /\ mem'[h] = store
    BY HostTypes DEF Load, Up, OpsOK, StatesOK
  <1>2. Drains(store)
    BY <1>1, DealtParts
  <1> QED BY <1>1, <1>2 DEF Attends, Drains, Up

\* A first commit leaves no live record, or none that fails.
LEMMA ServeAttends ==
  ASSUME FencingInv, RecordsInv, KeptInv, SlotsInv, StoreWorks, NEW h \in Hosts,
         op[h].at \in StartSteps, NEW next, Proper(mem[h], next), Failing(next) = {},
         \/ Commit(h, next) /\ Serve(h)
         \/ CommitFails(h, next)
  PROVE  Attends(h)
  <1>1. Serve(h) => Goto(h, Idle) /\ Running(h)'
    BY HostTypes DEF Serve, Running, OpsOK
  <1> QED BY <1>1, StartingSlots, CalmCovers, CommitAttends

\* HostBuilder::build and replace_suspended.
LEMMA StartFreshAttends ==
  ASSUME FencingInv, RecordsInv, KeptInv, SlotsInv, StoreWorks, NEW h \in Hosts,
         OpenHost(h) \/ ReplaceHost(h)
  PROVE  Attends(h)
  <1>1. CASE OpenHost(h)
    <2> DEFINE next == OpenState(mem[h])
    <2>1. op[h].at = "opening" /\ op[h].at \in StartSteps
      BY <1>1 DEF OpenHost, At, StartSteps
    <2>2. mem[h] \in ControlStates /\ Live(mem[h]) = {} /\ Proper(mem[h], next)
      BY <2>1, StartingSlots, FlagsProper
    <2>3. next.records = mem[h].records
      BY <2>2, OpenStateChanges
    <2>4. (Commit(h, next) /\ Serve(h)) \/ CommitFails(h, next)
      BY <1>1 DEF OpenHost, StartFresh
    <2> HIDE DEF next
    <2>5. Failing(next) = {}
      BY <2>2, <2>3 DEF Failing, Live
    <2> QED BY <2>1, <2>2, <2>4, <2>5, ServeAttends
  <1>2. CASE ReplaceHost(h)
    <2> DEFINE next == ReplaceSuspended(mem[h])
    <2>1. op[h].at = "replacing" /\ op[h].at \in StartSteps
      BY <1>2 DEF ReplaceHost, At, StartSteps
    <2>2. mem[h] \in ControlStates /\ Proper(mem[h], next)
      BY <2>1, StartingSlots, ReplaceSuspendedProper
    <2>3. \A g \in Generations :
            IF g \in Live(mem[h]) THEN next.records[g].lifecycle = "Retired"
                                 ELSE next.records[g] = mem[h].records[g]
      BY <2>2, ReplaceSuspendedChanges
    <2>4. (Commit(h, next) /\ Serve(h)) \/ CommitFails(h, next)
      BY <1>2 DEF ReplaceHost, StartFresh
    <2> HIDE DEF next
    <2>5. Failing(next) = {}
      BY <2>3 DEF Failing, Live, LiveLifecycles
    <2> QED BY <2>1, <2>2, <2>4, <2>5, ServeAttends
  <1> QED BY <1>1, <1>2

\* recover fences and then looks at one record after the other.
LEMMA RecoveringAttends ==
  ASSUME FencingInv, RecordsInv, KeptInv, SlotsInv, FailuresDealtWith, StoreWorks,
         NEW h \in Hosts, RecoverFence(h) \/ \E g \in Generations : RecoverRecord(h, g)
  PROVE  Attends(h)
  <1>1. CASE RecoverFence(h)
    <2> DEFINE next == FenceForRecovery(mem[h])
    <2>1. op[h].at \in StartSteps
      BY <1>1 DEF RecoverFence, At, StartSteps
    <2>2. /\ mem[h] \in ControlStates /\ Proper(mem[h], next) /\ Up(h)
          /\ mode[h] = "starting" /\ Drains(mem[h])
      BY <2>1, StartingSlots, FlagsProper, StartingDrains
    <2>3. next.records = mem[h].records
      BY <2>2, FenceForRecoveryChanges
    <2>4. Commit(h, next) /\ mode' = mode
      BY <1>1, <2>2, CommitWorks DEF RecoverFence
    <2> HIDE DEF next
    <2>5. mem'[h].records = mem[h].records
      BY <2>2, <2>3, <2>4, Committed
    <2> QED BY <2>2, <2>4, <2>5 DEF Attends, Drains, Failing, Live, Up
  <1>2. ASSUME NEW g \in Generations, RecoverRecord(h, g) PROVE Attends(h)
    <2>1. op[h].at \in StartSteps /\ mem' = mem /\ mode' = mode
      BY <1>2 DEF RecoverRecord, At, StartSteps
    <2>2. mode[h] = "starting" /\ Drains(mem[h])
      BY <2>1, StartingSlots, StartingDrains
    <2> QED BY <2>1, <2>2 DEF Attends, Drains, Up
  <1> QED BY <1>1, <1>2

\* What recover restages has not failed, and its Host serves it.
LEMMA RecoverFinishAttends ==
  ASSUME FencingInv, RecordsInv, KeptInv, SlotsInv, FailuresDealtWith, StoreWorks,
         NEW h \in Hosts, RecoverFinish(h)
  PROVE  Attends(h)
  <1> DEFINE p == plan[h]
  <1>1. /\ op[h].at = "restaging" /\ op[h].todo = {} /\ op[h].at \in StartSteps
        /\ p \in ControlStates /\ mem[h] \in ControlStates /\ Sane(mem[h])
    BY HostRecords, HostTypes DEF RecoverFinish, At, StartSteps
  <1>2. Planned(mem[h], p)
    BY <1>1, HostRecords DEF Planned, PlanFits, FencingInv, RecoveryPlan, At
  <1>3. \A g \in Generations : p.records[g].lifecycle \notin {"Staged", "Ready", "Draining"}
    BY <1>1, StartingSlots
  <1>4. Proper(mem[h], p)
    BY <1>1, <1>2, PlanProper
  <1>5. Failing(p) = {}
    <2>1. Drains(mem[h])
      BY <1>1, StartingDrains
    <2> QED BY <1>2, <1>3, <2>1 DEF Planned, Drains, Failing, Live, LiveLifecycles
  <1>6. ASSUME NEW g \in Successors(h)
        PROVE  Proper(mem[h], Promote(p, g)) /\ Failing(Promote(p, g)) = {}
    <2>1. g \in slots[h] /\ p.active = None /\ p.records[g].lifecycle = "Standby"
      BY DEF Successors
    <2>2. g \in Generations
      BY <2>1, HostTypes
    <2>3. /\ SameBut(p, Promote(p, g), g, g)
          /\ Promote(p, g).records[g].health = p.records[g].health
      BY <1>1, <2>2, PromoteChanges DEF Becomes
    <2>4. p.records[g].health # "Failed"
      BY <1>5, <2>1, <2>2 DEF Failing, Live, LiveLifecycles
    <2>5. Failing(Promote(p, g)) \subseteq Failing(p)
      BY <2>2, <2>3, <2>4, CalmUpdate
    <2> QED BY <1>1, <1>2, <1>5, <2>1, <2>2, <2>5, PromoteProper
  <1> HIDE DEF Successors, p
  <1>7. PICK next : /\ Proper(mem[h], next) /\ Failing(next) = {}
                    /\ (Commit(h, next) /\ Serve(h)) \/ CommitFails(h, next)
    BY <1>4, <1>5, <1>6 DEF RecoverFinish, p
  <1> QED BY <1>1, <1>7, ServeAttends

\* A Host starts.
LEMMA StartsAttends ==
  ASSUME FencingInv, RecordsInv, KeptInv, SlotsInv, FailuresDealtWith, Exclusive, StoreWorks,
         NEW h \in Hosts, Start(h)
  PROVE  Attends(h)
  <1>1. CASE RecoverAbort(h)
    <2>1. op[h].at \in StartSteps /\ Exit(h) /\ UNCHANGED store
      BY <1>1 DEF RecoverAbort, At, StartSteps
    <2> QED BY <2>1, StartingSlots, StartingDrains, CalmExitAttends
  <1> QED BY <1>1, LoadAttends, StartFreshAttends, RecoveringAttends, RecoverFinishAttends
          DEF Start

-----------------------------------------------------------------------------
(* ... while no pass is under way                                           *)

\* Steps of a running Host that has no failure to deal with.
Calm(h) == Running(h) /\ Up(h) /\ Failing(mem[h]) = {}

\* A Host between two operations, in a transition or in a suspension is calm.
LEMMA CalmSteps ==
  ASSUME FencingInv, KeptInv, FailuresDealtWith, NEW h \in Hosts
  PROVE  /\ Command(h) => Calm(h) /\ op[h].at = "idle"
         /\ op[h].at \in {"candidate", "maintenance", "staging", "unstaged", "ready",
                          "suspending", "draining", "bounded"} => Calm(h)
         /\ Running(h) /\ op[h].at = "idle" => Calm(h)
  <1>1. Running(h) => Up(h)
    BY DEF Running, Up
  <1>2. Command(h) => Running(h) /\ op[h].at = "idle"
    BY DEF Command, Running, At
  <1>3. /\ op[h].at \in {"candidate", "maintenance", "staging", "unstaged", "ready",
                        "suspending", "draining", "bounded"} => Running(h)
    BY KeptParts DEF StartSteps
  <1> QED BY <1>1, <1>2, <1>3, FailingMeans DEF Calm

\* A commit of two records that brings in no failure.
LEMMA CalmCommitAttends ==
  ASSUME FencingInv, SlotsInv, StoreWorks, NEW h \in Hosts, Calm(h),
         NEW next, Proper(mem[h], next),
         NEW g \in Generations, NEW k \in Generations, SameBut(mem[h], next, g, k),
         next.records[g].lifecycle \notin LiveLifecycles \/ next.records[g].health # "Failed",
         next.records[k].lifecycle \notin LiveLifecycles \/ next.records[k].health # "Failed",
         NEW o,
         \/ Commit(h, next) /\ Goto(h, o) /\ UNCHANGED mode
         \/ CommitFails(h, next)
  PROVE  Attends(h)
  <1>1. Failing(next) = {}
    BY CalmUpdate DEF Calm
  <1>2. UNCHANGED mode => Running(h)'
    BY DEF Calm, Running
  <1> QED BY <1>1, <1>2, CalmCovers, CommitAttends DEF Calm

\* What is live has not failed.
LEMMA CalmRecord ==
  ASSUME NEW h, Calm(h), NEW g \in Generations,
         mem[h].records[g].lifecycle \in LiveLifecycles
  PROVE  mem[h].records[g].health # "Failed"
  BY DEF Calm, Failing, Live

\* A step that leaves the records alone.
LEMMA CalmLooksAttends ==
  ASSUME FencingInv, NEW h \in Hosts, Calm(h), UNCHANGED <<mem, local>>, NEW o, Goto(h, o)
  PROVE  Attends(h)
  BY CalmCovers, LooksAttends DEF Calm

\* transition
LEMMA TransitionAttends ==
  ASSUME FencingInv, RecordsInv, KeptInv, SlotsInv, FailuresDealtWith, StoreWorks,
         NEW h \in Hosts, NEW e \in Edges, Transition(h, e)
  PROVE  Attends(h)
  <1> DEFINE next == StageCandidate(mem[h], e, now)
             x == IF e.mode = "Maintenance" THEN "candidate" ELSE "staging"
             o == [Idle EXCEPT !.at = x, !.edge = e, !.time = now]
  <1>1. Command(h) /\ ValidEdge(mem[h], e) /\ e.to \in Generations
    BY DEF Transition, Edges
  <1>2. ~(e.mode = "Overlap" /\ e.from \notin slots[h])
    BY <1>1, AtCommand, RoutedPresent DEF ValidEdge
  <1>3. /\ NewCandidate(mem[h], e.to)
        /\ \/ Commit(h, next) /\ Goto(h, o) /\ UNCHANGED <<local, live>>
           \/ CommitFails(h, next)
    BY <1>2 DEF Transition
  <1>4. /\ Proper(mem[h], next) /\ SameBut(mem[h], next, e.to, e.to)
        /\ next.records[e.to].health = "Healthy"
    BY <1>3, HostRecords, StageCandidateProper, StageCandidateChanges
  <1> HIDE DEF next, o
  <1>5. UNCHANGED <<local, live>> => UNCHANGED mode
    BY DEF local
  <1> QED BY <1>1, <1>3, <1>4, <1>5, CalmSteps, CalmCommitAttends

\* The steps of a transition.
LEMMA StageAttends ==
  ASSUME FencingInv, RecordsInv, KeptInv, SlotsInv, FailuresDealtWith, StoreWorks,
         NEW h \in Hosts,
         \/ RefuseLeased(h) \/ RecordStageFailure(h) \/ StageFails(h) \/ StageSucceeds(h)
         \/ StopPredecessor(h)
  PROVE  Attends(h)
  <1> DEFINE to == op[h].edge.to
  <1>1. UNCHANGED <<local, live>> => UNCHANGED mode
    BY DEF local
  <1>2. CASE RefuseLeased(h) \/ RecordStageFailure(h)
    <2> DEFINE next == FailCandidate(mem[h], to)
    <2>1. /\ op[h].at \in {"candidate", "unstaged"}
          /\ \/ Commit(h, next) /\ Goto(h, Idle) /\ UNCHANGED <<local, live>>
             \/ CommitFails(h, next)
      BY <1>2 DEF RefuseLeased, RecordStageFailure, CommitAndReply, At
    <2>2. mem[h].records[to].lifecycle = "Staged" /\ mem[h] \in ControlStates
          /\ Sane(mem[h]) /\ to \in Generations
      BY <2>1, InTransition DEF TransitionFits
    <2>3. /\ Proper(mem[h], next) /\ SameBut(mem[h], next, to, to)
          /\ next.records[to].lifecycle \notin LiveLifecycles
      BY <2>2, CandidateProper, FailCandidateChanges, LiveNames
    <2> HIDE DEF next, to
    <2> QED BY <1>1, <2>1, <2>2, <2>3, CalmSteps, CalmCommitAttends
  <1>3. CASE StageSucceeds(h)
    <2> DEFINE next == MarkReady(mem[h], to)
               o == [op[h] EXCEPT !.at = "ready"]
    <2>1. /\ op[h].at = "staging"
          /\ \/ Commit(h, next) /\ Goto(h, o) /\ UNCHANGED <<local, live>>
             \/ CommitFails(h, next)
      BY <1>3 DEF StageSucceeds, At
    <2>2. mem[h].records[to].lifecycle = "Staged" /\ mem[h] \in ControlStates
          /\ Sane(mem[h]) /\ to \in Generations
      BY <2>1, InTransition DEF TransitionFits
    <2>3. /\ Proper(mem[h], next) /\ SameBut(mem[h], next, to, to)
          /\ next.records[to].health = mem[h].records[to].health
      BY <2>2, CandidateProper, MarkReadyChanges DEF Becomes
    <2> HIDE DEF next, o, to
    <2>4. Calm(h) /\ mem[h].records[to].health # "Failed"
      BY <2>1, <2>2, CalmSteps, CalmRecord, LiveNames
    <2> QED BY <1>1, <2>1, <2>2, <2>3, <2>4, CalmCommitAttends
  <1>4. CASE StageFails(h)
    <2>1. op[h].at = "staging" /\ UNCHANGED <<mem, local>> /\ \E o : Goto(h, o)
      BY <1>4 DEF StageFails, At
    <2> QED BY <2>1, CalmSteps, CalmLooksAttends
  <1>5. CASE StopPredecessor(h)
    <2>1. op[h].at = "candidate"
      BY <1>5 DEF StopPredecessor, At
    <2>2. op[h].edge.from \in slots[h]
      <3>1. /\ mem[h].active = op[h].edge.from /\ op[h].edge.from # None
            /\ mem[h].records[op[h].edge.to].lifecycle = "Staged"
            /\ slots[h] = Live(mem[h]) \ {op[h].edge.to}
        BY <2>1, InTransition, TransitionSlots DEF TransitionFits
      <3> QED BY <3>1, RoutedPresent
    <2>3. UNCHANGED <<mem, local>> /\ \E o : Goto(h, o)
      BY <1>5, <2>2 DEF StopPredecessor
    <2> QED BY <2>1, <2>3, CalmSteps, CalmLooksAttends
  <1> QED BY <1>2, <1>3, <1>4, <1>5

\* The predecessor is retired.
LEMMA RetirePredecessorAttends ==
  ASSUME FencingInv, RecordsInv, KeptInv, SlotsInv, FailuresDealtWith, StoreWorks,
         NEW h \in Hosts, RetirePredecessor(h)
  PROVE  Attends(h)
  <1> DEFINE e == op[h].edge
             ok == op[h].clean
             next == StopForMaintenance(mem[h], e, ok)
             o == IF ok THEN [op[h] EXCEPT !.at = "staging"] ELSE Idle
  <1>1. /\ op[h].at = "maintenance"
        /\ \/ Commit(h, next) /\ Goto(h, o) /\ UNCHANGED <<local, live>>
           \/ CommitFails(h, next)
    BY DEF RetirePredecessor, At
  <1>2. /\ mem[h] \in ControlStates /\ Sane(mem[h]) /\ e \in Edges /\ e.to \in Generations
        /\ mem[h].active = e.from /\ e.from # None
        /\ mem[h].records[e.to].lifecycle = "Staged"
    BY <1>1, InTransition DEF TransitionFits
  <1>3. e.from \in Generations /\ e.from # e.to
    BY <1>2, RoutedPresent
  <1>4. Proper(mem[h], next) /\ Stopped(mem[h], next, e, ok)
    BY <1>2, <1>3, StopForMaintenanceProper, StopForMaintenanceChanges
  <1>5. UNCHANGED <<local, live>> => UNCHANGED mode
    BY DEF local
  <1>6. Calm(h) /\ mem[h].records[e.to].health # "Failed"
    BY <1>1, <1>2, CalmSteps, CalmRecord, LiveNames
  <1> HIDE DEF next, o, e, ok
  <1>7. /\ SameBut(mem[h], next, e.from, e.to)
        /\ next.records[e.from].lifecycle \notin LiveLifecycles
        /\ \/ next.records[e.to].lifecycle \notin LiveLifecycles
           \/ next.records[e.to].health # "Failed"
    BY <1>4, <1>6, LiveNames DEF Stopped
  <1> QED BY <1>1, <1>2, <1>3, <1>4, <1>5, <1>6, <1>7, CalmCommitAttends

\* The route switch.
LEMMA PublishAttends ==
  ASSUME FencingInv, RecordsInv, KeptInv, SlotsInv, FailuresDealtWith, StoreWorks,
         NEW h \in Hosts, Publish(h)
  PROVE  Attends(h)
  <1> DEFINE e == op[h].edge
             t == op[h].time
             k == IF e.mode = "Overlap" THEN e.from ELSE e.to
             next == Switch(mem[h], e, t)
  <1>1. op[h].at = "ready"
    BY DEF Publish, At
  <1>2. /\ mem[h] \in ControlStates /\ Sane(mem[h]) /\ e \in Edges /\ e.to \in Generations
        /\ mem[h].active = (IF e.mode = "Overlap" THEN e.from ELSE None)
        /\ mem[h].active = None <=> e.mode # "Overlap"
        /\ mem[h].records[e.to].lifecycle = "Ready" /\ t \in Nat
    BY <1>1, InTransition, HostTypes DEF TransitionFits
  <1>3. /\ e.mode = "Overlap" => /\ e.from \in Generations /\ e.from # e.to
                                 /\ mem[h].records[e.from].lifecycle = "Active"
        /\ k \in Generations
    BY <1>2, RoutedPresent
  <1>4. Proper(mem[h], next) /\ SwitchedAlong(mem[h], next, e)
    BY <1>2, <1>3, SwitchProper, SwitchChanges
  <1>5. \/ Commit(h, next) /\ Goto(h, Idle) /\ UNCHANGED mode
        \/ CommitFails(h, next)
    BY DEF Publish, local
  <1>6. /\ Calm(h) /\ mem[h].records[e.to].health # "Failed"
        /\ e.mode = "Overlap" => mem[h].records[e.from].health # "Failed"
    BY <1>1, <1>2, <1>3, CalmSteps, CalmRecord, LiveNames
  <1> HIDE DEF next, e, t
  <1>7. /\ SameBut(mem[h], next, e.to, k)
        /\ next.records[e.to].health # "Failed" /\ next.records[k].health # "Failed"
    BY <1>4, <1>6 DEF SwitchedAlong, Becomes
  <1> QED BY <1>2, <1>3, <1>4, <1>5, <1>6, <1>7, CalmCommitAttends

\* rollback
LEMMA RollbackAttends ==
  ASSUME FencingInv, RecordsInv, KeptInv, SlotsInv, FailuresDealtWith, StoreWorks,
         NEW h \in Hosts, NEW g \in Generations, Rollback(h, g)
  PROVE  Attends(h)
  <1> DEFINE s == mem[h]
             a == mem[h].active
             next == Roll(s, g, now)
  <1>1. Command(h) /\ At(h, "idle") /\ RollbackTarget(s, g, now) /\ Calm(h)
    BY CalmSteps DEF Rollback, Command
  <1>2. s \in ControlStates /\ Sane(s) /\ now \in Nat
    BY HostRecords
  <1>3. /\ a \in Generations /\ s.records[a].lifecycle \in LiveLifecycles /\ g # a
        /\ s.records[g].lifecycle \in LiveLifecycles
    <2>1. a # None /\ s.records[g].lifecycle \in Retained
      BY <1>1 DEF RollbackTarget
    <2> QED BY <2>1, RoutedPresent, LiveNames
  <1>4. /\ Proper(s, next) /\ SameBut(s, next, g, a)
        /\ next.records[g].health = s.records[g].health
        /\ next.records[a].health = s.records[a].health
    BY <1>1, <1>2, <1>3, RollProper, RollChanges DEF Becomes
  <1>5. \/ Commit(h, next) /\ Goto(h, op[h]) /\ UNCHANGED mode
        \/ CommitFails(h, next)
    BY <1>1, StaysIdle DEF Rollback, local
  <1> HIDE DEF next
  <1> QED BY <1>1, <1>3, <1>4, <1>5, CalmRecord, CalmCommitAttends

\* begin_shutdown
LEMMA StartShutdownAttends ==
  ASSUME FencingInv, RecordsInv, KeptInv, SlotsInv, FailuresDealtWith, StoreWorks,
         NEW h \in Hosts, StartShutdown(h)
  PROVE  Attends(h)
  <1> DEFINE next == BeginShutdown(mem[h], now)
  <1>1. Command(h) /\ At(h, "idle") /\ Calm(h)
    BY CalmSteps DEF StartShutdown, Command
  <1>2. /\ Proper(mem[h], next)
        /\ \A g \in Generations :
              IF mem[h].records[g].lifecycle \in {"Active", "Draining", "Standby"}
              THEN next.records[g].health = mem[h].records[g].health
              ELSE next.records[g] = mem[h].records[g]
    BY HostRecords, BeginShutdownProper, BeginShutdownChanges DEF Becomes
  <1>3. \/ Commit(h, next) /\ mode' = [mode EXCEPT ![h] = "closing"] /\ Goto(h, op[h])
        \/ CommitFails(h, next)
    BY <1>1, StaysIdle DEF StartShutdown
  <1>4. mode' = [mode EXCEPT ![h] = "closing"] => Running(h)'
    BY HostTypes DEF OpsOK, Running
  <1> HIDE DEF next
  <1>5. Failing(next) = {}
    BY <1>1, <1>2 DEF Calm, Failing, Live, LiveLifecycles
  <1> QED BY <1>1, <1>2, <1>3, <1>4, <1>5, CalmCovers, CommitAttends DEF Calm

-----------------------------------------------------------------------------
(* ... and in a pass                                                        *)

\* A commit of a pass that covers what fails.
LEMMA PassAttends ==
  ASSUME FencingInv, SlotsInv, StoreWorks, NEW h \in Hosts, Running(h),
         NEW next, Proper(mem[h], next), NEW o, CoversAll(o, next), CommitOrExit(h, next, o)
  PROVE  Attends(h)
  <1>1. Running(h) => Up(h)
    BY DEF Running, Up
  <1>2. \/ Commit(h, next) /\ Goto(h, o) /\ Running(h)'
        \/ CommitFails(h, next)
    BY DEF CommitOrExit, local, Running
  <1> QED BY <1>1, <1>2, CommitAttends

\* The loops of a pass cover every failure that drains.
LEMMA EntersCovering ==
  ASSUME NEW h, NEW o \in Operations, NEW s, Drains(s)
  PROVE  CoversAll(EnterCandidates(o, s), s) /\ CoversAll(EnterInactive(h, o, s), s)
  <1> DEFINE due == {g \in Generations : s.records[g].lifecycle \in Retained}
             f == InactiveFailures(h, s)
             p == [o EXCEPT !.at = "candidates", !.todo = due, !.after = "candidates"]
             i == [o EXCEPT !.at = "inactive", !.todo = f]
  <1>1. p.at = "candidates" /\ p.todo = due
    BY Zenon DEF Operations
  <1>2. i.at = "inactive"
    BY Zenon DEF Operations
  <1>3. /\ EnterCandidates(o, s) = IF due = {} THEN Idle ELSE p
        /\ EnterInactive(h, o, s) \in {EnterCandidates(o, s), i}
    BY DEF EnterCandidates, EnterInactive
  <1> HIDE DEF p, i
  <1>4. \A g \in Failing(s) : s.records[g].lifecycle = "Draining" /\ g \in due
    BY DEF Drains, Failing, Live, Retained
  <1>5. CoversAll(i, s)
    BY <1>2, <1>4 DEF CoversAll, Covers
  <1>6. CoversAll(EnterCandidates(o, s), s)
    <2>1. CASE due = {}
      BY <1>4, <2>1 DEF CoversAll
    <2>2. CASE due # {}
      BY <1>1, <1>3, <1>4, <2>2 DEF CoversAll, Covers
    <2> QED BY <2>1, <2>2
  <1> QED BY <1>3, <1>5, <1>6

\* A loop that goes on, after Generation g, covers what the pass had left.
LEMMA ResumesCovering ==
  ASSUME NEW o \in Operations, NEW s,
         \A g \in Failing(s) : /\ s.records[g].lifecycle = "Draining"
                               /\ g \in o.todo \/ o.after = "inactive"
  PROVE  CoversAll(Resume(o, s), s)
  <1> DEFINE q == [o EXCEPT !.gen = None, !.reason = None]
             r == [o EXCEPT !.at = o.after, !.gen = None, !.reason = None]
  <1>1. q \in Operations
    BY Zenon DEF Operations
  <1>2. r.at = o.after /\ r.todo = o.todo /\ o.after \in {"inactive", "candidates"}
    BY Zenon DEF Operations
  <1>3. Resume(o, s) = IF o.todo # {} THEN r
                       ELSE IF o.after = "inactive" THEN EnterCandidates(q, s) ELSE Idle
    BY DEF Resume
  <1> HIDE DEF q, r
  <1>4. CoversAll(EnterCandidates(q, s), s)
    BY <1>1, EntersCovering DEF Drains
  <1>5. CASE o.todo # {}
    BY <1>2, <1>3, <1>5 DEF CoversAll, Covers
  <1>6. CASE o.todo = {}
    BY <1>3, <1>4, <1>6 DEF CoversAll
  <1> QED BY <1>5, <1>6

\* The pass records the failure of the routed Generation, and reacts next.
LEMMA TickAttends ==
  ASSUME FencingInv, RecordsInv, KeptInv, SlotsInv, FailuresDealtWith, StoreWorks,
         NEW h \in Hosts, Tick(h)
  PROVE  Attends(h)
  <1> DEFINE a == mem[h].active
             pass == [Idle EXCEPT !.time = now]
             o == [pass EXCEPT !.at = "reconcile"]
             next == MarkFailed(mem[h], a)
             q == EnterInactive(h, pass, mem[h])
  <1>1. /\ Running(h) /\ op[h].at = "idle" /\ mem[h] \in ControlStates /\ Sane(mem[h])
        /\ Idle \in Operations /\ now \in Nat
    BY HostRecords, IdleOrdinary DEF Tick, Ordinary, At
  <1>2. Calm(h) /\ slots[h] = Live(mem[h])
    BY <1>1, CalmSteps, AllPresent DEF Present
  <1>3. pass \in Operations
    BY <1>1, OperationFields
  <1>4. Watched(h) => a \in Generations /\ a \in slots[h]
    BY <1>2, RoutedPresent DEF Watched
  <1>5. \/ a \in Generations /\ CommitOrExit(h, next, o)
        \/ Goto(h, q) /\ UNCHANGED <<mem, local>>
    BY <1>4 DEF Tick
  <1> HIDE DEF pass
  <1>6. o.at = "reconcile"
    BY <1>3, Zenon DEF Operations
  <1> HIDE DEF o, q
  <1>7. CASE a \in Generations /\ CommitOrExit(h, next, o)
    <2>1. Proper(mem[h], next) /\ SameBut(mem[h], next, a, a) /\ next.active = a
      BY <1>1, <1>7, MarkFailedProper, MarkFailedChanges DEF SameRoute
    <2> HIDE DEF next
    <2>2. Failing(next) \subseteq {a}
      BY <1>2, <2>1 DEF Calm, Failing, Live, SameBut
    <2>3. CoversAll(o, next)
      BY <1>6, <2>1, <2>2 DEF CoversAll, Covers
    <2> QED BY <1>1, <1>7, <2>1, <2>3, PassAttends
  <1>8. CASE Goto(h, q) /\ UNCHANGED <<mem, local>>
    BY <1>2, <1>8, CalmLooksAttends
  <1> QED BY <1>5, <1>7, <1>8

\* mark_generation_failed: the failed Generation drains.
LEMMA ReactAttends ==
  ASSUME FencingInv, RecordsInv, KeptInv, SlotsInv, FailuresDealtWith, StoreWorks,
         NEW h \in Hosts, React(h)
  PROVE  Attends(h)
  <1> DEFINE s == mem[h]
             t == op[h].time
             a == s.active
  <1>1. op[h].at = "reconcile"
    BY DEF React, At
  <1>2. /\ Running(h) /\ s \in ControlStates /\ Sane(s) /\ t \in Nat
        /\ op[h] \in Operations /\ a # None
    <2>1. Running(h)
      BY <1>1, KeptParts DEF StartSteps
    <2> QED BY <1>1, <2>1, HostRecords DEF PassFits
  <1>3. a \in Generations /\ Failing(s) \subseteq {a}
    <2>1. a \in Generations
      BY <1>2, RoutedPresent
    <2> QED BY <1>1, <1>2, <2>1, FailingMeans DEF CoversAll, Covers
  <1>4. Proper(s, FenceActive(s, t)) /\ Drains(FenceActive(s, t))
    <2> DEFINE n == FenceActive(s, t)
    <2>1. Proper(s, n) /\ SameBut(s, n, a, a) /\ n.records[a].lifecycle = "Draining"
      BY <1>2, <1>3, FenceActiveProper, FenceActiveChanges DEF Becomes
    <2> HIDE DEF n
    <2>2. Drains(n)
      BY <1>3, <2>1 DEF Drains, Failing, Live, SameBut
    <2> QED BY <2>1, <2>2 DEF n
  <1>5. ASSUME NEW g \in AutomaticTargets(s, t)
        PROVE  Proper(s, Roll(s, g, t)) /\ Drains(Roll(s, g, t))
    <2> DEFINE n == Roll(s, g, t)
    <2>1. /\ g \in Generations /\ RollbackTarget(s, g, t) /\ s.records[g].health = "Healthy"
          /\ s.records[g].lifecycle \in Retained
      BY <1>5 DEF AutomaticTargets, RollbackTarget
    <2>2. g # a
      BY <1>2, <2>1, ClosedMeans DEF Sane, Retained
    <2>3. /\ Proper(s, n) /\ SameBut(s, n, g, a) /\ n.records[a].lifecycle = "Draining"
          /\ n.records[g].health = "Healthy"
      BY <1>2, <1>3, <2>1, <2>2, RollProper, RollChanges DEF Becomes
    <2> HIDE DEF n
    <2>4. Drains(n)
      BY <1>3, <2>3 DEF Drains, Failing, Live, SameBut
    <2> QED BY <2>3, <2>4 DEF n
  <1>6. PICK next : /\ Proper(s, next) /\ Drains(next)
                    /\ CommitOrExit(h, next, EnterInactive(h, op[h], next))
    BY <1>4, <1>5 DEF React
  <1> QED BY <1>2, <1>6, EntersCovering, PassAttends

\* The failure of an inactive Generation is recorded, and it is stopped next.
LEMMA MarkInactiveFailedAttends ==
  ASSUME FencingInv, RecordsInv, KeptInv, SlotsInv, FailuresDealtWith, StoreWorks,
         NEW h \in Hosts, NEW g \in Generations, MarkInactiveFailed(h, g)
  PROVE  Attends(h)
  <1> DEFINE T == op[h].todo \ {g}
             o == [op[h] EXCEPT !.at = "stop", !.gen = g, !.todo = T,
                                !.reason = "TerminalFailure", !.after = "inactive"]
             next == MarkFailed(mem[h], g)
  <1>1. op[h].at = "inactive" /\ CommitOrExit(h, next, o) /\ op[h] \in Operations
    BY HostTypes DEF MarkInactiveFailed, At
  <1>2. Running(h) /\ CoversAll(op[h], mem[h])
    BY <1>1, KeptParts, FailingMeans DEF StartSteps
  <1>3. o.at = "stop" /\ o.gen = g /\ o.after = "inactive"
    BY <1>1, Zenon DEF Operations
  <1> HIDE DEF o
  <1>4. Proper(mem[h], next) /\ SameBut(mem[h], next, g, g)
    BY HostRecords, MarkFailedProper, MarkFailedChanges
  <1> HIDE DEF next
  <1>5. \A x \in Failing(next) : x # g => next.records[x].lifecycle = "Draining"
    BY <1>1, <1>2, <1>4 DEF CoversAll, Covers, Failing, Live, SameBut
  <1>6. CoversAll(o, next)
    BY <1>3, <1>5 DEF CoversAll, Covers
  <1> QED BY <1>1, <1>2, <1>4, <1>6, PassAttends

\* maintain_candidate: a failed Generation is stopped when its turn comes.
LEMMA MaintainCandidateAttends ==
  ASSUME FencingInv, RecordsInv, KeptInv, SlotsInv, FailuresDealtWith, StoreWorks,
         NEW h \in Hosts, NEW g \in Generations, MaintainCandidate(h, g)
  PROVE  Attends(h)
  <1> DEFINE T == op[h].todo \ {g}
             rest == [op[h] EXCEPT !.todo = T, !.after = "candidates"]
             why == DueReason(h, g)
             o == [rest EXCEPT !.at = "stop", !.gen = g, !.reason = why]
             q == Resume(rest, mem[h])
             next == ToStandby(mem[h], g)
             r == mem[h].records[g]
  <1>1. op[h].at = "candidates" /\ g \in op[h].todo /\ op[h] \in Operations
    BY HostTypes DEF MaintainCandidate, At
  <1>2. /\ Running(h) /\ mem[h] \in ControlStates /\ Sane(mem[h])
        /\ CoversAll(op[h], mem[h])
    BY <1>1, KeptParts, HostRecords, FailingMeans DEF StartSteps
  <1>3. ~Unjudgeable(h, g)
    BY <1>1, Judgeable DEF At
  <1>4. \/ Drained(h, g) /\ CommitOrExit(h, next, q)
        \/ ~Drained(h, g) /\ why = None /\ Goto(h, q) /\ UNCHANGED <<mem, local>>
        \/ Goto(h, o) /\ UNCHANGED <<mem, local>>
    BY <1>3 DEF MaintainCandidate
  <1>5. \A x \in Failing(mem[h]) : mem[h].records[x].lifecycle = "Draining" /\ x \in op[h].todo
    BY <1>1, <1>2 DEF CoversAll, Covers
  <1>6. Drained(h, g) \/ why = None => g \notin Failing(mem[h])
    <2>1. CASE g \in Failing(mem[h])
      <3>1. r.lifecycle = "Draining" /\ r.health = "Failed"
        BY <1>5, <2>1 DEF Failing
      <3>2. ~Drained(h, g)
        BY <3>1 DEF Drained
      <3>3. why = "TerminalFailure"
        BY <3>1 DEF DueReason
      <3>4. "TerminalFailure" # None
        BY ReasonAssumption DEF Reasons
      <3> QED BY <3>2, <3>3, <3>4
    <2> QED BY <2>1
  <1>7. rest \in Operations /\ rest.todo = T /\ rest.after = "candidates"
    <2>1. T \in SUBSET Generations
      BY <1>1, HostTypes
    <2> HIDE DEF T
    <2> QED BY <1>1, <2>1, Zenon DEF Operations
  <1> HIDE DEF rest
  <1>8. o.at = "stop" /\ o.gen = g /\ o.todo = T
    BY <1>7, Zenon DEF Operations
  <1> HIDE DEF o
  <1>9. CASE Drained(h, g) /\ CommitOrExit(h, next, q)
    <2>1. mem[h].records[g].lifecycle = "Draining" /\ mem[h].records[g].rollbackDeadline # None
          /\ mem[h].records[g].health = "Healthy"
      BY <1>9 DEF Drained, Open
    <2>2. /\ Proper(mem[h], next) /\ SameBut(mem[h], next, g, g)
          /\ next.records[g].health = "Healthy"
      BY <1>2, <2>1, ToStandbyProper, ToStandbyChanges DEF Becomes
    <2> HIDE DEF next
    <2>3. \A x \in Failing(next) : next.records[x].lifecycle = "Draining" /\ x \in T
      BY <1>5, <2>2 DEF Failing, Live, SameBut
    <2>4. CoversAll(Resume(rest, next), next)
      BY <1>7, <2>3, ResumesCovering
    <2>5. Resume(rest, next) = q
      BY <1>7 DEF Resume
    <2> QED BY <1>2, <1>9, <2>2, <2>4, <2>5, PassAttends
  <1>10. CASE ~Drained(h, g) /\ why = None /\ Goto(h, q) /\ UNCHANGED <<mem, local>>
    <2>1. \A x \in Failing(mem[h]) : mem[h].records[x].lifecycle = "Draining" /\ x \in T
      BY <1>5, <1>6, <1>10
    <2>2. CoversAll(q, mem[h])
      BY <1>7, <2>1, ResumesCovering
    <2> QED BY <1>2, <1>10, <2>2, LooksAttends
  <1>11. CASE Goto(h, o) /\ UNCHANGED <<mem, local>>
    <2>1. CoversAll(o, mem[h])
      BY <1>5, <1>8 DEF CoversAll, Covers
    <2> QED BY <1>2, <1>11, <2>1, LooksAttends
  <1> QED BY <1>4, <1>9, <1>10, <1>11

\* shutdown_and_retire, its first half: the failure is still being dealt with.
LEMMA StopRetainedAttends ==
  ASSUME FencingInv, RecordsInv, KeptInv, SlotsInv, FailuresDealtWith,
         NEW h \in Hosts, StopRetained(h)
  PROVE  Attends(h)
  <1> DEFINE g == op[h].gen
  <1>1. op[h].at = "stop" /\ Present(op[h])
    BY DEF StopRetained, At, Present
  <1>2. /\ Running(h) /\ g \in Generations /\ op[h] \in Operations
        /\ mem[h].records[g].lifecycle \in Retained
    BY <1>1, JustifiedMeans
  <1>3. g \in slots[h] /\ CoversAll(op[h], mem[h])
    <2>1. g \in Live(mem[h])
      BY <1>2 DEF Live, LiveLifecycles, Retained
    <2> QED BY <1>1, <1>2, <2>1, AllPresent, FailingMeans
  <1>4. PICK o : /\ Goto(h, o) /\ UNCHANGED <<mem, local>>
                 /\ \/ o = [op[h] EXCEPT !.at = "retiring"]
                    \/ o = [op[h] EXCEPT !.at = "retiring", !.clean = FALSE]
    BY <1>3 DEF StopRetained
  <1>5. Moved(op[h], o, "retiring")
    BY <1>2, <1>4, MovesOn
  <1>6. CoversAll(o, mem[h])
    BY <1>1, <1>3, <1>5 DEF CoversAll, Covers, Moved
  <1> QED BY <1>2, <1>4, <1>6, LooksAttends

\* shutdown_and_retire, its second half: the loop goes on to the other failures,
\* and an unclean shutdown leaves only what drains.
LEMMA RetireStoppedAttends ==
  ASSUME FencingInv, RecordsInv, KeptInv, SlotsInv, FailuresDealtWith, StoreWorks,
         NEW h \in Hosts, RetireStopped(h)
  PROVE  Attends(h)
  <1> DEFINE g == op[h].gen
             next == Retire(mem[h], g, op[h].reason, op[h].clean)
             q == Resume(op[h], next)
  <1>1. op[h].at = "retiring"
    BY DEF RetireStopped, At
  <1>2. /\ Running(h) /\ g \in Generations /\ op[h] \in Operations
        /\ mem[h].records[g].lifecycle \in Retained
    BY <1>1, JustifiedMeans
  <1>3. /\ Proper(mem[h], next) /\ SameBut(mem[h], next, g, g)
        /\ next.records[g].lifecycle = "Retired"
    BY <1>2, HostRecords, RetireProper, RetireChanges
  <1>4. \/ Commit(h, next) /\ Goto(h, q) /\ Running(h)'
        \/ Write(h, next) /\ Exit(h)
        \/ CommitFails(h, next)
    BY <1>2 DEF RetireStopped, local, Running
  <1>5. ASSUME NEW n, SameBut(mem[h], n, g, g), n.records[g].lifecycle = "Retired"
        PROVE  \A x \in Failing(n) : /\ n.records[x].lifecycle = "Draining"
                                     /\ x \in op[h].todo \/ op[h].after = "inactive"
    <2>1. ASSUME NEW x \in Failing(n) PROVE x # g /\ x \in Failing(mem[h])
                                            /\ n.records[x] = mem[h].records[x]
      BY <1>5, <2>1, LiveNames DEF Failing, Live, SameBut
    <2> QED BY <1>1, <1>2, <2>1, FailingMeans DEF CoversAll, Covers
  <1>6. CoversAll(q, next) /\ Drains(next)
    <2> HIDE DEF next
    <2> QED BY <1>2, <1>3, <1>5, ResumesCovering DEF Drains
  <1>7. Up(h)
    BY <1>2 DEF Running, Up
  <1> HIDE DEF q, next
  <1>8. CASE Write(h, next) /\ Exit(h)
    BY <1>3, <1>6, <1>8, WriteAttends
  <1> QED BY <1>3, <1>4, <1>6, <1>7, <1>8, CommitAttends

-----------------------------------------------------------------------------
(* ... and in the steps that have none to deal with                         *)

\* A suspension begins, and goes on, with nothing that fails.
LEMMA SuspendingAttends ==
  ASSUME FencingInv, KeptInv, FailuresDealtWith, NEW h \in Hosts,
         \/ Suspend(h) \/ LeasesDrained(h)
         \/ \E spent \in {0, SuspendTimeout} : DrainAndSuspend(h, spent)
         \/ \E g \in Generations : SuspendSlot(h, g)
  PROVE  Attends(h)
  <1>1. /\ Command(h) \/ op[h].at \in {"suspending", "draining", "bounded"}
        /\ UNCHANGED <<mem, local>> /\ \E o : Goto(h, o)
    BY DEF Suspend, LeasesDrained, DrainAndSuspend, SuspendSlot, At
  <1>2. Calm(h)
    BY <1>1, CalmSteps
  <1> QED BY <1>1, <1>2, CalmLooksAttends

\* A suspension ends.
LEMMA EndSuspendAttends ==
  ASSUME FencingInv, RecordsInv, KeptInv, SlotsInv, FailuresDealtWith, StoreWorks,
         NEW h \in Hosts, FinishSuspend(h) \/ FinishBounded(h) \/ SuspendTimesOut(h)
  PROVE  Attends(h)
  <1> DEFINE next == Suspended(h)
  <1>1. Calm(h)
    <2>1. op[h].at \in {"suspending", "draining", "bounded"}
      BY DEF FinishSuspend, FinishBounded, SuspendTimesOut, At
    <2> QED BY <2>1, CalmSteps
  <1>2. \/ Write(h, next) /\ Exit(h)
        \/ CommitFails(h, next)
        \/ UNCHANGED store /\ Exit(h)
    BY DEF FinishSuspend, FinishBounded, SuspendTimesOut, CommitFails
  <1>3. Proper(mem[h], next)
    BY HostRecords, FlagsProper DEF Suspended
  <1>4. next.records = mem[h].records
    BY HostRecords, Zenon DEF Suspended, ControlStates
  <1> HIDE DEF next
  <1>5. Drains(next) /\ Drains(mem[h])
    BY <1>1, <1>4 DEF Calm, Drains, Failing, Live
  <1>6. ~CommitFails(h, next)
    BY <1>1, <1>3, CommitWorks DEF Calm
  <1> QED BY <1>1, <1>2, <1>3, <1>5, <1>6, WriteAttends, CalmExitAttends DEF Calm

\* A Host stops, between two operations.
LEMMA StopAttends ==
  ASSUME FencingInv, KeptInv, SlotsInv, FailuresDealtWith, NEW h \in Hosts, Stop(h)
  PROVE  Attends(h)
  <1>1. Running(h) /\ op[h].at = "idle" /\ Exit(h) /\ UNCHANGED store
    BY DEF Stop, At, Running
  <1>2. Calm(h)
    BY <1>1, CalmSteps
  <1> QED BY <1>1, <1>2, CalmCovers, CalmExitAttends DEF Calm

\* Steps that leave the records, the operations and the modes alone.
LEMMA DealtKept ==
  ASSUME FailuresDealtWith, UNCHANGED <<store, mem, mode, op>>
  PROVE  FailuresDealtWith'
  BY DealtParts DEF Up

-----------------------------------------------------------------------------
(* Every step, and the theorems about failures                              *)

\* A step of a Host deals with failures, or has nothing to do with them.
LEMMA HostsAttend ==
  ASSUME FencingInv, RecordsInv, KeptInv, SlotsInv, FailuresDealtWith,
         Exclusive, StoreWorks, NoCrash, NEW h \in Hosts,
         \/ Start(h) \/ Operator(h) \/ Tick(h) \/ Continue(h) \/ StageFails(h) \/ Crash(h)
  PROVE  Attends(h)
  <1>1. CASE Operator(h)
    BY <1>1, TransitionAttends, RollbackAttends, StartShutdownAttends, SuspendingAttends
       DEF Operator
  <1>2. CASE Continue(h)
    <2>1. CASE RefuseLeased(h) \/ StopPredecessor(h) \/ RetirePredecessor(h)
               \/ RecordStageFailure(h) \/ StageSucceeds(h) \/ Publish(h)
      BY <2>1, StageAttends, RetirePredecessorAttends, PublishAttends
    <2>2. CASE React(h) \/ StopRetained(h) \/ RetireStopped(h) \/ Stop(h)
      BY <2>2, ReactAttends, StopRetainedAttends, RetireStoppedAttends, StopAttends
    <2>3. ASSUME NEW g \in Generations,
                 MarkInactiveFailed(h, g) \/ MaintainCandidate(h, g) \/ SuspendSlot(h, g)
          PROVE  Attends(h)
      BY <2>3, MarkInactiveFailedAttends, MaintainCandidateAttends, SuspendingAttends
    <2>4. CASE FinishSuspend(h) \/ LeasesDrained(h) \/ SuspendTimesOut(h) \/ FinishBounded(h)
      BY <2>4, SuspendingAttends, EndSuspendAttends
    <2> QED BY <1>2, <2>1, <2>2, <2>3, <2>4 DEF Continue
  <1>3. ~Crash(h)
    BY DEF Crash, Fault, NoCrash
  <1> QED BY <1>1, <1>2, <1>3, StartsAttends, TickAttends, StageAttends

\* Every step deals with the failures there are.
LEMMA StepDealt ==
  ASSUME FencingInv, RecordsInv, KeptInv, SlotsInv, FailuresDealtWith,
         Exclusive, StoreWorks, NoCrash, [Next]_vars
  PROVE  FailuresDealtWith'
  <1>1. CASE UNCHANGED vars
    BY <1>1, DealtKept DEF vars
  <1>2. CASE AdvanceTime
    BY <1>2, DealtKept DEF AdvanceTime, local
  <1>3. CASE \E h \in Hosts, g \in Generations : Work(h, g)
    <2>1. UNCHANGED <<store, mem, mode, op>>
      BY <1>3 DEF Work, Lease, Release, Die, local
    <2> QED BY <2>1, DealtKept
  <1>4. ASSUME NEW h \in Hosts, Sound(h), Attends(h) PROVE FailuresDealtWith'
    BY <1>4, AttendsPreserves
  <1>5. CASE \E h \in Hosts : \/ Start(h) \/ Operator(h) \/ Tick(h) \/ Continue(h)
                              \/ StageFails(h) \/ Crash(h)
    BY <1>4, <1>5, HostsSound, HostsAttend
  <1> QED BY <1>1, <1>2, <1>3, <1>5 DEF Next

\* No record is live.
LEMMA InitDealt == Init => FailuresDealtWith
  BY DEF Init, FailuresDealtWith, Live, InitialState, NoRecord, LiveLifecycles

\* While one Host is up at a time, no commit fails with an I/O error and no Host
\* crashes, every failure that is recorded is one the pass is dealing with or
\* will come to; with what precedes, all that the lifecycle run checks holds for
\* every number of Hosts and Generations and every deadline.
THEOREM AllInOrder == ASSUME Exclusive, StoreWorks, NoCrash PROVE Spec => []Orderly
  <1>1. Init => FailuresDealtWith
    BY InitDealt
  <1>2. Inductive /\ SlotsInv /\ FailuresDealtWith /\ [Next]_vars => FailuresDealtWith'
    BY StepDealt DEF Inductive
  <1>3. Inductive /\ SlotsInv /\ QuietInv /\ FailuresDealtWith => Orderly
    BY DEF Orderly
  <1> QED BY <1>1, <1>2, <1>3, InductiveHolds, SlotsHold, StaysQuiet, PTL DEF Spec

\* One maintenance pass deals completely with every failure it records: between
\* two operations of a Host no Failed Generation is routed, draining or kept.
THEOREM FailuresFenced ==
  ASSUME Exclusive, StoreWorks, NoCrash PROVE Spec => []FailureFencedAtRest
  <1>1. Orderly => FailureFencedAtRest
    <2> SUFFICES ASSUME Orderly, NEW h \in Hosts, Rest(h), NEW g \in Live(mem[h])
                 PROVE  mem[h].records[g].health = "Healthy"
      BY DEF FailureFencedAtRest
    <2>1. Failing(mem[h]) = {} /\ mem[h] \in ControlStates /\ g \in Generations
      BY CalmSteps, HostRecords DEF Orderly, Inductive, Rest, At, Calm, Live
    <2>2. mem[h].records[g].health \in {"Healthy", "Failed"}
      BY <2>1, RecordParts DEF Healths
    <2> QED BY <2>1, <2>2 DEF Failing
  <1> QED BY <1>1, AllInOrder, PTL
=============================================================================
