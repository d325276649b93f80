----------------------------- MODULE GuestProofs -----------------------------
(***************************************************************************)
(* The generations of the two byte-oriented guest adapters keep their      *)
(* guests within bounds: for any number of calls and streams, any limits   *)
(* and any number of imports.                                              *)
(*                                                                         *)
(* The adapters are two implementations of one design.  Each step of       *)
(* either is a step of the Host thread for a call (HostStep), of the life  *)
(* of the generation (LifeStep) or of the worker thread (WorkerStep), and  *)
(* those three keep GuestInv.  What makes it inductive: only the call the  *)
(* worker is blocked at has an import or its reply, so an import that was  *)
(* accepted lands in the tables that accepted it (Listening); and a call   *)
(* that is opening a stream holds a slot until its outcome is settled      *)
(* (GuestSlots).  The deadline thread of a Wasm generation is told last    *)
(* what is the case (TimerInv).                                            *)
(***************************************************************************)
EXTENDS QuickJsAdapter, FiniteSetTheorems, SequenceTheorems, TLAPS

CONSTANT TimerBacklog
VARIABLES epochDue, timer, timerCommands

\* The Wasm generation, with the variables that both adapters have.
Wasm == INSTANCE WasmAdapter

\* The limits of the adapters are numbers.
LimitsAreNumbers == MaxStreams \in Nat /\ MaxHostStreams \in Nat

-----------------------------------------------------------------------------
(* Slots and tables                                                        *)

\* What a set counts with and without an element.
LEMMA Counting ==
  ASSUME NEW S, IsFiniteSet(S), NEW x
  PROVE  /\ Cardinality(S) \in Nat
         /\ IsFiniteSet(S \ {x}) /\ IsFiniteSet(S \cup {x})
         /\ x \notin S => Cardinality(S \ {x}) = Cardinality(S)
         /\ x \in S => Cardinality(S \ {x}) = Cardinality(S) - 1
         /\ x \in S => Cardinality(S \cup {x}) = Cardinality(S)
         /\ x \notin S => Cardinality(S \cup {x}) = Cardinality(S) + 1
  <1>1. x \notin S => S \ {x} = S
    OBVIOUS
  <1>2. x \in S => S \cup {x} = S
    OBVIOUS
  <1> QED BY <1>1, <1>2, FS_CardinalityType, FS_AddElement, FS_RemoveElement

\* A part of a set is finite and counts no more.
LEMMA CountingParts ==
  ASSUME NEW S, IsFiniteSet(S), NEW T \in SUBSET S
  PROVE  IsFiniteSet(T) /\ Cardinality(T) \in Nat /\ Cardinality(T) <= Cardinality(S)
  BY FS_Subset, FS_CardinalityType

\* The table of host streams: its numbers, and what it promises.
TableInv ==
  /\ IsFiniteSet(hostStreams) /\ nextHostStream \in Nat /\ hostStreams \subseteq Nat
  /\ ImportTableSound

\* An import that the tables accepted keeps them sound, whatever it comes back with.
LEMMA ImportLands ==
  ASSUME LimitsAreNumbers, TableInv, NEW i, NEW r, Refusal(i) = "none", Landed(i, r)
  PROVE  TableInv'
  <1>1. CASE i.op = "open" /\ r = "ok"
    <2>1. bindings /\ ~(Cardinality(hostStreams) >= MaxHostStreams)
      BY <1>1 DEF Refusal, OpenRefusal, BindingError
    <2>2. /\ hostStreams' = hostStreams \cup {nextHostStream}
          /\ nextHostStream' = nextHostStream + 1 /\ bindings' = bindings
      BY <1>1 DEF Landed
    <2>3. /\ IsFiniteSet(hostStreams') /\ Cardinality(hostStreams) \in Nat
          /\ \/ Cardinality(hostStreams') = Cardinality(hostStreams)
             \/ Cardinality(hostStreams') = Cardinality(hostStreams) + 1
      BY <2>2, Counting DEF TableInv
    <2>4. Cardinality(hostStreams') <= MaxHostStreams
      BY <2>1, <2>3 DEF LimitsAreNumbers
    <2>5. /\ nextHostStream' \in Nat /\ hostStreams' \subseteq Nat
          /\ \A s \in hostStreams' : s < nextHostStream'
      BY <2>2 DEF TableInv, ImportTableSound
    <2> QED BY <2>1, <2>2, <2>3, <2>4, <2>5 DEF TableInv, ImportTableSound
  <1>2. CASE ~(i.op = "open" /\ r = "ok")
    <2>1. /\ hostStreams' \subseteq hostStreams /\ nextHostStream' = nextHostStream
          /\ bindings' = bindings
      BY <1>2 DEF Landed
    <2>2. /\ IsFiniteSet(hostStreams') /\ Cardinality(hostStreams') \in Nat
          /\ Cardinality(hostStreams') <= Cardinality(hostStreams)
          /\ Cardinality(hostStreams) \in Nat
      BY <2>1, CountingParts, FS_CardinalityType DEF TableInv
    <2>3. Cardinality(hostStreams') <= MaxHostStreams
      BY <2>2 DEF TableInv, ImportTableSound, LimitsAreNumbers
    <2> QED BY <2>1, <2>2, <2>3 DEF TableInv, ImportTableSound
  <1> QED BY <1>1, <1>2

\* Activation keeps the table sound.
LEMMA ImportsOpen == TableInv /\ ActivateImports => TableInv'
  BY DEF TableInv, ImportTableSound, ActivateImports

\* So does deactivation.
LEMMA ImportsClose == LimitsAreNumbers /\ TableInv /\ DeactivateImports => TableInv'
  BY FS_EmptySet DEF LimitsAreNumbers, TableInv, ImportTableSound, DeactivateImports

-----------------------------------------------------------------------------
(* What the state of a generation consists of                              *)

Outs == {"none", "closed", "value", "number", "negative", "null", "message", "terminal", "error",
         "fail"}

CallRecords ==
  [at: {"idle", "waiting", "importing", "abandoned"}, kind: GuestKinds \cup {"none"},
   of: Calls \cup {"none"}, outcome: Outs, import: ImportCalls \cup {NoOp},
   reply: {"none", "given", "closed"}, made: Nat]

Commands == {CallCommand(c): c \in Calls} \cup {CancelCommand(c): c \in Calls} \cup {Shutdown}

WorkerPlaces == {"loading", "idle", "taken", "accepted", "running", "blocked", "returned",
                 "reported", "leaving", "exited"}

\* A worker that waits for a reply is at a call.
GuestShape ==
  /\ call \in [Calls -> CallRecords]
  /\ \A c \in Calls: InFlight(c) => call[c].of \in Calls
  /\ session \in [Calls -> {"none", "open", "ended", "cancelled"}]
  /\ active \in Nat /\ failed \in BOOLEAN
  /\ queue \in Seq(Commands)
  /\ worker \in [at: WorkerPlaces, cmd: Commands \cup {NoOp}, out: Outs]
  /\ worker.at = "blocked" => IsCall

\* What the worker is at, if it is a call, is one of the calls.
LEMMA CurrentIsCall == GuestShape /\ IsCall => Current \in Calls /\ worker.cmd = CallCommand(Current)
  BY DEF GuestShape, IsCall, Current, Commands, CallCommand, CancelCommand, Shutdown, NoOp

\* A call that has not begun, or no longer goes on.
LEMMA IdleRecord == Idle \in CallRecords
  BY DEF Idle, CallRecords, Outs, GuestKinds, SessionKinds

\* What becomes of a call at its end, at its abandonment and with a reply.
LEMMA CallChanges ==
  ASSUME GuestShape, NEW c \in Calls, NEW out \in Outs
  PROVE  /\ Told(c, out) \in CallRecords /\ Abandon(c) \in CallRecords
         /\ Replied(c) \in CallRecords
         /\ Told(c, out).at \in {"waiting", "importing"} =>
              InFlight(c) /\ Told(c, out).of = call[c].of /\ Told(c, out).kind = call[c].kind
         /\ Abandon(c).at \in {"idle", "abandoned"}
         /\ Replied(c).of = call[c].of /\ Replied(c).kind = call[c].kind
         /\ [call[c] EXCEPT !.at = "importing"] \in CallRecords
         /\ [call[c] EXCEPT !.reply = "none"] \in CallRecords
         /\ \A i \in ImportCalls:
              [call[c] EXCEPT !.import = i, !.made = call[c].made + 1] \in CallRecords
  <1>1. call[c] \in CallRecords
    BY DEF GuestShape
  <1>2. /\ Told(c, out) \in CallRecords
        /\ Told(c, out).at \in {"waiting", "importing"} =>
             InFlight(c) /\ Told(c, out).of = call[c].of /\ Told(c, out).kind = call[c].kind
    <2>1. CASE call[c].at = "abandoned"
      BY <2>1, IdleRecord DEF Told, Idle
    <2>2. CASE call[c].at # "abandoned"
      <3>1. Told(c, out) = [call[c] EXCEPT !.outcome = out]
        BY <2>2 DEF Told
      <3>2. [call[c] EXCEPT !.outcome = out] \in CallRecords
        BY <1>1 DEF CallRecords
      <3> QED BY <1>1, <3>1, <3>2 DEF CallRecords, InFlight
    <2> QED BY <2>1, <2>2
  <1>3. Abandon(c) \in CallRecords /\ Abandon(c).at \in {"idle", "abandoned"}
    <2>1. PICK x \in {"none", "given", "closed"} :
            Abandon(c) = Idle \/ Abandon(c) = [Idle EXCEPT !.at = "abandoned", !.made = call[c].made,
                                                            !.reply = x]
      <3>1. call[c].reply \in {"none", "given", "closed"}
        BY <1>1 DEF CallRecords
      <3> QED BY <3>1 DEF Abandon
    <2>2. CASE Abandon(c) = Idle
      BY <2>2, IdleRecord DEF Idle
    <2>3. CASE Abandon(c) = [Idle EXCEPT !.at = "abandoned", !.made = call[c].made, !.reply = x]
      <3>1. call[c].made \in Nat
        BY <1>1 DEF CallRecords
      <3> QED BY <2>3, <3>1, IdleRecord DEF CallRecords
    <2> QED BY <2>1, <2>2, <2>3
  <1>4. Replied(c) \in CallRecords
    BY <1>1 DEF Replied, CallRecords
  <1>6. Replied(c).of = call[c].of /\ Replied(c).kind = call[c].kind
    BY <1>1 DEF Replied, CallRecords
  <1>5. /\ [call[c] EXCEPT !.at = "importing"] \in CallRecords
        /\ [call[c] EXCEPT !.reply = "none"] \in CallRecords
    BY <1>1 DEF CallRecords
  <1>7. ASSUME NEW i \in ImportCalls
        PROVE  [call[c] EXCEPT !.import = i, !.made = call[c].made + 1] \in CallRecords
    <2>1. call[c].made + 1 \in Nat
      BY <1>1 DEF CallRecords
    <2> QED BY <1>1, <2>1 DEF CallRecords
  <1> QED BY <1>2, <1>3, <1>4, <1>5, <1>6, <1>7

\* The call whose guest asks for import i.
Asking(i) == [call[Current] EXCEPT !.import = i, !.made = call[Current].made + 1]

\* Asking changes nothing else of the call.
LEMMA AskingFields ==
  ASSUME GuestShape, Current \in Calls, NEW i
  PROVE  /\ Asking(i).at = call[Current].at /\ Asking(i).kind = call[Current].kind
         /\ Asking(i).of = call[Current].of /\ Asking(i).reply = call[Current].reply
         /\ Asking(i).import = i
  BY DEF GuestShape, CallRecords, Asking

\* The shape when one call changes, the sessions or the slots.
LEMMA ShapeOfCalls ==
  ASSUME GuestShape, UNCHANGED <<queue, worker>>, failed' \in BOOLEAN, active' \in Nat,
         session' \in [Calls -> {"none", "open", "ended", "cancelled"}],
         call' \in [Calls -> CallRecords],
         \A c \in Calls: InFlight(c)' => call'[c].of \in Calls
  PROVE  GuestShape'
  BY DEF GuestShape, IsCall, InFlight

\* One call becomes something else that is a call.
LEMMA OneCall ==
  ASSUME GuestShape, NEW c \in Calls, NEW x \in CallRecords, call' = [call EXCEPT ![c] = x],
         x.at \in {"waiting", "importing"} => x.of \in Calls
  PROVE  /\ call' \in [Calls -> CallRecords]
         /\ \A d \in Calls: InFlight(d)' => call'[d].of \in Calls
  BY DEF GuestShape, InFlight

\* A count of slots stays one.
LEMMA Released == \A n \in Nat: Release(n) \in Nat
  BY DEF Release

\* What the end of a session does to the table of sessions and the count of slots.
LEMMA FinishShape ==
  ASSUME GuestShape, NEW s \in Calls, NEW to \in {"none", "ended", "cancelled"}, Finish(s, to)
  PROVE  active' \in Nat /\ session' \in [Calls -> {"none", "open", "ended", "cancelled"}]
  BY Released DEF GuestShape, Finish

\* The outcome of a call makes a stream, gives a slot back or ends its stream.
Settles(c) ==
  \/ call[c].kind = "open" /\ session' = [session EXCEPT ![c] = "open"] /\ UNCHANGED active
  \/ call[c].kind = "open" /\ active' \in {active, Release(active)} /\ UNCHANGED session
  \/ call[c].kind # "open" /\ Finish(call[c].of, "ended")
  \/ call[c].kind # "open" /\ UNCHANGED <<session, active>>

\* What that does to the table of sessions and the count of slots.
LEMMA SettleShape ==
  ASSUME GuestShape, NEW c \in Calls, InFlight(c), Settles(c)
  PROVE  active' \in Nat /\ session' \in [Calls -> {"none", "open", "ended", "cancelled"}]
  <1>1. call[c].of \in Calls
    BY DEF GuestShape
  <1>2. CASE Finish(call[c].of, "ended")
    BY <1>1, <1>2, FinishShape
  <1>3. CASE ~Finish(call[c].of, "ended")
    BY <1>3, Released DEF GuestShape, Settles
  <1> QED BY <1>2, <1>3

\* A generation that has not begun: its worker is loading the guest, and nobody has called.
GuestBegins ==
  /\ ImportsInit /\ call = [c \in Calls |-> Idle] /\ session = [c \in Calls |-> "none"] /\ active = 0
  /\ failed = FALSE /\ queue = <<>> /\ worker = [at |-> "loading", cmd |-> NoOp, out |-> "none"]
  /\ late = 0

\* A generation that has not begun consists of what it should.
LEMMA ShapeInitially == GuestBegins => GuestShape
  <1> SUFFICES ASSUME GuestBegins PROVE GuestShape
    OBVIOUS
  <1>2. call \in [Calls -> CallRecords] /\ \A c \in Calls: ~InFlight(c)
    BY IdleRecord DEF GuestBegins, Idle, InFlight
  <1>3. worker \in [at: WorkerPlaces, cmd: Commands \cup {NoOp}, out: Outs] /\ worker.at # "blocked"
    BY DEF GuestBegins, WorkerPlaces, Outs
  <1>4. queue \in Seq(Commands)
    BY DEF GuestBegins
  <1> QED BY <1>2, <1>3, <1>4 DEF GuestShape, GuestBegins

-----------------------------------------------------------------------------
(* What either adapter does, to what both have                             *)

\* A call hears its outcome.
Hears(c) ==
  /\ call[c].at = "waiting" /\ call' = [call EXCEPT ![c] = Idle]
  /\ Settles(c)
  /\ UNCHANGED <<imports, queue>>

\* A call is cancelled or dropped.
LetsGo(c) ==
  /\ InFlight(c) /\ call' = [call EXCEPT ![c] = Abandon(c)]
  /\ active' \in {active, Release(active)} /\ (call[c].kind # "open" => active' = active)
  /\ UNCHANGED <<imports, session, queue>>

\* An import is refused, answered or passed on, and the answer comes.
Serves(c) ==
  /\ call[c].at = "waiting" /\ call[c].import # NoOp
  /\ \/ call' = [call EXCEPT ![c] = Replied(c)] /\ UNCHANGED imports
     \/ /\ Refusal(call[c].import) = "none" /\ call' = [call EXCEPT ![c] = Replied(c)]
        /\ \E r: Landed(call[c].import, r)
     \/ /\ Refusal(call[c].import) = "none" /\ call' = [call EXCEPT ![c].at = "importing"]
        /\ UNCHANGED imports
  /\ UNCHANGED <<session, active, queue>>
Lands(c) ==
  /\ call[c].at = "importing" /\ call' = [call EXCEPT ![c] = Replied(c)]
  /\ \E r: Landed(call[c].import, r)
  /\ UNCHANGED <<session, active, queue>>

\* A stream is cancelled or dropped.
EndsStream(s) ==
  /\ \E to \in {"none", "ended", "cancelled"}: Finish(s, to)
  /\ queue' \in {queue, Append(queue, CancelCommand(s))}
  /\ UNCHANGED <<imports, call>>

\* A call is begun.
Submits(c) ==
  /\ call[c].at = "idle"
  /\ \E k \in GuestKinds, t \in Calls:
       /\ call' = [call EXCEPT ![c] = [Idle EXCEPT !.at = "waiting", !.kind = k, !.of = t]]
       /\ k = "open" => ~(active >= MaxStreams)
       /\ active' = IF k = "open" THEN active + 1 ELSE active
  /\ queue' = Append(queue, CallCommand(c))
  /\ UNCHANGED <<imports, session>>

HostStep(c) ==
  /\ Hears(c) \/ LetsGo(c) \/ Serves(c) \/ Lands(c) \/ EndsStream(c) \/ Submits(c)
  /\ UNCHANGED <<worker, late>> /\ failed' \in BOOLEAN /\ (failed => failed')

\* The life of the generation.
LifeStep ==
  /\ UNCHANGED <<call, session, active, failed, worker, late>>
  /\ queue' \in {queue, Append(queue, Shutdown)}
  /\ \/ UNCHANGED imports \/ ActivateImports
     \/ DeactivateImports /\ \A c \in Calls: ~InFlight(c)

WorkerRecords == [at: WorkerPlaces, cmd: Commands \cup {NoOp}, out: Outs]

\* The worker goes on, and no call hears of it.
Moves ==
  /\ worker.at # "blocked" /\ worker'.at # "blocked" /\ UNCHANGED call

\* The guest asks, and reads the answer.
Asks(i) ==
  /\ worker.at # "blocked" /\ IsCall /\ worker'.at = "blocked" /\ worker'.cmd = worker.cmd
  /\ call' = [call EXCEPT ![Current].import = i, ![Current].made = @ + 1]
Resumes ==
  /\ worker.at = "blocked" /\ call[Current].reply # "none" /\ worker'.at # "blocked"
  /\ call' = [call EXCEPT ![Current].reply = "none"]

\* Calls are told how they ended.
Tells(out) ==
  /\ worker.at # "blocked" /\ worker'.at # "blocked"
  /\ \/ IsCall /\ call' = [call EXCEPT ![Current] = Told(Current, out)]
     \/ \E told \in SUBSET Calls:
          call' = [c \in Calls |-> IF c \in told THEN Told(c, out) ELSE call[c]]

\* An import nobody listens to.
AsksNobody ==
  /\ worker.at # "blocked" /\ worker'.at # "blocked" /\ IsCall
  /\ call' = [call EXCEPT ![Current].made = @ + 1]

\* Places of a command that has begun, and of a worker that takes no other.
Begun == {"running", "blocked", "returned", "reported", "leaving", "exited"}

WorkerStep ==
  /\ \/ Moves \/ (\E i \in ImportCalls: Asks(i)) \/ Resumes \/ (\E out \in Outs: Tells(out))
     \/ AsksNobody
  /\ worker' \in WorkerRecords /\ queue' \in Seq(Commands) /\ failed' \in BOOLEAN
  /\ UNCHANGED <<imports, session, active>>
  /\ failed => failed'
  /\ \/ UNCHANGED late /\ (worker.at \in Begun /\ failed => worker'.at \in Begun)
     \/ /\ worker.at \notin Begun /\ worker'.at \in Begun /\ UNCHANGED failed
        /\ late' = IF failed THEN late + 1 ELSE late

GuestStep == (\E c \in Calls: HostStep(c)) \/ LifeStep \/ WorkerStep

\* A guest that asks is a call that has asked.
LEMMA GuestAsks ==
  ASSUME GuestShape, NEW i, Asks(i)
  PROVE  Current \in Calls /\ call' = [call EXCEPT ![Current] = Asking(i)]
  <1>1. Current \in Calls
    BY CurrentIsCall DEF Asks
  <1>2. call' = [call EXCEPT ![Current].import = i, ![Current].made = call[Current].made + 1]
    BY DEF Asks
  <1> QED BY <1>1, <1>2 DEF GuestShape, CallRecords, Asking

\* When calls are told, each is told or left alone.
LEMMA ToldOrNot ==
  ASSUME GuestShape, NEW out, Tells(out)
  PROVE  /\ \A c \in Calls: call'[c] \in {call[c], Told(c, out)}
         /\ \E f: call' = [c \in Calls |-> f[c]]
  <1>1. CASE IsCall /\ call' = [call EXCEPT ![Current] = Told(Current, out)]
    <2>1. call' = [c \in Calls |-> call'[c]]
      BY <1>1 DEF GuestShape
    <2> QED BY <1>1, <2>1, CurrentIsCall DEF GuestShape
  <1>2. ASSUME NEW told \in SUBSET Calls,
               call' = [c \in Calls |-> IF c \in told THEN Told(c, out) ELSE call[c]]
        PROVE  /\ \A c \in Calls: call'[c] \in {call[c], Told(c, out)}
               /\ \E f: call' = [c \in Calls |-> f[c]]
    <2>1. call' = [c \in Calls |-> call'[c]]
      BY <1>2
    <2> QED BY <1>2, <2>1
  <1> QED BY <1>1, <1>2 DEF Tells

-----------------------------------------------------------------------------
(* The state consists of what it should                                    *)

\* It does after a step of the Host thread,
LEMMA ShapeByHost ==
  ASSUME GuestShape, NEW c \in Calls, HostStep(c)
  PROVE  GuestShape'
  <1>1. "closed" \in Outs /\ active \in Nat /\ queue \in Seq(Commands)
        /\ session \in [Calls -> {"none", "open", "ended", "cancelled"}]
    BY DEF GuestShape, Outs
  <1> UNCHANGED worker /\ failed' \in BOOLEAN
    BY DEF HostStep
  <1>2. CASE Hears(c)
    <2>1. InFlight(c)
      BY <1>2 DEF Hears, InFlight
    <2>2. active' \in Nat /\ session' \in [Calls -> {"none", "open", "ended", "cancelled"}]
      BY <1>2, <2>1, SettleShape DEF Hears
    <2>3. call' = [call EXCEPT ![c] = Idle] /\ Idle.at = "idle"
      BY <1>2 DEF Hears, Idle
    <2> QED BY <1>1, <1>2, <2>2, <2>3, OneCall, IdleRecord, ShapeOfCalls DEF Hears
  <1>3. CASE LetsGo(c)
    <2>1. /\ call' = [call EXCEPT ![c] = Abandon(c)] /\ UNCHANGED <<queue, session>>
          /\ active' \in Nat
      BY <1>1, <1>3, Released DEF LetsGo
    <2>2. Abandon(c) \in CallRecords /\ Abandon(c).at \notin {"waiting", "importing"}
      BY <1>1, CallChanges
    <2> QED BY <1>1, <2>1, <2>2, OneCall, ShapeOfCalls
  <1>4. CASE Serves(c) \/ Lands(c)
    <2>1. PICK x \in {Replied(c), [call[c] EXCEPT !.at = "importing"]} :
            /\ call' = [call EXCEPT ![c] = x] /\ InFlight(c) /\ UNCHANGED <<queue, session, active>>
      BY <1>4 DEF Serves, Lands, InFlight
    <2>2. x \in CallRecords /\ x.of = call[c].of
      <3>1. [call[c] EXCEPT !.at = "importing"].of = call[c].of
        BY DEF GuestShape, CallRecords
      <3> QED BY <1>1, <3>1, CallChanges
    <2>3. call[c].of \in Calls
      BY <2>1 DEF GuestShape
    <2> QED BY <1>1, <2>1, <2>2, <2>3, OneCall, ShapeOfCalls
  <1>5. CASE EndsStream(c)
    <2>1. active' \in Nat /\ session' \in [Calls -> {"none", "open", "ended", "cancelled"}]
      BY <1>5, FinishShape DEF EndsStream
    <2>2. queue' \in Seq(Commands)
      <3>1. CancelCommand(c) \in Commands
        BY DEF Commands
      <3> QED BY <1>1, <1>5, <3>1 DEF EndsStream
    <2> QED BY <1>5, <2>1, <2>2 DEF GuestShape, EndsStream, IsCall, InFlight
  <1>6. CASE Submits(c)
    <2>1. PICK k \in GuestKinds, t \in Calls :
            /\ call' = [call EXCEPT ![c] = [Idle EXCEPT !.at = "waiting", !.kind = k, !.of = t]]
            /\ active' \in {active, active + 1} /\ UNCHANGED session
      BY <1>6 DEF Submits
    <2>2. PICK x : x = [Idle EXCEPT !.at = "waiting", !.kind = k, !.of = t]
      OBVIOUS
    <2>3. x \in CallRecords /\ x.of = t
      BY <2>2, IdleRecord DEF CallRecords
    <2>4. queue' \in Seq(Commands)
      <3>1. CallCommand(c) \in Commands
        BY DEF Commands
      <3> QED BY <1>1, <1>6, <3>1 DEF Submits
    <2>5. /\ call' \in [Calls -> CallRecords]
          /\ \A d \in Calls: InFlight(d)' => call'[d].of \in Calls
      BY <2>1, <2>2, <2>3, OneCall
    <2> QED BY <1>1, <2>1, <2>4, <2>5 DEF GuestShape, IsCall
  <1> QED BY <1>2, <1>3, <1>4, <1>5, <1>6 DEF HostStep

\* a step of the life of the generation,
LEMMA ShapeByLife == GuestShape /\ LifeStep => GuestShape'
  <1> SUFFICES ASSUME GuestShape, LifeStep PROVE GuestShape'
    OBVIOUS
  <1>1. queue' \in Seq(Commands)
    <2>1. Shutdown \in Commands
      BY DEF Commands
    <2> QED BY <2>1 DEF LifeStep, GuestShape
  <1> QED BY <1>1 DEF LifeStep, GuestShape, InFlight, IsCall

\* and a step of the worker thread.
LEMMA ShapeByWorker == GuestShape /\ WorkerStep => GuestShape'
  <1> SUFFICES ASSUME GuestShape, WorkerStep PROVE GuestShape'
    OBVIOUS
  <1>1. /\ worker' \in WorkerRecords /\ queue' \in Seq(Commands) /\ failed' \in BOOLEAN
        /\ UNCHANGED <<session, active>>
    BY DEF WorkerStep
  <1>2. SUFFICES /\ call' \in [Calls -> CallRecords]
                 /\ \A c \in Calls: InFlight(c)' => call'[c].of \in Calls
                 /\ worker'.at = "blocked" => IsCall'
    BY <1>1, <1>2 DEF GuestShape, WorkerRecords
  <1>3. CASE Moves
    BY <1>3 DEF Moves, GuestShape, InFlight
  <1>4. CASE Resumes
    <2>1. Current \in Calls
      BY <1>4, CurrentIsCall DEF Resumes, GuestShape
    <2>2. PICK x : x = [call[Current] EXCEPT !.reply = "none"]
      OBVIOUS
    <2>3. call' = [call EXCEPT ![Current] = x]
      BY <1>4, <2>2 DEF Resumes
    <2>4. "none" \in Outs
      BY DEF Outs
    <2>5. x \in CallRecords
      BY <2>1, <2>2, <2>4, CallChanges
    <2>6. x.at \in {"waiting", "importing"} => x.of \in Calls
      BY <2>1, <2>2 DEF GuestShape, CallRecords, InFlight
    <2> QED BY <1>4, <2>1, <2>3, <2>5, <2>6, OneCall DEF Resumes
  <1>5. ASSUME NEW i \in ImportCalls, Asks(i)
        PROVE  /\ call' \in [Calls -> CallRecords]
               /\ \A c \in Calls: InFlight(c)' => call'[c].of \in Calls
               /\ worker'.at = "blocked" => IsCall'
    <2>1. Current \in Calls /\ call' = [call EXCEPT ![Current] = Asking(i)]
      BY <1>5, GuestAsks
    <2>2. "none" \in Outs
      BY DEF Outs
    <2>3. Asking(i) \in CallRecords
      BY <2>1, <2>2, CallChanges DEF Asking
    <2>4. Asking(i).at \in {"waiting", "importing"} => Asking(i).of \in Calls
      BY <2>1, AskingFields DEF GuestShape, InFlight
    <2> QED BY <1>5, <2>1, <2>3, <2>4, OneCall DEF Asks, IsCall
  <1>6. ASSUME NEW out \in Outs, Tells(out)
        PROVE  /\ call' \in [Calls -> CallRecords]
               /\ \A c \in Calls: InFlight(c)' => call'[c].of \in Calls
    <2>1. \A c \in Calls: call'[c] \in {call[c], Told(c, out)}
      BY <1>6, ToldOrNot
    <2>2. ASSUME NEW c \in Calls
          PROVE  call'[c] \in CallRecords /\ (InFlight(c)' => call'[c].of \in Calls)
      <3>1. CASE call'[c] = call[c]
        BY <3>1 DEF GuestShape, InFlight
      <3>2. CASE call'[c] = Told(c, out)
        <4>1. /\ Told(c, out) \in CallRecords
              /\ Told(c, out).at \in {"waiting", "importing"} =>
                   InFlight(c) /\ Told(c, out).of = call[c].of
          BY CallChanges
        <4> QED BY <3>2, <4>1 DEF GuestShape, InFlight
      <3> QED BY <2>1, <3>1, <3>2
    <2>3. call' \in [Calls -> CallRecords]
      <3>1. \E f: call' = [c \in Calls |-> f[c]]
        BY <1>6, ToldOrNot
      <3> QED BY <2>2, <3>1
    <2> QED BY <2>2, <2>3
  <1>7. CASE AsksNobody
    <2>1. Current \in Calls
      BY <1>7, CurrentIsCall DEF AsksNobody
    <2>2. PICK x : x = [call[Current] EXCEPT !.made = call[Current].made + 1]
      OBVIOUS
    <2>3. call' = [call EXCEPT ![Current] = x]
      BY <1>7, <2>2 DEF AsksNobody
    <2>4. call[Current] \in CallRecords /\ call[Current].made + 1 \in Nat
      BY <2>1 DEF GuestShape, CallRecords
    <2>5. x \in CallRecords
      BY <2>2, <2>4 DEF CallRecords
    <2>6. x.at \in {"waiting", "importing"} => x.of \in Calls
      BY <2>1, <2>2 DEF GuestShape, CallRecords, InFlight
    <2> QED BY <1>7, <2>1, <2>3, <2>5, <2>6, OneCall DEF AsksNobody
  <1>8. \A out: Tells(out) => worker'.at # "blocked"
    BY DEF Tells
  <1> QED BY <1>3, <1>4, <1>5, <1>6, <1>7, <1>8 DEF WorkerStep, Moves, Resumes, AsksNobody

-----------------------------------------------------------------------------
(* The slots of streams                                                    *)

GuestSlots == IsFiniteSet(Sessions) /\ IsFiniteSet(Opening) /\ QuickSlotsHeld

\* Slots are numbers.
LEMMA SlotNumbers ==
  ASSUME GuestShape, GuestSlots
  PROVE  /\ active \in Nat /\ Cardinality(Sessions) \in Nat /\ Cardinality(Opening) \in Nat
         /\ Cardinality(Sessions) + Cardinality(Opening) <= active /\ active <= MaxStreams
  BY FS_CardinalityType DEF GuestShape, GuestSlots, QuickSlotsHeld

\* Nothing begins, so no slot is needed that was not.
LEMMA SlotsStay ==
  ASSUME LimitsAreNumbers, GuestShape, GuestSlots, UNCHANGED active,
         Sessions' \subseteq Sessions, Opening' \subseteq Opening
  PROVE  GuestSlots'
  <1>1. /\ IsFiniteSet(Sessions') /\ Cardinality(Sessions') \in Nat
        /\ Cardinality(Sessions') <= Cardinality(Sessions)
    BY CountingParts DEF GuestSlots
  <1>2. /\ IsFiniteSet(Opening') /\ Cardinality(Opening') \in Nat
        /\ Cardinality(Opening') <= Cardinality(Opening)
    BY CountingParts DEF GuestSlots
  <1>3. Cardinality(Sessions') + Cardinality(Opening') <= active'
    BY <1>1, <1>2, SlotNumbers
  <1> QED BY <1>1, <1>2, <1>3 DEF GuestSlots, QuickSlotsHeld

\* A call that was opening a stream has no stream, or has one now.
LEMMA SlotSettles ==
  ASSUME LimitsAreNumbers, GuestShape, GuestSlots, NEW c \in Opening, Opening' = Opening \ {c},
         \/ Sessions' = Sessions /\ active' \in {active, Release(active)}
         \/ Sessions' = Sessions \cup {c} /\ active' = active
  PROVE  GuestSlots'
  <1>1. /\ IsFiniteSet(Opening') /\ Cardinality(Opening') \in Nat
        /\ Cardinality(Opening') = Cardinality(Opening) - 1
    BY Counting, FS_CardinalityType DEF GuestSlots
  <1>2. CASE Sessions' = Sessions /\ active' \in {active, Release(active)}
    <2>1. active' \in {active, active - 1}
      BY <1>2, SlotNumbers DEF Release
    <2>2. /\ Cardinality(Sessions') + Cardinality(Opening') <= active' /\ active' <= MaxStreams
          /\ IsFiniteSet(Sessions')
      BY <1>1, <1>2, <2>1, SlotNumbers DEF LimitsAreNumbers, GuestSlots
    <2> QED BY <1>1, <2>2 DEF GuestSlots, QuickSlotsHeld
  <1>3. CASE Sessions' = Sessions \cup {c} /\ active' = active
    <2>1. /\ IsFiniteSet(Sessions')
          /\ Cardinality(Sessions') \in {Cardinality(Sessions), Cardinality(Sessions) + 1}
      BY <1>3, Counting DEF GuestSlots
    <2>2. Cardinality(Sessions') + Cardinality(Opening') <= active' /\ active' <= MaxStreams
      BY <1>1, <1>3, <2>1, SlotNumbers DEF LimitsAreNumbers
    <2> QED BY <1>1, <2>1, <2>2 DEF GuestSlots, QuickSlotsHeld
  <1> QED BY <1>2, <1>3

\* The end of a session gives its slot back, once.
LEMMA SlotFinishes ==
  ASSUME LimitsAreNumbers, GuestShape, GuestSlots, NEW s \in Calls, NEW to, to # "open",
         Finish(s, to), Opening' \subseteq Opening
  PROVE  GuestSlots'
  <1>1. Sessions' = Sessions \ {s} /\ active' = IF s \in Sessions THEN Release(active) ELSE active
    BY DEF Sessions, Finish, GuestShape
  <1>2. CASE s \notin Sessions
    BY <1>1, <1>2, SlotsStay
  <1>3. CASE s \in Sessions
    <2>1. IsFiniteSet(Sessions') /\ Cardinality(Sessions') = Cardinality(Sessions) - 1
      BY <1>1, <1>3, Counting DEF GuestSlots
    <2>2. /\ IsFiniteSet(Opening') /\ Cardinality(Opening') \in Nat
          /\ Cardinality(Opening') <= Cardinality(Opening)
      BY CountingParts DEF GuestSlots
    <2>3. Cardinality(Sessions) # 0
      BY <1>3, FS_EmptySet DEF GuestSlots
    <2>4. active' = active - 1
      BY <1>1, <1>3, <2>3, SlotNumbers DEF Release
    <2>5. Cardinality(Sessions') + Cardinality(Opening') <= active' /\ active' <= MaxStreams
      BY <2>1, <2>2, <2>4, SlotNumbers DEF LimitsAreNumbers
    <2> QED BY <2>1, <2>2, <2>5 DEF GuestSlots, QuickSlotsHeld
  <1> QED BY <1>2, <1>3

\* An opening call takes a slot before it is begun.
LEMMA SlotTaken ==
  ASSUME LimitsAreNumbers, GuestShape, GuestSlots, NEW c \in Calls, UNCHANGED session,
         Opening' = Opening \cup {c}, active < MaxStreams, active' = active + 1
  PROVE  GuestSlots'
  <1>1. /\ IsFiniteSet(Opening')
        /\ Cardinality(Opening') \in {Cardinality(Opening), Cardinality(Opening) + 1}
    BY Counting DEF GuestSlots
  <1>2. Sessions' = Sessions
    BY DEF Sessions
  <1>3. Cardinality(Sessions') + Cardinality(Opening') <= active' /\ active' <= MaxStreams
    BY <1>1, <1>2, SlotNumbers DEF LimitsAreNumbers
  <1> QED BY <1>1, <1>2, <1>3 DEF GuestSlots, QuickSlotsHeld

\* A call that becomes something else opens a stream only if it did before.
LEMMA OpeningOfOne ==
  ASSUME GuestShape, NEW c \in Calls, NEW x, call' = [call EXCEPT ![c] = x]
  PROVE  Opening' = IF x.at \in {"waiting", "importing"} /\ x.kind = "open" THEN Opening \cup {c}
                    ELSE Opening \ {c}
  BY DEF GuestShape, Opening, InFlight

\* What the Host thread does about a call or a stream.
LEMMA SlotsByHost ==
  ASSUME LimitsAreNumbers, GuestShape, GuestSlots, NEW c \in Calls, HostStep(c)
  PROVE  GuestSlots'
  <1>1. c \in Opening <=> InFlight(c) /\ call[c].kind = "open"
    BY DEF Opening
  <1>2. CASE Hears(c)
    <2>1. InFlight(c) /\ call' = [call EXCEPT ![c] = Idle] /\ Settles(c)
      BY <1>2 DEF Hears, InFlight
    <2>2. Opening' = Opening \ {c}
      <3>1. Idle.at = "idle"
        BY DEF Idle
      <3> QED BY <2>1, <3>1, OpeningOfOne
    <2>3. CASE call[c].kind = "open"
      <3>1. \/ session' = [session EXCEPT ![c] = "open"] /\ active' = active
            \/ session' = session /\ active' \in {active, Release(active)}
        BY <2>1, <2>3 DEF Settles
      <3>2. \/ Sessions' = Sessions \cup {c} /\ active' = active
            \/ Sessions' = Sessions /\ active' \in {active, Release(active)}
        BY <3>1 DEF Sessions, GuestShape
      <3> QED BY <1>1, <2>1, <2>2, <2>3, <3>2, SlotSettles
    <2>4. CASE Finish(call[c].of, "ended")
      <3>1. call[c].of \in Calls
        BY <2>1 DEF GuestShape
      <3> QED BY <2>2, <2>4, <3>1, SlotFinishes
    <2>5. CASE UNCHANGED <<session, active>>
      BY <2>2, <2>5, SlotsStay DEF Sessions
    <2> QED BY <2>1, <2>3, <2>4, <2>5 DEF Settles
  <1>3. CASE LetsGo(c)
    <2>1. Abandon(c).at \in {"idle", "abandoned"}
      <3>1. "none" \in Outs
        BY DEF Outs
      <3> QED BY <3>1, CallChanges
    <2>2. Opening' = Opening \ {c} /\ Sessions' = Sessions
      BY <1>3, <2>1, OpeningOfOne DEF LetsGo, Sessions
    <2>3. CASE call[c].kind = "open"
      BY <1>1, <1>3, <2>2, <2>3, SlotSettles DEF LetsGo
    <2>4. CASE call[c].kind # "open"
      BY <1>3, <2>2, <2>4, SlotsStay DEF LetsGo
    <2> QED BY <2>3, <2>4
  <1>4. CASE Serves(c) \/ Lands(c)
    <2>1. PICK x \in {Replied(c), [call[c] EXCEPT !.at = "importing"]} :
            /\ call' = [call EXCEPT ![c] = x] /\ InFlight(c) /\ UNCHANGED <<session, active>>
      BY <1>4 DEF Serves, Lands, InFlight
    <2>2. x.kind = call[c].kind
      <3>1. [call[c] EXCEPT !.at = "importing"].kind = call[c].kind
        BY DEF GuestShape, CallRecords
      <3>2. "none" \in Outs
        BY DEF Outs
      <3> QED BY <3>1, <3>2, CallChanges
    <2>3. Opening' \subseteq Opening
      <3>1. x.kind = "open" => c \in Opening
        BY <1>1, <2>1, <2>2
      <3>2. (Opening' = Opening \cup {c} /\ x.kind = "open") \/ Opening' = Opening \ {c}
        BY <2>1, OpeningOfOne
      <3> QED BY <3>1, <3>2
    <2> QED BY <2>1, <2>3, SlotsStay DEF Sessions
  <1>5. CASE EndsStream(c)
    <2>1. Opening' = Opening
      BY <1>5 DEF EndsStream, Opening, InFlight
    <2> QED BY <1>5, <2>1, SlotFinishes DEF EndsStream
  <1>6. CASE Submits(c)
    <2>1. PICK k \in GuestKinds, t \in Calls :
            /\ call' = [call EXCEPT ![c] = [Idle EXCEPT !.at = "waiting", !.kind = k, !.of = t]]
            /\ k = "open" => ~(active >= MaxStreams)
            /\ active' = IF k = "open" THEN active + 1 ELSE active
      BY <1>6 DEF Submits
    <2>2. PICK x : x = [Idle EXCEPT !.at = "waiting", !.kind = k, !.of = t]
      OBVIOUS
    <2>3. x.kind = k /\ x.at = "waiting" /\ c \notin Opening /\ UNCHANGED session
      BY <1>6, <2>2 DEF Idle, Opening, InFlight, Submits
    <2>4. CASE k = "open"
      <3>1. Opening' = Opening \cup {c}
        BY <2>1, <2>2, <2>3, <2>4, OpeningOfOne
      <3>2. active < MaxStreams
        BY <2>1, <2>4, SlotNumbers DEF LimitsAreNumbers
      <3> QED BY <2>1, <2>3, <2>4, <3>1, <3>2, SlotTaken
    <2>5. CASE k # "open"
      BY <2>1, <2>2, <2>3, <2>5, OpeningOfOne, SlotsStay DEF Sessions
    <2> QED BY <2>4, <2>5
  <1> QED BY <1>2, <1>3, <1>4, <1>5, <1>6 DEF HostStep

\* The other steps are not about slots.
LEMMA SlotsByOthers ==
  ASSUME LimitsAreNumbers, GuestShape, GuestSlots, LifeStep \/ WorkerStep
  PROVE  GuestSlots'
  <1>1. UNCHANGED <<session, active>>
    BY DEF LifeStep, WorkerStep
  <1>2. CASE UNCHANGED call
    BY <1>1, <1>2, SlotsStay DEF Sessions, Opening, InFlight
  <1>3. CASE Resumes \/ AsksNobody \/ \E i \in ImportCalls: Asks(i)
    <2>1. Current \in Calls
      BY <1>3, CurrentIsCall DEF Resumes, AsksNobody, Asks, GuestShape
    <2>2. \A c \in Calls: call'[c].at = call[c].at /\ call'[c].kind = call[c].kind
      <3>1. CASE Resumes
        BY <2>1, <3>1 DEF Resumes, GuestShape, CallRecords
      <3>2. CASE AsksNobody
        BY <2>1, <3>2 DEF AsksNobody, GuestShape, CallRecords
      <3>3. ASSUME NEW i \in ImportCalls, Asks(i)
            PROVE  \A c \in Calls: call'[c].at = call[c].at /\ call'[c].kind = call[c].kind
        <4>1. call' = [call EXCEPT ![Current] = Asking(i)]
          BY <3>3, GuestAsks
        <4>2. Asking(i).at = call[Current].at /\ Asking(i).kind = call[Current].kind
          BY <2>1, AskingFields
        <4> QED BY <2>1, <4>1, <4>2 DEF GuestShape
      <3> QED BY <1>3, <3>1, <3>2, <3>3
    <2>3. Opening' = Opening /\ Sessions' = Sessions
      BY <1>1, <2>2 DEF Opening, InFlight, Sessions
    <2> QED BY <1>1, <2>3, SlotsStay
  <1>4. ASSUME NEW out \in Outs, Tells(out)
        PROVE  GuestSlots'
    <2>1. \A c \in Calls: call'[c] \in {call[c], Told(c, out)}
      BY <1>4, ToldOrNot
    <2>2. ASSUME NEW c \in Calls, InFlight(c)', call'[c].kind = "open"
          PROVE  c \in Opening
      BY <2>1, <2>2, CallChanges DEF Opening, InFlight
    <2>3. Opening' \subseteq Opening
      BY <2>2 DEF Opening
    <2> QED BY <1>1, <2>3, SlotsStay DEF Sessions
  <1> QED BY <1>2, <1>3, <1>4 DEF LifeStep, WorkerStep, Moves

-----------------------------------------------------------------------------
(* The imports of the guest                                                *)

\* A guest that asks, or has its answer to read, is blocked, in the one call that runs; an import
\* that awaits its provider was accepted by tables that have not changed since.
Listening ==
  \A c \in Calls:
    /\ call[c].import # NoOp \/ call[c].reply # "none" =>
         worker.at = "blocked" /\ worker.cmd = CallCommand(c)
    /\ call[c].import # NoOp => call[c].reply = "none"
    /\ call[c].at = "importing" => call[c].import # NoOp /\ Refusal(call[c].import) = "none"

\* A command names its call.
LEMMA CommandsName == \A c, d: CallCommand(c) = CallCommand(d) => c = d
  <1> SUFFICES ASSUME NEW c, NEW d, CallCommand(c) = CallCommand(d) PROVE c = d
    OBVIOUS
  <1>1. CallCommand(c).id = c /\ CallCommand(d).id = d
    BY DEF CallCommand
  <1> QED BY <1>1

\* Only the running call listens.
LEMMA OneListens ==
  ASSUME Listening, NEW c \in Calls, NEW d \in Calls, call[c].import # NoOp, c # d
  PROVE  call[d].import = NoOp /\ call[d].reply = "none" /\ call[d].at # "importing"
  BY CommandsName DEF Listening

\* While the worker is not blocked nobody does.
LEMMA NobodyListens ==
  ASSUME Listening, worker.at # "blocked", NEW c \in Calls
  PROVE  call[c].import = NoOp /\ call[c].reply = "none" /\ call[c].at # "importing"
  BY DEF Listening

\* Steps in which nobody listens, before and after.
LEMMA QuietListening ==
  ASSUME \A c \in Calls: call'[c].import = NoOp /\ call'[c].reply = "none" /\ call'[c].at # "importing"
  PROVE  Listening'
  BY DEF Listening

\* A step that leaves the calls, the worker and the tables alone.
LEMMA ListeningStays ==
  ASSUME Listening, UNCHANGED <<call, worker, imports>>
  PROVE  Listening'
  <1>1. \A c \in Calls: Refusal(call[c].import)' = Refusal(call[c].import)
    BY DEF imports, Refusal, BindingError, OpenRefusal, InvokeRefusal, StreamRefusal
  <1> QED BY <1>1 DEF Listening

\* A step in which one call that does not listen any more changes.
LEMMA ListeningOfOne ==
  ASSUME GuestShape, Listening, NEW c \in Calls, NEW x \in CallRecords, call' = [call EXCEPT ![c] = x],
         UNCHANGED <<worker, imports>>, x.import = NoOp, x.at # "importing",
         x.reply # "none" => worker.at = "blocked" /\ worker.cmd = CallCommand(c)
  PROVE  Listening'
  <1>1. call'[c] = x /\ \A d \in Calls: d # c => call'[d] = call[d]
    BY DEF GuestShape
  <1>2. \A d \in Calls: Refusal(call[d].import)' = Refusal(call'[d].import)
    BY DEF imports, Refusal, BindingError, OpenRefusal, InvokeRefusal, StreamRefusal
  <1> QED BY <1>1, <1>2 DEF Listening

\* What a call is after a change, as far as it listens.
LEMMA ListeningFields ==
  ASSUME GuestShape, Listening, NEW c \in Calls, NEW out \in Outs
  PROVE  /\ Replied(c).import = NoOp /\ Replied(c).reply = "given" /\ Replied(c).at = "waiting"
         /\ Abandon(c).import = NoOp /\ Abandon(c).at # "importing"
         /\ Abandon(c).reply # "none" => call[c].import # NoOp \/ call[c].reply # "none"
         /\ Told(c, out).import \in {NoOp, call[c].import} /\ Told(c, out).at \in {"idle", call[c].at}
         /\ Told(c, out).reply \in {"none", call[c].reply}
  <1>1. call[c] \in CallRecords
    BY DEF GuestShape
  <1>2. Replied(c).import = NoOp /\ Replied(c).reply = "given" /\ Replied(c).at = "waiting"
    BY <1>1 DEF Replied, CallRecords
  <1>3. /\ Abandon(c).import = NoOp /\ Abandon(c).at # "importing"
        /\ Abandon(c).reply # "none" => call[c].import # NoOp \/ call[c].reply # "none"
    BY DEF Abandon, Idle
  <1>4. /\ Told(c, out).import \in {NoOp, call[c].import} /\ Told(c, out).at \in {"idle", call[c].at}
        /\ Told(c, out).reply \in {"none", call[c].reply}
    <2>1. CASE call[c].at = "abandoned"
      BY <2>1 DEF Told, Idle
    <2>2. CASE call[c].at # "abandoned"
      BY <1>1, <2>2 DEF Told, CallRecords
    <2> QED BY <2>1, <2>2
  <1> QED BY <1>2, <1>3, <1>4

\* What is asked, and the tables.
ImportInv == Listening /\ TableInv

\* What the Host thread does for the imports of a call.
LEMMA ImportsByTask ==
  ASSUME LimitsAreNumbers, GuestShape, ImportInv, NEW c \in Calls, UNCHANGED worker,
         Serves(c) \/ Lands(c)
  PROVE  ImportInv'
  <1>1. "none" \in Outs
    BY DEF Outs
  <1>2. Replied(c).import = NoOp /\ Replied(c).reply = "given" /\ Replied(c).at = "waiting"
    BY <1>1, ListeningFields DEF ImportInv
  <1>3. call[c].import # NoOp
    BY DEF Serves, Lands, ImportInv, Listening
  <1>4. /\ worker.at = "blocked" /\ worker.cmd = CallCommand(c) /\ call[c].reply = "none"
        /\ \A d \in Calls: d # c =>
             call[d].import = NoOp /\ call[d].reply = "none" /\ call[d].at # "importing"
    BY <1>3, OneListens DEF ImportInv, Listening
  <1>5. ASSUME call' = [call EXCEPT ![c] = Replied(c)]
        PROVE  Listening'
    <2>1. call'[c] = Replied(c) /\ \A d \in Calls: d # c => call'[d] = call[d]
      BY <1>5 DEF GuestShape
    <2> QED BY <1>2, <1>3, <1>4, <2>1 DEF Listening
  <1>6. CASE call' = [call EXCEPT ![c] = Replied(c)] /\ UNCHANGED imports
    BY <1>5, <1>6 DEF ImportInv, TableInv, ImportTableSound, imports
  <1>7. ASSUME NEW r, call' = [call EXCEPT ![c] = Replied(c)], Refusal(call[c].import) = "none",
               Landed(call[c].import, r)
        PROVE  ImportInv'
    BY <1>5, <1>7, ImportLands DEF ImportInv
  <1>8. CASE /\ call' = [call EXCEPT ![c].at = "importing"] /\ UNCHANGED imports
             /\ Refusal(call[c].import) = "none"
    <2>1. /\ call'[c].at = "importing" /\ call'[c].import = call[c].import
          /\ call'[c].reply = call[c].reply /\ \A d \in Calls: d # c => call'[d] = call[d]
      BY <1>8 DEF GuestShape, CallRecords
    <2>2. Refusal(call[c].import)' = Refusal(call[c].import)
      BY <1>8, <2>1 DEF imports, Refusal, BindingError, OpenRefusal, InvokeRefusal, StreamRefusal
    <2>3. Listening'
      BY <1>3, <1>4, <1>8, <2>1, <2>2 DEF Listening
    <2> QED BY <1>8, <2>3 DEF ImportInv, TableInv, ImportTableSound, imports
  <1>9. CASE Serves(c)
    BY <1>6, <1>7, <1>8, <1>9 DEF Serves
  <1>10. CASE Lands(c)
    <2>1. Refusal(call[c].import) = "none"
      BY <1>10 DEF Lands, ImportInv, Listening
    <2> QED BY <1>7, <1>10, <2>1 DEF Lands
  <1> QED BY <1>9, <1>10

\* What is asked and the tables stay in order with a step of the Host thread,
LEMMA ImportsByHost ==
  ASSUME LimitsAreNumbers, GuestShape, ImportInv, NEW c \in Calls, HostStep(c)
  PROVE  ImportInv'
  <1>1. UNCHANGED worker
    BY DEF HostStep
  <1>2. CASE Serves(c) \/ Lands(c)
    BY <1>1, <1>2, ImportsByTask
  <1>3. UNCHANGED imports => TableInv'
    BY DEF ImportInv, TableInv, ImportTableSound, imports
  <1>4. CASE Hears(c)
    <2>1. Idle.import = NoOp /\ Idle.at = "idle" /\ Idle.reply = "none"
      BY DEF Idle
    <2> QED BY <1>1, <1>3, <1>4, <2>1, IdleRecord, ListeningOfOne DEF Hears, ImportInv
  <1>5. CASE LetsGo(c)
    <2>1. "none" \in Outs
      BY DEF Outs
    <2>2. /\ Abandon(c) \in CallRecords /\ Abandon(c).import = NoOp /\ Abandon(c).at # "importing"
          /\ Abandon(c).reply # "none" => worker.at = "blocked" /\ worker.cmd = CallCommand(c)
      BY <2>1, CallChanges, ListeningFields DEF ImportInv, Listening
    <2> QED BY <1>1, <1>3, <1>5, <2>2, ListeningOfOne DEF LetsGo, ImportInv
  <1>6. CASE EndsStream(c)
    BY <1>1, <1>3, <1>6, ListeningStays DEF EndsStream, ImportInv
  <1>7. CASE Submits(c)
    <2>1. PICK k \in GuestKinds, t \in Calls :
            call' = [call EXCEPT ![c] = [Idle EXCEPT !.at = "waiting", !.kind = k, !.of = t]]
      BY <1>7 DEF Submits
    <2>2. PICK x : x = [Idle EXCEPT !.at = "waiting", !.kind = k, !.of = t]
      OBVIOUS
    <2>3. x \in CallRecords
      BY <2>2, IdleRecord DEF CallRecords
    <2>4. x.import = NoOp /\ x.reply = "none" /\ x.at = "waiting"
      BY <2>2 DEF Idle
    <2> QED BY <1>1, <1>3, <1>7, <2>1, <2>2, <2>3, <2>4, ListeningOfOne DEF Submits, ImportInv
  <1> QED BY <1>2, <1>4, <1>5, <1>6, <1>7 DEF HostStep

\* a step of the life of the generation,
LEMMA ImportsByLife ==
  ASSUME LimitsAreNumbers, GuestShape, ImportInv, LifeStep
  PROVE  ImportInv'
  <1>1. UNCHANGED <<call, worker>>
    BY DEF LifeStep
  <1>2. CASE UNCHANGED imports
    BY <1>1, <1>2, ListeningStays DEF ImportInv, TableInv, ImportTableSound, imports
  <1>3. CASE ActivateImports
    <2>1. ~bindings /\ bindings' /\ UNCHANGED <<hostStreams, nextHostStream>>
      BY <1>3 DEF ActivateImports
    <2>2. \A i: Refusal(i) = "none" => Refusal(i)' = "none"
      BY <2>1 DEF Refusal, BindingError, OpenRefusal, InvokeRefusal, StreamRefusal
    <2>3. Listening'
      BY <1>1, <2>2 DEF ImportInv, Listening
    <2> QED BY <1>3, <2>3, ImportsOpen DEF ImportInv
  <1>4. CASE DeactivateImports /\ \A c \in Calls: ~InFlight(c)
    <2>1. \A c \in Calls: call[c].at # "importing"
      BY <1>4 DEF InFlight
    <2>2. Listening'
      BY <1>1, <2>1 DEF ImportInv, Listening
    <2> QED BY <1>4, <2>2, ImportsClose DEF ImportInv
  <1> QED BY <1>2, <1>3, <1>4 DEF LifeStep

\* and a step of the worker thread.
LEMMA ImportsByWorker ==
  ASSUME LimitsAreNumbers, GuestShape, ImportInv, WorkerStep
  PROVE  ImportInv'
  <1>1. UNCHANGED imports
    BY DEF WorkerStep
  <1>2. SUFFICES Listening'
    BY <1>1 DEF ImportInv, TableInv, ImportTableSound, imports
  <1>3. CASE Moves
    BY <1>3, NobodyListens, QuietListening DEF Moves, ImportInv
  <1>4. ASSUME NEW out \in Outs, Tells(out)
        PROVE  Listening'
    <2>1. \A c \in Calls: call'[c] \in {call[c], Told(c, out)}
      BY <1>4, ToldOrNot
    <2>2. ASSUME NEW c \in Calls
          PROVE  call'[c].import = NoOp /\ call'[c].reply = "none" /\ call'[c].at # "importing"
      <3>1. call[c].import = NoOp /\ call[c].reply = "none" /\ call[c].at # "importing"
        BY <1>4, NobodyListens DEF Tells, ImportInv
      <3> QED BY <2>1, <3>1, ListeningFields DEF ImportInv
    <2> QED BY <2>2, QuietListening
  <1>5. CASE Resumes
    <2>1. Current \in Calls /\ worker.cmd = CallCommand(Current) /\ call[Current].reply # "none"
      BY <1>5, CurrentIsCall DEF Resumes, GuestShape
    <2>2. call[Current].import = NoOp /\ call[Current].at # "importing"
      BY <2>1 DEF ImportInv, Listening
    <2>3. \A d \in Calls: d # Current =>
            call[d].import = NoOp /\ call[d].reply = "none" /\ call[d].at # "importing"
      BY <2>1, CommandsName DEF ImportInv, Listening
    <2>4. /\ call'[Current].import = NoOp /\ call'[Current].reply = "none"
          /\ call'[Current].at # "importing" /\ \A d \in Calls: d # Current => call'[d] = call[d]
      BY <1>5, <2>1, <2>2 DEF Resumes, GuestShape, CallRecords
    <2> QED BY <2>3, <2>4, QuietListening
  <1>6. ASSUME NEW i \in ImportCalls, Asks(i)
        PROVE  Listening'
    <2>1. /\ Current \in Calls /\ worker.cmd = CallCommand(Current) /\ worker.at # "blocked"
          /\ worker'.at = "blocked" /\ worker'.cmd = worker.cmd
      BY <1>6, CurrentIsCall DEF Asks, GuestShape
    <2>2. /\ call' = [call EXCEPT ![Current] = Asking(i)]
          /\ Asking(i).at = call[Current].at /\ Asking(i).reply = call[Current].reply
      BY <1>6, <2>1, GuestAsks, AskingFields
    <2>3. \A d \in Calls: call[d].import = NoOp /\ call[d].reply = "none" /\ call[d].at # "importing"
      BY <2>1, NobodyListens DEF ImportInv
    <2>4. call'[Current] = Asking(i) /\ \A d \in Calls: d # Current => call'[d] = call[d]
      BY <2>1, <2>2 DEF GuestShape
    <2> QED BY <2>1, <2>2, <2>3, <2>4 DEF Listening
  <1>7. CASE AsksNobody
    <2>1. Current \in Calls /\ worker.at # "blocked"
      BY <1>7, CurrentIsCall DEF AsksNobody
    <2>2. \A d \in Calls: call[d].import = NoOp /\ call[d].reply = "none" /\ call[d].at # "importing"
      BY <2>1, NobodyListens DEF ImportInv
    <2>3. \A d \in Calls: /\ call'[d].import = call[d].import /\ call'[d].reply = call[d].reply
                          /\ call'[d].at = call[d].at
      BY <1>7, <2>1 DEF AsksNobody, GuestShape, CallRecords
    <2> QED BY <2>2, <2>3, QuietListening
  <1> QED BY <1>3, <1>4, <1>5, <1>6, <1>7 DEF WorkerStep

-----------------------------------------------------------------------------
(* The generation of either adapter                                        *)

\* A command that was begun after the failure is the last one: its report sends the worker away.
Retires == late \in 0..1 /\ (late = 1 => failed /\ worker.at \in Begun)

GuestInv == GuestShape /\ GuestSlots /\ Retires /\ ImportInv

\* A generation that has not begun is in order.
LEMMA GuestInitially == LimitsAreNumbers /\ GuestBegins => GuestInv
  <1> SUFFICES ASSUME LimitsAreNumbers, GuestBegins PROVE GuestInv
    OBVIOUS
  <1>1. Sessions = {} /\ Opening = {}
    BY DEF GuestBegins, Sessions, Opening, InFlight, Idle
  <1>2. GuestSlots
    BY <1>1, FS_EmptySet DEF GuestBegins, GuestSlots, QuickSlotsHeld, LimitsAreNumbers
  <1>3. Retires
    BY DEF GuestBegins, Retires
  <1>4. Listening
    BY DEF GuestBegins, Listening, Idle
  <1>5. TableInv
    BY FS_EmptySet DEF GuestBegins, ImportsInit, TableInv, ImportTableSound, LimitsAreNumbers
  <1> QED BY <1>2, <1>3, <1>4, <1>5, ShapeInitially DEF GuestInv, ImportInv

\* What either adapter does keeps it in order.
LEMMA GuestKeeps == LimitsAreNumbers /\ GuestInv /\ GuestStep => GuestInv'
  <1> SUFFICES ASSUME LimitsAreNumbers, GuestInv, GuestStep PROVE GuestInv'
    OBVIOUS
  <1> USE DEF GuestInv
  <1>1. ASSUME NEW c \in Calls, HostStep(c)
        PROVE  GuestInv'
    <2>1. Retires'
      BY <1>1 DEF HostStep, Retires
    <2> QED BY <1>1, <2>1, ShapeByHost, SlotsByHost, ImportsByHost
  <1>2. CASE LifeStep
    <2>1. Retires'
      BY <1>2 DEF LifeStep, Retires
    <2> QED BY <1>2, <2>1, ShapeByLife, SlotsByOthers, ImportsByLife
  <1>3. CASE WorkerStep
    <2>1. Retires'
      BY <1>3 DEF WorkerStep, Retires
    <2> QED BY <1>3, <2>1, ShapeByWorker, SlotsByOthers, ImportsByWorker
  <1> QED BY <1>1, <1>2, <1>3 DEF GuestStep

\* So does a step of anything else.
LEMMA GuestStutters ==
  LimitsAreNumbers /\ GuestInv /\ UNCHANGED <<imports, call, session, active, failed, queue, worker, late>>
    => GuestInv'
  <1> SUFFICES ASSUME LimitsAreNumbers, GuestInv,
                      UNCHANGED <<imports, call, session, active, failed, queue, worker, late>>
               PROVE  GuestInv'
    OBVIOUS
  <1>1. LifeStep
    BY DEF LifeStep
  <1> QED BY <1>1, GuestKeeps DEF GuestStep

-----------------------------------------------------------------------------
(* QuickJS                                                                 *)

\* Where the worker thread goes.
LEMMA WorkerGoes ==
  ASSUME GuestShape, NEW p \in WorkerPlaces
  PROVE  /\ [worker EXCEPT !.at = p] \in WorkerRecords /\ [worker EXCEPT !.at = p].at = p
         /\ [worker EXCEPT !.at = p].cmd = worker.cmd
         /\ [at |-> p, cmd |-> NoOp, out |-> "none"] \in WorkerRecords
  <1>1. worker \in WorkerRecords /\ "none" \in Outs
    BY DEF GuestShape, WorkerRecords, Outs
  <1>2. [worker EXCEPT !.at = p] \in WorkerRecords /\ [worker EXCEPT !.at = p].at = p
    BY <1>1 DEF WorkerRecords
  <1>3. [worker EXCEPT !.at = p].cmd = worker.cmd
    BY <1>1 DEF WorkerRecords
  <1>4. [at |-> p, cmd |-> NoOp, out |-> "none"] \in WorkerRecords
    BY <1>1 DEF WorkerRecords
  <1> QED BY <1>2, <1>3, <1>4

\* With which command, and with which outcome.
LEMMA WorkerGoesWith ==
  ASSUME GuestShape, NEW p \in WorkerPlaces, NEW m \in Commands, NEW o \in Outs
  PROVE  /\ [worker EXCEPT !.at = p, !.cmd = m] \in WorkerRecords
         /\ [worker EXCEPT !.at = p, !.cmd = m].at = p
         /\ [worker EXCEPT !.at = p, !.out = o] \in WorkerRecords
         /\ [worker EXCEPT !.at = p, !.out = o].at = p
  <1>1. worker \in WorkerRecords
    BY DEF GuestShape, WorkerRecords
  <1>2. [worker EXCEPT !.at = p, !.cmd = m] \in WorkerRecords /\ [worker EXCEPT !.at = p, !.cmd = m].at = p
    BY <1>1 DEF WorkerRecords
  <1>3. [worker EXCEPT !.at = p, !.out = o] \in WorkerRecords /\ [worker EXCEPT !.at = p, !.out = o].at = p
    BY <1>1 DEF WorkerRecords
  <1> QED BY <1>2, <1>3

\* What the Host thread does for a call of a QuickJS generation is a step of either adapter's.
LEMMA QuickByHost ==
  ASSUME GuestShape, NEW c \in Calls,
         \/ TaskStep(c) \/ Cancelled(c) \/ Dropped(c) \/ CancelStream(c) \/ DropSession(c)
         \/ \E k \in GuestKinds: \E t \in Calls: Submit(c, k, t)
  PROVE  HostStep(c)
  <1>1. failed \in BOOLEAN
    BY DEF GuestShape
  <1>2. CASE Answer(c)
    <2>1. Settles(c)
      BY <1>2 DEF Answer, Settle, Settles
    <2> QED BY <1>1, <1>2, <2>1 DEF Answer, HostStep, Hears
  <1>3. CASE Cancelled(c) \/ Dropped(c)
    BY <1>1, <1>3 DEF Cancelled, Dropped, HostStep, LetsGo, InFlight
  <1>4. CASE TakeImport(c)
    <2>1. Serves(c)
      BY <1>4 DEF TakeImport, Serves
    <2> QED BY <1>1, <1>4, <2>1 DEF TakeImport, HostStep
  <1>5. CASE \E r \in Results(call[c].import): ImportDone(c, r)
    <2>1. Lands(c)
      BY <1>5 DEF ImportDone, Lands
    <2> QED BY <1>1, <1>5, <2>1 DEF ImportDone, HostStep
  <1>6. CASE CancelStream(c) \/ DropSession(c)
    <2>1. EndsStream(c)
      BY <1>6 DEF CancelStream, DropSession, EndsStream
    <2> QED BY <1>1, <1>6, <2>1 DEF CancelStream, DropSession, HostStep
  <1>7. ASSUME NEW k \in GuestKinds, NEW t \in Calls, Submit(c, k, t)
        PROVE  HostStep(c)
    <2>1. k = "open" => ~(active >= MaxStreams)
      BY <1>7 DEF Submit, SubmitRefusal, SessionKinds
    <2>2. Submits(c)
      BY <1>7, <2>1 DEF Submit, Submits
    <2> QED BY <1>1, <1>7, <2>2 DEF Submit, HostStep
  <1> QED BY <1>2, <1>3, <1>4, <1>5, <1>6, <1>7 DEF TaskStep

\* So is what its worker thread does,
LEMMA QuickByWorker ==
  ASSUME GuestShape,
         \/ \E r \in {"ready", "rejected"}: LoadWorker(r)
         \/ Take \/ Begin \/ Interrupted \/ Unblock \/ Report \/ Check \/ Leave
         \/ \E i \in ImportCalls: GuestImport(i)
         \/ \E out \in Outs: GuestReturn(out)
  PROVE  WorkerStep
  <1>1. /\ worker \in WorkerRecords /\ failed \in BOOLEAN /\ queue \in Seq(Commands)
        /\ "closed" \in Outs /\ "none" \in Outs /\ "fail" \in Outs
    BY DEF GuestShape, WorkerRecords, Outs
  <1>3. ASSUME NEW r, LoadWorker(r)
        PROVE  WorkerStep
    <2>1. PICK p \in {"idle", "exited"} : worker' = [worker EXCEPT !.at = p]
      BY <1>3 DEF LoadWorker
    <2>2. worker' \in WorkerRecords /\ worker'.at = p
      BY <2>1, WorkerGoes DEF WorkerPlaces
    <2> QED BY <1>1, <1>3, <2>2 DEF LoadWorker, WorkerStep, Moves, Begun, host
  <1>4. CASE Take
    <2>1. Head(queue) \in Commands /\ Tail(queue) \in Seq(Commands)
      BY <1>1, <1>4 DEF Take
    <2>2. worker' \in WorkerRecords /\ worker'.at \in {"leaving", "taken"}
      <3>1. CASE Leaving
        BY <3>1, WorkerGoes DEF Leaving, WorkerPlaces
      <3>2. CASE ~Leaving
        <4>1. worker' = [worker EXCEPT !.at = "taken", !.cmd = Head(queue)]
          BY <1>4, <3>2 DEF Take
        <4> QED BY <1>1, <2>1, <4>1, WorkerGoesWith DEF WorkerPlaces
      <3> QED BY <3>1, <3>2
    <2> QED BY <1>1, <1>4, <2>1, <2>2 DEF Take, WorkerStep, Moves, Begun, host
  <1>5. CASE Begin
    <2>1. worker' \in WorkerRecords /\ worker'.at = "running"
      <3>1. worker' = [worker EXCEPT !.at = "running"]
        BY <1>5 DEF Begin
      <3> QED BY <3>1, WorkerGoes DEF WorkerPlaces
    <2> QED BY <1>1, <1>5, <2>1 DEF Begin, WorkerStep, Moves, Begun, host
  <1>6. ASSUME NEW out \in Outs, Return(out)
        PROVE  WorkerStep
    <2>1. worker' \in WorkerRecords /\ worker'.at = "returned"
      <3>1. worker' = [worker EXCEPT !.at = "returned", !.out = out]
        BY <1>6 DEF Return
      <3>2. Shutdown \in Commands /\ "returned" \in WorkerPlaces
        BY DEF Commands, WorkerPlaces
      <3> QED BY <3>1, <3>2, WorkerGoesWith
    <2> QED BY <1>1, <1>6, <2>1 DEF Return, WorkerStep, Moves, Begun, host
  <1>7. CASE Unblock
    <2>1. worker' \in WorkerRecords /\ worker'.at = "running"
      <3>1. worker' = [worker EXCEPT !.at = "running"]
        BY <1>7 DEF Unblock
      <3> QED BY <3>1, WorkerGoes DEF WorkerPlaces
    <2>2. Resumes
      BY <1>7, <2>1 DEF Unblock, Resumes
    <2> QED BY <1>1, <1>7, <2>1, <2>2 DEF Unblock, WorkerStep, Begun
  <1>8. ASSUME NEW i \in ImportCalls, GuestImport(i)
        PROVE  WorkerStep
    <2>1. worker' \in WorkerRecords /\ worker'.at = "blocked" /\ worker'.cmd = worker.cmd
      <3>1. worker' = [worker EXCEPT !.at = "blocked"]
        BY <1>8 DEF GuestImport
      <3> QED BY <3>1, WorkerGoes DEF WorkerPlaces
    <2>2. Asks(i)
      BY <1>8, <2>1 DEF GuestImport, Asks
    <2> QED BY <1>1, <1>8, <2>1, <2>2 DEF GuestImport, WorkerStep, Begun
  <1>9. CASE Report
    <2>1. worker' \in WorkerRecords /\ worker'.at = "reported"
      <3>1. worker' = [at |-> "reported", cmd |-> NoOp, out |-> "none"]
        BY <1>9 DEF Report
      <3> QED BY <3>1, WorkerGoes DEF WorkerPlaces
    <2>2. Moves \/ Tells(worker.out)
      BY <1>9, <2>1 DEF Report, Moves, Tells
    <2>3. worker.out \in Outs
      BY <1>1 DEF WorkerRecords
    <2> QED BY <1>1, <1>9, <2>1, <2>2, <2>3 DEF Report, WorkerStep, Begun
  <1>10. CASE Leave
    <2>1. worker' \in WorkerRecords /\ worker'.at = "exited" /\ <<>> \in Seq(Commands)
      <3>1. worker' = [worker EXCEPT !.at = "exited"]
        BY <1>10 DEF Leave
      <3> QED BY <3>1, WorkerGoes DEF WorkerPlaces
    <2>2. PICK told \in SUBSET Calls : told = {c \in Calls: \E n \in DOMAIN queue: queue[n] = CallCommand(c)}
      OBVIOUS
    <2>3. call' = [c \in Calls |-> IF c \in told THEN Told(c, "closed") ELSE call[c]]
      BY <1>10, <2>2 DEF Leave
    <2>4. Tells("closed")
      BY <1>10, <2>1, <2>3 DEF Leave, Tells
    <2> QED BY <1>1, <1>10, <2>1, <2>4 DEF Leave, WorkerStep, Begun
  <1>11. CASE Check
    <2>1. worker' \in WorkerRecords /\ worker'.at \in {"idle", "leaving"} /\ (failed => worker'.at = "leaving")
      <3>1. CASE failed
        <4>1. worker' = [at |-> "leaving", cmd |-> NoOp, out |-> "none"]
          BY <1>11, <3>1 DEF Check, Leaving
        <4> QED BY <4>1, WorkerGoes DEF WorkerPlaces
      <3>2. CASE ~failed
        <4>1. worker' = [worker EXCEPT !.at = "idle"]
          BY <1>11, <3>2 DEF Check
        <4> QED BY <3>2, <4>1, WorkerGoes DEF WorkerPlaces
      <3> QED BY <3>1, <3>2
    <2> QED BY <1>1, <1>11, <2>1 DEF Check, WorkerStep, Moves, Begun, host
  <1> QED
    BY <1>1, <1>3, <1>4, <1>5, <1>6, <1>7, <1>8, <1>9, <1>10, <1>11 DEF Interrupted, GuestReturn

\* and its life.
LEMMA QuickByLife ==
  ASSUME Loaded \/ Activate \/ Deactivate \/ Joined \/ TurnPasses
  PROVE  LifeStep
  <1>1. CASE Loaded \/ Joined \/ TurnPasses
    BY <1>1 DEF Loaded, Joined, TurnPasses, LifeStep, host
  <1>2. CASE Activate
    BY <1>2 DEF Activate, LifeStep, host
  <1>3. CASE Deactivate
    BY <1>3 DEF Deactivate, LifeStep
  <1> QED BY <1>1, <1>2, <1>3

\* A QuickJS generation is in order.
LEMMA QuickKeeps == ASSUME LimitsAreNumbers PROVE QuickSpec => []GuestInv
  <1>1. QuickInit => GuestBegins
    BY DEF QuickInit, GuestBegins
  <1>2. GuestInv /\ [QuickNext]_quickVars => GuestInv'
    <2> SUFFICES ASSUME GuestInv, [QuickNext]_quickVars PROVE GuestInv'
      OBVIOUS
    <2>1. CASE UNCHANGED quickVars
      BY <2>1, GuestStutters DEF quickVars, host
    <2>2. CASE QuickNext
      <3>1. {"value", "number", "negative", "null", "message", "terminal", "error", "fail"} \subseteq Outs
        BY DEF Outs
      <3>2. (\E c \in Calls: HostStep(c)) \/ LifeStep \/ WorkerStep
        BY <2>2, <3>1, QuickByHost, QuickByWorker, QuickByLife DEF QuickNext, ThreadStep, GuestInv
      <3> QED BY <3>2, GuestKeeps DEF GuestStep
    <2> QED BY <2>1, <2>2
  <1> QED BY <1>1, <1>2, GuestInitially, PTL DEF QuickSpec

\* For any number of calls and streams, each open stream of a QuickJS generation, and each call that
\* may still open one, holds a slot of its own, and no more than the limit are held.
THEOREM QuickHoldsSlots == ASSUME LimitsAreNumbers PROVE QuickSpec => []QuickSlotsHeld
  <1>1. GuestInv => QuickSlotsHeld
    BY DEF GuestInv, GuestSlots
  <1> QED BY <1>1, QuickKeeps, PTL

\* A QuickJS generation that was retired begins at most one command more.
THEOREM QuickRetiresOnce == ASSUME LimitsAreNumbers PROVE QuickSpec => []QuickRetiredRunsOnce
  <1>1. GuestInv => QuickRetiredRunsOnce
    BY DEF GuestInv, Retires, QuickRetiredRunsOnce
  <1> QED BY <1>1, QuickKeeps, PTL

\* The streams a QuickJS guest has open on the Host's side are within its limit and its activation.
THEOREM QuickImportsAreSound == ASSUME LimitsAreNumbers PROVE QuickSpec => []ImportTableSound
  <1>1. GuestInv => ImportTableSound
    BY DEF GuestInv, ImportInv, TableInv
  <1> QED BY <1>1, QuickKeeps, PTL

-----------------------------------------------------------------------------
(* The Wasm generation                                                     *)

\* Both adapters keep a call, a command and a slot in the same way.
LEMMA WasmKeepsTheSame ==
  /\ Wasm!imports = imports /\ Wasm!host = host
  /\ Wasm!NoOp = NoOp /\ Wasm!Idle = Idle /\ Wasm!Shutdown = Shutdown
  /\ Wasm!Current = Current /\ (Wasm!IsCall <=> IsCall)
  /\ Wasm!GuestKinds = GuestKinds /\ Wasm!SessionKinds = SessionKinds
  /\ Wasm!ImportCalls = ImportCalls
  /\ Wasm!Sessions = Sessions /\ Wasm!Opening = Opening
  /\ \A n: Wasm!Release(n) = Release(n)
  /\ \A c: /\ Wasm!InFlight(c) <=> InFlight(c)
           /\ Wasm!CallCommand(c) = CallCommand(c) /\ Wasm!CancelCommand(c) = CancelCommand(c)
           /\ Wasm!Abandon(c) = Abandon(c) /\ Wasm!Replied(c) = Replied(c)
  <1>1. /\ Wasm!imports = imports /\ Wasm!host = host
        /\ Wasm!NoOp = NoOp /\ Wasm!Shutdown = Shutdown
        /\ Wasm!Current = Current /\ (Wasm!IsCall <=> IsCall)
    BY DEF Wasm!imports, imports, Wasm!host, host, Wasm!NoOp, NoOp, Wasm!Shutdown, Shutdown,
           Wasm!Current, Current, Wasm!IsCall, IsCall
  <1>2. Wasm!Idle = Idle
    BY DEF Wasm!Idle, Idle, Wasm!NoOp, NoOp
  <1>3. Wasm!SessionKinds = SessionKinds /\ Wasm!GuestKinds = GuestKinds
    BY DEF Wasm!GuestKinds, GuestKinds, Wasm!SessionKinds, SessionKinds
  <1>4. Wasm!ImportCalls = ImportCalls
    BY DEF Wasm!ImportCalls, ImportCalls, Wasm!BindingOf, BindingOf
  <1>5. \A c: /\ Wasm!InFlight(c) <=> InFlight(c)
              /\ Wasm!CallCommand(c) = CallCommand(c) /\ Wasm!CancelCommand(c) = CancelCommand(c)
    BY DEF Wasm!InFlight, InFlight, Wasm!CallCommand, CallCommand, Wasm!CancelCommand, CancelCommand
  <1>6. Wasm!Sessions = Sessions /\ Wasm!Opening = Opening
    BY <1>5 DEF Wasm!Sessions, Sessions, Wasm!Opening, Opening
  <1>7. \A n: Wasm!Release(n) = Release(n)
    BY DEF Wasm!Release, Release
  <1>8. \A c: Wasm!Abandon(c) = Abandon(c)
    BY <1>1, <1>2 DEF Wasm!Abandon, Abandon
  <1>9. \A c: Wasm!Replied(c) = Replied(c)
    BY <1>1 DEF Wasm!Replied, Replied
  <1> QED BY <1>1, <1>2, <1>3, <1>4, <1>5, <1>6, <1>7, <1>8, <1>9

\* And so they do the tables of the imports, the outcome of a call and the end of a stream.
LEMMA WasmDoesTheSame ==
  /\ Wasm!ImportsInit <=> ImportsInit
  /\ Wasm!ActivateImports <=> ActivateImports
  /\ Wasm!DeactivateImports <=> DeactivateImports
  /\ \A i: Wasm!Refusal(i) = Refusal(i)
  /\ \A i, r: Wasm!Landed(i, r) <=> Landed(i, r)
  /\ \A c, out: Wasm!Told(c, out) = Told(c, out)
  /\ \A s, to: Wasm!Finish(s, to) <=> Finish(s, to)
  <1>1. /\ Wasm!ImportsInit <=> ImportsInit
        /\ Wasm!ActivateImports <=> ActivateImports
        /\ Wasm!DeactivateImports <=> DeactivateImports
    BY DEF Wasm!ImportsInit, ImportsInit, Wasm!ActivateImports, ActivateImports,
           Wasm!DeactivateImports, DeactivateImports
  <1>2. \A b: Wasm!BindingError(b) = BindingError(b)
    BY DEF Wasm!BindingError, BindingError, Wasm!Table, Table
  <1>3. Wasm!Handles = Handles
    BY DEF Wasm!Handles, Handles
  <1>4. \A i: Wasm!Refusal(i) = Refusal(i)
    BY <1>2, <1>3
    DEF Wasm!Refusal, Refusal, Wasm!OpenRefusal, OpenRefusal, Wasm!InvokeRefusal, InvokeRefusal,
        Wasm!StreamRefusal, StreamRefusal
  <1>5. \A i, r: Wasm!Landed(i, r) <=> Landed(i, r)
    BY DEF Wasm!Landed, Landed
  <1>6. \A c, out: Wasm!Told(c, out) = Told(c, out)
    BY WasmKeepsTheSame DEF Wasm!Told, Told
  <1>7. \A s, to: Wasm!Finish(s, to) <=> Finish(s, to)
    BY WasmKeepsTheSame DEF Wasm!Finish, Finish
  <1> QED BY <1>1, <1>4, <1>5, <1>6, <1>7

\* What the Host thread does for a call of a Wasm generation is what it does in either adapter.
LEMMA WasmByHost ==
  ASSUME GuestShape, NEW c \in Calls,
         \/ Wasm!TaskStep(c) \/ Wasm!Cancelled(c) \/ Wasm!Dropped(c) \/ Wasm!CancelStream(c)
         \/ Wasm!DropSession(c)
         \/ \E k \in GuestKinds: \E t \in Calls: Wasm!Submit(c, k, t)
  PROVE  HostStep(c)
  <1>1. failed \in BOOLEAN
    BY DEF GuestShape
  <1>2. CASE Wasm!Answer(c)
    <2>1. Settles(c)
      BY <1>2, WasmKeepsTheSame, WasmDoesTheSame DEF Wasm!Answer, Wasm!Settle, Settles
    <2> QED BY <1>1, <1>2, <2>1, WasmKeepsTheSame
        DEF Wasm!Answer, HostStep, Hears, imports, Wasm!imports, Wasm!clock
  <1>3. CASE Wasm!Cancelled(c) \/ Wasm!Dropped(c)
    BY <1>1, <1>3, WasmKeepsTheSame
    DEF Wasm!Cancelled, Wasm!Dropped, HostStep, LetsGo, InFlight, imports, Wasm!imports, Wasm!clock
  <1>4. CASE Wasm!TakeImport(c)
    <2>1. Serves(c)
      BY <1>4, WasmKeepsTheSame, WasmDoesTheSame DEF Wasm!TakeImport, Serves, imports, Wasm!imports
    <2> QED BY <1>1, <1>4, <2>1 DEF Wasm!TakeImport, HostStep, Wasm!imports, Wasm!clock
  <1>5. CASE \E r \in Wasm!Results(call[c].import): Wasm!ImportDone(c, r)
    <2>1. Lands(c)
      BY <1>5, WasmKeepsTheSame, WasmDoesTheSame DEF Wasm!ImportDone, Lands
    <2> QED BY <1>1, <1>5, <2>1 DEF Wasm!ImportDone, HostStep, Wasm!clock
  <1>6. CASE Wasm!CancelStream(c) \/ Wasm!DropSession(c)
    <2>1. EndsStream(c)
      BY <1>6, WasmKeepsTheSame, WasmDoesTheSame
      DEF Wasm!CancelStream, Wasm!DropSession, EndsStream, imports, Wasm!imports
    <2> QED BY <1>1, <1>6, <2>1 DEF Wasm!CancelStream, Wasm!DropSession, HostStep, Wasm!clock
  <1>7. ASSUME NEW k \in GuestKinds, NEW t \in Calls, Wasm!Submit(c, k, t)
        PROVE  HostStep(c)
    <2>1. k = "open" => ~(active >= MaxStreams)
      BY <1>7 DEF Wasm!Submit, Wasm!SubmitRefusal, Wasm!SessionKinds
    <2>2. Submits(c)
      BY <1>7, <2>1, WasmKeepsTheSame DEF Wasm!Submit, Submits, imports, Wasm!imports
    <2> QED BY <1>1, <1>7, <2>2 DEF Wasm!Submit, HostStep, Wasm!clock
  <1> QED BY <1>2, <1>3, <1>4, <1>5, <1>6, <1>7 DEF Wasm!TaskStep

\* And so is its life, and what the deadline thread does is nothing to it.
LEMMA WasmByLife ==
  ASSUME \/ Wasm!Loaded \/ Wasm!Activate \/ Wasm!Deactivate \/ Wasm!Joined \/ Wasm!TimerStep
  PROVE  LifeStep
  <1>1. CASE Wasm!Loaded \/ Wasm!Joined \/ Wasm!TimerStep
    BY <1>1, WasmKeepsTheSame
    DEF Wasm!Loaded, Wasm!Joined, Wasm!TimerStep, Wasm!TimerTake, Wasm!TimerExpires,
        Wasm!TimerFires, LifeStep, Wasm!host, imports, Wasm!imports, Wasm!clock
  <1>2. CASE Wasm!Activate
    BY <1>2, WasmKeepsTheSame, WasmDoesTheSame DEF Wasm!Activate, LifeStep, Wasm!host, Wasm!clock
  <1>3. CASE Wasm!Deactivate
    BY <1>3, WasmKeepsTheSame, WasmDoesTheSame DEF Wasm!Deactivate, LifeStep, Wasm!clock
  <1> QED BY <1>1, <1>2, <1>3

\* The worker thread of a Wasm generation goes the ways of either adapter.
LEMMA WasmByWorker ==
  ASSUME GuestShape,
         \/ \E r \in {"ready", "rejected"}: Wasm!LoadWorker(r)
         \/ Wasm!Take \/ Wasm!Reject \/ Wasm!Accept \/ Wasm!Begin \/ Wasm!Trap \/ Wasm!Unblock
         \/ Wasm!Report \/ Wasm!Check \/ Wasm!Leave
         \/ \E i \in ImportCalls: Wasm!GuestImport(i)
         \/ \E out \in Outs: Wasm!GuestReturn(out)
  PROVE  WorkerStep
  <1>1. /\ worker \in WorkerRecords /\ failed \in BOOLEAN /\ queue \in Seq(Commands)
        /\ "closed" \in Outs /\ "none" \in Outs /\ "fail" \in Outs
    BY DEF GuestShape, WorkerRecords, Outs
  <1>2. ASSUME NEW r, Wasm!LoadWorker(r)
        PROVE  WorkerStep
    <2>1. PICK p \in {"idle", "exited"} : worker' = [worker EXCEPT !.at = p]
      BY <1>2 DEF Wasm!LoadWorker
    <2>2. worker' \in WorkerRecords /\ worker'.at = p
      BY <2>1, WorkerGoes DEF WorkerPlaces
    <2> QED BY <1>1, <1>2, <2>2
        DEF Wasm!LoadWorker, WorkerStep, Moves, Begun, imports, Wasm!imports, Wasm!host
  <1>3. CASE Wasm!Take
    <2>1. Head(queue) \in Commands /\ Tail(queue) \in Seq(Commands)
      BY <1>1, <1>3 DEF Wasm!Take
    <2>2. worker' \in WorkerRecords /\ worker'.at \in {"leaving", "taken"}
      <3>1. CASE Wasm!Leaving
        BY <3>1, WorkerGoes, WasmKeepsTheSame DEF Wasm!Leaving, WorkerPlaces
      <3>2. CASE ~Wasm!Leaving
        <4>1. worker' = [worker EXCEPT !.at = "taken", !.cmd = Head(queue)]
          BY <1>3, <3>2 DEF Wasm!Take
        <4> QED BY <1>1, <2>1, <4>1, WorkerGoesWith DEF WorkerPlaces
      <3> QED BY <3>1, <3>2
    <2> QED BY <1>1, <1>3, <2>1, <2>2
        DEF Wasm!Take, WorkerStep, Moves, Begun, imports, Wasm!imports, Wasm!host
  <1>4. CASE Wasm!Reject
    <2>1. worker' \in WorkerRecords /\ worker'.at = "leaving"
      <3>1. worker' = [at |-> "leaving", cmd |-> NoOp, out |-> "none"]
        BY <1>4, WasmKeepsTheSame DEF Wasm!Reject, Wasm!Leaving
      <3> QED BY <3>1, WorkerGoes DEF WorkerPlaces
    <2>2. Tells("fail")
      <3>1. worker.at = "taken" /\ IsCall /\ call' = [call EXCEPT ![Current] = Told(Current, "fail")]
        BY <1>4, WasmKeepsTheSame, WasmDoesTheSame DEF Wasm!Reject, Wasm!Abandoned
      <3> QED BY <2>1, <3>1 DEF Tells
    <2> QED BY <1>1, <1>4, <2>1, <2>2
        DEF Wasm!Reject, WorkerStep, Begun, imports, Wasm!imports
  <1>5. CASE Wasm!Accept
    <2>1. worker' \in WorkerRecords /\ worker'.at = "accepted"
      <3>1. worker' = [worker EXCEPT !.at = "accepted"]
        BY <1>5 DEF Wasm!Accept
      <3> QED BY <3>1, WorkerGoes DEF WorkerPlaces
    <2> QED BY <1>1, <1>5, <2>1
        DEF Wasm!Accept, WorkerStep, Moves, Begun, imports, Wasm!imports, Wasm!host
  <1>6. CASE Wasm!Begin
    <2>1. worker' \in WorkerRecords /\ worker'.at = "running"
      <3>1. worker' = [worker EXCEPT !.at = "running"]
        BY <1>6 DEF Wasm!Begin
      <3> QED BY <3>1, WorkerGoes DEF WorkerPlaces
    <2> QED BY <1>1, <1>6, <2>1
        DEF Wasm!Begin, WorkerStep, Moves, Begun, imports, Wasm!imports, Wasm!host
  <1>7. ASSUME NEW out \in Outs, Wasm!Return(out)
        PROVE  WorkerStep
    <2>1. worker' \in WorkerRecords /\ worker'.at = "returned"
      <3>1. worker' = [worker EXCEPT !.at = "returned", !.out = out]
        BY <1>7 DEF Wasm!Return
      <3>2. Shutdown \in Commands /\ "returned" \in WorkerPlaces
        BY DEF Commands, WorkerPlaces
      <3> QED BY <3>1, <3>2, WorkerGoesWith
    <2> QED BY <1>1, <1>7, <2>1
        DEF Wasm!Return, WorkerStep, Moves, Begun, imports, Wasm!imports, Wasm!host
  <1>8. CASE Wasm!Unblock
    <2>1. worker' \in WorkerRecords /\ worker'.at = "running"
      <3>1. worker' = [worker EXCEPT !.at = "running"]
        BY <1>8 DEF Wasm!Unblock
      <3> QED BY <3>1, WorkerGoes DEF WorkerPlaces
    <2>2. Resumes
      BY <1>8, <2>1, WasmKeepsTheSame DEF Wasm!Unblock, Resumes
    <2> QED BY <1>1, <1>8, <2>1, <2>2 DEF Wasm!Unblock, WorkerStep, Begun, imports, Wasm!imports
  <1>9. ASSUME NEW i \in ImportCalls, Wasm!GuestImport(i)
        PROVE  WorkerStep
    <2>1. worker.at = "running" /\ IsCall
      BY <1>9, WasmKeepsTheSame DEF Wasm!GuestImport
    <2>2. CASE InFlight(Current)
      <3>1. worker' \in WorkerRecords /\ worker'.at = "blocked" /\ worker'.cmd = worker.cmd
        <4>1. worker' = [worker EXCEPT !.at = "blocked"]
          BY <1>9, <2>2, WasmKeepsTheSame DEF Wasm!GuestImport
        <4> QED BY <4>1, WorkerGoes DEF WorkerPlaces
      <3>2. Asks(i)
        BY <1>9, <2>1, <2>2, <3>1, WasmKeepsTheSame DEF Wasm!GuestImport, Asks
      <3> QED BY <1>1, <1>9, <3>1, <3>2
          DEF Wasm!GuestImport, WorkerStep, Begun, imports, Wasm!imports
    <2>3. CASE ~InFlight(Current)
      <3>1. /\ call' = [call EXCEPT ![Current].made = @ + 1] /\ worker' = worker
        BY <1>9, <2>3, WasmKeepsTheSame DEF Wasm!GuestImport
      <3>2. AsksNobody
        BY <2>1, <3>1 DEF AsksNobody
      <3> QED BY <1>1, <1>9, <3>1, <3>2
          DEF Wasm!GuestImport, WorkerStep, Begun, imports, Wasm!imports
    <2> QED BY <2>2, <2>3
  <1>10. CASE Wasm!Report
    <2>1. worker' \in WorkerRecords /\ worker'.at = "reported"
      <3>1. worker' = [at |-> "reported", cmd |-> NoOp, out |-> "none"]
        BY <1>10, WasmKeepsTheSame DEF Wasm!Report
      <3> QED BY <3>1, WorkerGoes DEF WorkerPlaces
    <2>2. Moves \/ Tells(worker.out)
      BY <1>10, <2>1, WasmKeepsTheSame, WasmDoesTheSame DEF Wasm!Report, Moves, Tells
    <2>3. worker.out \in Outs
      BY <1>1 DEF WorkerRecords
    <2> QED BY <1>1, <1>10, <2>1, <2>2, <2>3
        DEF Wasm!Report, WorkerStep, Begun, imports, Wasm!imports
  <1>11. CASE Wasm!Leave
    <2>1. worker' \in WorkerRecords /\ worker'.at = "exited" /\ <<>> \in Seq(Commands)
      <3>1. worker' = [worker EXCEPT !.at = "exited"]
        BY <1>11 DEF Wasm!Leave
      <3> QED BY <3>1, WorkerGoes DEF WorkerPlaces
    <2>2. PICK told \in SUBSET Calls :
            told = {c \in Calls: \E n \in DOMAIN queue: queue[n] = Wasm!CallCommand(c)}
      OBVIOUS
    <2>3. call' = [c \in Calls |-> IF c \in told THEN Told(c, "closed") ELSE call[c]]
      BY <1>11, <2>2, WasmDoesTheSame DEF Wasm!Leave
    <2>4. Tells("closed")
      BY <1>11, <2>1, <2>3 DEF Wasm!Leave, Tells
    <2> QED BY <1>1, <1>11, <2>1, <2>4 DEF Wasm!Leave, WorkerStep, Begun, imports, Wasm!imports
  <1>12. CASE Wasm!Check
    <2>1. worker' \in WorkerRecords /\ worker'.at \in {"idle", "leaving"} /\ (failed => worker'.at = "leaving")
      <3>1. CASE failed
        <4>1. worker' = [at |-> "leaving", cmd |-> NoOp, out |-> "none"]
          BY <1>12, <3>1, WasmKeepsTheSame DEF Wasm!Check, Wasm!Leaving
        <4> QED BY <4>1, WorkerGoes DEF WorkerPlaces
      <3>2. CASE ~failed
        <4>1. worker' = [worker EXCEPT !.at = "idle"]
          BY <1>12, <3>2 DEF Wasm!Check
        <4> QED BY <3>2, <4>1, WorkerGoes DEF WorkerPlaces
      <3> QED BY <3>1, <3>2
    <2> QED BY <1>1, <1>12, <2>1
        DEF Wasm!Check, WorkerStep, Moves, Begun, imports, Wasm!imports, Wasm!host
  <1> QED
    BY <1>1, <1>2, <1>3, <1>4, <1>5, <1>6, <1>7, <1>8, <1>9, <1>10, <1>11, <1>12
    DEF Wasm!Trap, Wasm!GuestReturn

\* A Wasm generation is in order.
LEMMA WasmKeeps == ASSUME LimitsAreNumbers PROVE Wasm!WasmSpec => []GuestInv
  <1>1. Wasm!WasmInit => GuestBegins
    BY WasmKeepsTheSame, WasmDoesTheSame DEF Wasm!WasmInit, GuestBegins
  <1>2. GuestInv /\ [Wasm!WasmNext]_(Wasm!wasmVars) => GuestInv'
    <2> SUFFICES ASSUME GuestInv, [Wasm!WasmNext]_(Wasm!wasmVars) PROVE GuestInv'
      OBVIOUS
    <2>1. CASE UNCHANGED Wasm!wasmVars
      BY <2>1, GuestStutters DEF Wasm!wasmVars, Wasm!host, imports, Wasm!imports
    <2>2. CASE Wasm!WasmNext
      <3>1. {"value", "number", "null", "message", "terminal", "error", "fail"} \subseteq Outs
        BY DEF Outs
      <3>2. (\E c \in Calls: HostStep(c)) \/ LifeStep \/ WorkerStep
        BY <2>2, <3>1, WasmByHost, WasmByWorker, WasmByLife, WasmKeepsTheSame
        DEF Wasm!WasmNext, Wasm!ThreadStep, GuestInv
      <3> QED BY <3>2, GuestKeeps DEF GuestStep
    <2> QED BY <2>1, <2>2
  <1> QED BY <1>1, <1>2, GuestInitially, PTL DEF Wasm!WasmSpec

\* For any number of calls and streams, each open stream of a Wasm generation, and each call that
\* may still open one, holds a slot of its own, and no more than the limit are held.
THEOREM WasmHoldsSlots == ASSUME LimitsAreNumbers PROVE Wasm!WasmSpec => []Wasm!WasmSlotsHeld
  <1>1. \A S: Wasm!Cardinality(S) = Cardinality(S)
    BY DEF Wasm!Cardinality, Cardinality
  <1>2. GuestInv => Wasm!WasmSlotsHeld
    BY <1>1, WasmKeepsTheSame DEF GuestInv, GuestSlots, QuickSlotsHeld, Wasm!WasmSlotsHeld
  <1> QED BY <1>2, WasmKeeps, PTL

\* A Wasm generation that was retired begins at most one command more.
THEOREM WasmRetiresOnce == ASSUME LimitsAreNumbers PROVE Wasm!WasmSpec => []Wasm!WasmRetiredRunsOnce
  <1>1. GuestInv => Wasm!WasmRetiredRunsOnce
    BY DEF GuestInv, Retires, Wasm!WasmRetiredRunsOnce
  <1> QED BY <1>1, WasmKeeps, PTL

\* The streams a Wasm guest has open on the Host's side are within its limit and its activation.
THEOREM WasmImportsAreSound == ASSUME LimitsAreNumbers PROVE Wasm!WasmSpec => []ImportTableSound
  <1>1. GuestInv => ImportTableSound
    BY DEF GuestInv, ImportInv, TableInv
  <1> QED BY <1>1, WasmKeeps, PTL

-----------------------------------------------------------------------------
(* The deadline thread of the Wasm generation                              *)

\* Guest code runs.
GuestRuns == worker.at \in {"loading", "running"}

\* What the deadline thread was told last is to time the guest only while the guest runs.
LastTold(s) == s[Len(s)]
TimerInv ==
  /\ timerCommands \in Seq({"arm", "disarm", "shutdown"})
  /\ timerCommands # <<>> /\ LastTold(timerCommands) = "arm" => GuestRuns
  /\ Wasm!WasmTimesGuests

\* What is told is told last.
LEMMA ToldLast ==
  ASSUME NEW s \in Seq({"arm", "disarm", "shutdown"}), NEW x \in {"arm", "disarm", "shutdown"}
  PROVE  /\ s \o <<x>> \in Seq({"arm", "disarm", "shutdown"})
         /\ s \o <<x>> # <<>> /\ LastTold(s \o <<x>>) = x
         /\ s \o <<"disarm", "arm">> \in Seq({"arm", "disarm", "shutdown"})
         /\ s \o <<"disarm", "arm">> # <<>>
  <1>1. Len(s) \in Nat /\ Len(s \o <<x>>) = Len(s) + 1 /\ (s \o <<x>>)[Len(s) + 1] = x
    OBVIOUS
  <1>2. s \o <<x>> \in Seq({"arm", "disarm", "shutdown"}) /\ s \o <<x>> # <<>>
    BY <1>1
  <1>3. Len(s \o <<"disarm", "arm">>) = Len(s) + 2
    OBVIOUS
  <1> QED BY <1>1, <1>2, <1>3 DEF LastTold

\* What is taken leaves what was told last, if it is not that.
LEMMA TakenFirst ==
  ASSUME NEW s \in Seq({"arm", "disarm", "shutdown"}), s # <<>>
  PROVE  /\ Tail(s) \in Seq({"arm", "disarm", "shutdown"})
         /\ Tail(s) # <<>> => LastTold(Tail(s)) = LastTold(s)
         /\ Tail(s) = <<>> => LastTold(s) = Head(s)
  <1>1. Len(s) \in Nat \ {0} /\ Len(Tail(s)) = Len(s) - 1
    OBVIOUS
  <1>2. \A n \in 1 .. Len(s) - 1: Tail(s)[n] = s[n + 1]
    OBVIOUS
  <1>3. Tail(s) = <<>> => Len(s) = 1
    BY <1>1
  <1>4. Tail(s) # <<>> => Len(s) - 1 \in 1 .. Len(s) - 1
    BY <1>1
  <1> QED BY <1>1, <1>2, <1>3, <1>4 DEF LastTold

\* The worker tells the deadline thread when the guest starts and stops running.
LEMMA TimerByWorker ==
  ASSUME GuestShape, TimerInv, UNCHANGED timer,
         \/ /\ worker'.at \in WorkerPlaces
            /\ \E x \in {"arm", "disarm", "shutdown"}:
                 /\ timerCommands' = timerCommands \o <<x>>
                 /\ x = "arm" => worker'.at \in {"loading", "running"}
         \/ /\ worker' = worker /\ GuestRuns
            /\ timerCommands' = timerCommands \o <<"disarm", "arm">>
         \/ UNCHANGED timerCommands /\ (GuestRuns => worker'.at \in {"loading", "running"})
  PROVE  TimerInv'
  <1>1. CASE UNCHANGED timerCommands /\ (GuestRuns => worker'.at \in {"loading", "running"})
    BY <1>1 DEF TimerInv, GuestRuns, Wasm!WasmTimesGuests
  <1>2. ASSUME NEW x \in {"arm", "disarm", "shutdown"}, timerCommands' = timerCommands \o <<x>>,
               x = "arm" => worker'.at \in {"loading", "running"}
        PROVE  TimerInv'
    <2>1. /\ timerCommands' \in Seq({"arm", "disarm", "shutdown"})
          /\ timerCommands' # <<>> /\ LastTold(timerCommands') = x
      BY <1>2, ToldLast DEF TimerInv
    <2> QED BY <1>2, <2>1 DEF TimerInv, GuestRuns, Wasm!WasmTimesGuests, LastTold
  <1>3. CASE /\ worker' = worker /\ GuestRuns
             /\ timerCommands' = timerCommands \o <<"disarm", "arm">>
    <2>1. timerCommands' \in Seq({"arm", "disarm", "shutdown"}) /\ timerCommands' # <<>>
      BY <1>3, ToldLast DEF TimerInv
    <2> QED BY <1>3, <2>1 DEF TimerInv, GuestRuns, Wasm!WasmTimesGuests
  <1> QED BY <1>1, <1>2, <1>3

\* Every step of a Wasm generation keeps what the deadline thread was told true.
LEMMA TimerKeeps ==
  ASSUME GuestShape, TimerInv, Wasm!WasmNext
  PROVE  TimerInv'
  <1> USE DEF Wasm!Tell
  <1>1. CASE UNCHANGED <<worker, timer, timerCommands>>
    BY <1>1 DEF TimerInv, GuestRuns, Wasm!WasmTimesGuests
  <1>2. \A p \in WorkerPlaces: [worker EXCEPT !.at = p].at = p
    BY WorkerGoes
  <1>3. \A p \in WorkerPlaces: \A m, o: [worker EXCEPT !.at = p, !.cmd = m].at = p
                                        /\ [worker EXCEPT !.at = p, !.out = o].at = p
    BY DEF GuestShape
  <1>4. ASSUME Wasm!Leaving, UNCHANGED timer
        PROVE  TimerInv'
    <2>1. worker'.at = "leaving" /\ timerCommands' = timerCommands \o <<"shutdown">>
      BY <1>4 DEF Wasm!Leaving
    <2> QED BY <1>4, <2>1, TimerByWorker DEF WorkerPlaces
  <1>5. ASSUME NEW r, Wasm!LoadWorker(r)
        PROVE  TimerInv'
    <2>1. PICK x \in {"disarm", "shutdown"}, p \in {"idle", "exited"} :
            timerCommands' = timerCommands \o <<x>> /\ worker' = [worker EXCEPT !.at = p]
      BY <1>5 DEF Wasm!LoadWorker
    <2>2. worker'.at \in WorkerPlaces /\ UNCHANGED timer
      BY <1>2, <1>5, <2>1 DEF Wasm!LoadWorker, WorkerPlaces
    <2> QED BY <2>1, <2>2, TimerByWorker
  <1>6. CASE Wasm!Take
    <2>1. CASE Wasm!Leaving
      BY <1>4, <1>6, <2>1 DEF Wasm!Take
    <2>2. CASE ~Wasm!Leaving
      <3>1. ~GuestRuns /\ UNCHANGED <<timer, timerCommands>>
        BY <1>6, <2>2 DEF Wasm!Take, GuestRuns
      <3> QED BY <3>1, TimerByWorker
    <2> QED BY <2>1, <2>2
  <1>7. CASE Wasm!Reject
    BY <1>4, <1>7 DEF Wasm!Reject
  <1>8. CASE Wasm!Accept \/ Wasm!Report \/ Wasm!Leave
    <2>1. ~GuestRuns /\ UNCHANGED <<timer, timerCommands>>
      BY <1>8 DEF Wasm!Accept, Wasm!Report, Wasm!Leave, Wasm!clock, GuestRuns
    <2> QED BY <2>1, TimerByWorker
  <1>9. CASE Wasm!Begin \/ Wasm!Unblock
    <2>1. /\ worker' = [worker EXCEPT !.at = "running"] /\ UNCHANGED timer
          /\ timerCommands' = timerCommands \o <<"arm">>
      BY <1>9 DEF Wasm!Begin, Wasm!Unblock
    <2>2. worker'.at = "running"
      BY <1>2, <2>1 DEF WorkerPlaces
    <2> QED BY <2>1, <2>2, TimerByWorker DEF WorkerPlaces
  <1>10. ASSUME NEW out, Wasm!Return(out)
         PROVE  TimerInv'
    <2>1. /\ worker' = [worker EXCEPT !.at = "returned", !.out = out] /\ UNCHANGED timer
          /\ timerCommands' = timerCommands \o <<"disarm">>
      BY <1>10 DEF Wasm!Return
    <2>2. worker'.at = "returned"
      BY <1>3, <2>1 DEF WorkerPlaces
    <2> QED BY <2>1, <2>2, TimerByWorker DEF WorkerPlaces
  <1>11. ASSUME NEW i, Wasm!GuestImport(i)
         PROVE  TimerInv'
    <2>1. GuestRuns /\ UNCHANGED timer
      BY <1>11 DEF Wasm!GuestImport, GuestRuns
    <2>2. CASE worker' = [worker EXCEPT !.at = "blocked"] /\ timerCommands' = timerCommands \o <<"disarm">>
      <3>1. worker'.at = "blocked"
        BY <1>2, <2>2 DEF WorkerPlaces
      <3> QED BY <2>1, <2>2, <3>1, TimerByWorker DEF WorkerPlaces
    <2>3. CASE worker' = worker /\ timerCommands' = timerCommands \o <<"disarm", "arm">>
      BY <2>1, <2>3, TimerByWorker
    <2> QED BY <1>11, <2>2, <2>3 DEF Wasm!GuestImport
  <1>12. CASE Wasm!Check
    <2>1. CASE failed
      BY <1>4, <1>12, <2>1 DEF Wasm!Check
    <2>2. CASE ~failed
      <3>1. ~GuestRuns /\ UNCHANGED <<timer, timerCommands>>
        BY <1>12, <2>2 DEF Wasm!Check, GuestRuns
      <3> QED BY <3>1, TimerByWorker
    <2> QED BY <2>1, <2>2
  <1>13. CASE Wasm!TimerTake
    <2>1. /\ timerCommands # <<>> /\ timerCommands' = Tail(timerCommands) /\ UNCHANGED worker
          /\ timer' = "armed" => Head(timerCommands) = "arm"
      BY <1>13 DEF Wasm!TimerTake
    <2>2. /\ timerCommands' \in Seq({"arm", "disarm", "shutdown"})
          /\ timerCommands' # <<>> => LastTold(timerCommands') = LastTold(timerCommands)
          /\ timerCommands' = <<>> => LastTold(timerCommands) = Head(timerCommands)
      BY <2>1, TakenFirst DEF TimerInv
    <2> QED BY <2>1, <2>2 DEF TimerInv, GuestRuns, Wasm!WasmTimesGuests, LastTold
  <1>14. CASE Wasm!TimerExpires \/ Wasm!TimerFires
    <2>1. UNCHANGED <<worker, timerCommands>> /\ timer' # "armed"
      BY <1>14 DEF Wasm!TimerExpires, Wasm!TimerFires
    <2> QED BY <2>1 DEF TimerInv, GuestRuns, Wasm!WasmTimesGuests
  <1>15. CASE \/ Wasm!Loaded \/ Wasm!Activate \/ Wasm!Deactivate \/ Wasm!Joined
    BY <1>1, <1>15 DEF Wasm!Loaded, Wasm!Activate, Wasm!Deactivate, Wasm!Joined, Wasm!clock
  <1>16. ASSUME NEW c \in Calls,
                \/ Wasm!TaskStep(c) \/ Wasm!Cancelled(c) \/ Wasm!Dropped(c) \/ Wasm!CancelStream(c)
                \/ Wasm!DropSession(c)
                \/ \E k \in Wasm!GuestKinds: \E t \in Calls: Wasm!Submit(c, k, t)
         PROVE  TimerInv'
    <2>1. CASE Wasm!Answer(c) \/ Wasm!TakeImport(c) \/ \E r: Wasm!ImportDone(c, r)
      BY <1>1, <2>1 DEF Wasm!Answer, Wasm!TakeImport, Wasm!ImportDone, Wasm!clock
    <2>2. CASE \/ Wasm!Cancelled(c) \/ Wasm!Dropped(c) \/ Wasm!CancelStream(c) \/ Wasm!DropSession(c)
               \/ \E k, t: Wasm!Submit(c, k, t)
      BY <1>1, <2>2
      DEF Wasm!Cancelled, Wasm!Dropped, Wasm!CancelStream, Wasm!DropSession, Wasm!Submit, Wasm!clock
    <2> QED BY <1>16, <2>1, <2>2 DEF Wasm!TaskStep
  <1> QED
    BY <1>5, <1>6, <1>7, <1>8, <1>9, <1>10, <1>11, <1>12, <1>13, <1>14, <1>15, <1>16
    DEF Wasm!WasmNext, Wasm!ThreadStep, Wasm!TimerStep, Wasm!Trap, Wasm!GuestReturn

\* Once it has caught up with the worker, the deadline thread of a Wasm generation times guest code
\* and nothing else, however far behind the worker it may fall.
THEOREM WasmTimesTheGuest == ASSUME LimitsAreNumbers PROVE Wasm!WasmSpec => []Wasm!WasmTimesGuests
  <1>1. Wasm!WasmInit => TimerInv
    <2>1. <<"arm">> \in Seq({"arm", "disarm", "shutdown"}) /\ <<"arm">> # <<>>
      OBVIOUS
    <2> QED BY <2>1 DEF Wasm!WasmInit, TimerInv, GuestRuns, Wasm!WasmTimesGuests
  <1>2. GuestInv /\ TimerInv /\ [Wasm!WasmNext]_(Wasm!wasmVars) => TimerInv'
    <2> SUFFICES ASSUME GuestInv, TimerInv, [Wasm!WasmNext]_(Wasm!wasmVars) PROVE TimerInv'
      OBVIOUS
    <2>1. CASE UNCHANGED Wasm!wasmVars
      BY <2>1 DEF Wasm!wasmVars, Wasm!clock, TimerInv, GuestRuns, Wasm!WasmTimesGuests
    <2>2. CASE Wasm!WasmNext
      BY <2>2, TimerKeeps DEF GuestInv
    <2> QED BY <2>1, <2>2
  <1>3. TimerInv => Wasm!WasmTimesGuests
    BY DEF TimerInv
  <1> QED BY <1>1, <1>2, <1>3, WasmKeeps, PTL DEF Wasm!WasmSpec
=============================================================================
