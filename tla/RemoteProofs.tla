----------------------------- MODULE RemoteProofs -----------------------------
(***************************************************************************)
(* Neither the pending table nor the uncertain cancels of a Remote          *)
(* Generation leak, for any number of workers, requests and places.         *)
(*                                                                          *)
(* What makes the two inductive: a request is in one place only, so the     *)
(* worker that vouches for an entry is the one that will remove it; a       *)
(* dispatched state word has its worker; and a guard that read "dispatched" *)
(* knows that the request has left the queue.                               *)
(*                                                                          *)
(* The second part is about calls without their caller: a worker whose call *)
(* was abandoned is known, and a closed Generation stays closed.            *)
(*                                                                          *)
(* The third is about the event runner of a Worker, a component of its own: *)
(* the events that are pending are those of the open generation, and what a *)
(* quarantine waits for are those of the generations before it.             *)
(***************************************************************************)
EXTENDS RemoteWorkers, EventRunner, SequenceTheorems, TLAPS

Phases == {"idle", "held", "checked", "calling", "ended", "unpended", "unmarked", "exited"}
States == {"queued", "dispatched", "abandoned", "finished"}
Active == Phases \ {"idle", "exited"}
Owning == {"held", "checked", "calling", "ended"}
Vouching == {"calling", "ended", "unpended"}

Shape ==
    /\ nextId \in Nat
    /\ state \in [Ids -> States] /\ pending \subseteq Ids /\ uncertain \subseteq Ids
    /\ invokes \in Seq(Ids)
    /\ workerAt \in [Workers -> Phases] /\ workerId \in [Workers -> Ids \union {0}]
    /\ \A w \in Workers : workerAt[w] \in Active => workerId[w] \in Ids
    /\ todo \subseteq Ids /\ (handAt = "removing" => handId \in Ids)

Distinct ==
    /\ \A i, j \in DOMAIN invokes : invokes[i] = invokes[j] => i = j
    /\ \A i \in DOMAIN invokes : invokes[i] < nextId
    /\ \A w \in Workers : workerAt[w] \in Active =>
           /\ workerId[w] < nextId
           /\ \A i \in DOMAIN invokes : invokes[i] # workerId[w]
    /\ \A w, x \in Workers :
           workerAt[w] \in Active /\ workerAt[x] \in Active /\ workerId[w] = workerId[x] => w = x

Stopping ==
    /\ handAt \in {"stopping", "swapping"} \/ job # "none" => stopped /\ pending = {}
    /\ "invoke" \in halted => job # "none"

Placed ==
    \A r \in Ids : state[r] = "dispatched" =>
        \E w \in Workers : workerAt[w] = "calling" /\ workerId[w] = r

LeftQueue(r) ==
    /\ \A i \in DOMAIN invokes : invokes[i] # r
    /\ \A w \in Workers : workerId[w] = r => workerAt[w] \notin {"held", "checked"}

Removing == handAt = "removing" /\ prev = "dispatched" => LeftQueue(handId)

RemoteInv ==
    Shape /\ Distinct /\ Stopping /\ Placed /\ Removing /\ PendingOwned /\ UncertainInFlight

-----------------------------------------------------------------------------
(* Queues                                                                   *)

\* What Append does to a queue, by index.
LEMMA Appended ==
  ASSUME NEW S, NEW q \in Seq(S), NEW e \in S
  PROVE  /\ Append(q, e) \in Seq(S) /\ DOMAIN q = 1..Len(q) /\ Len(q) \in Nat
         /\ DOMAIN Append(q, e) = 1..Len(q) + 1
         /\ \A i \in DOMAIN q : Append(q, e)[i] = q[i]
         /\ Append(q, e)[Len(q) + 1] = e
  OBVIOUS

\* What taking the head does to a queue, by index.
LEMMA Shifted ==
  ASSUME NEW S, NEW q \in Seq(S), q # <<>>
  PROVE  /\ Head(q) \in S /\ Head(q) = q[1] /\ 1 \in DOMAIN q /\ Tail(q) \in Seq(S)
         /\ DOMAIN q \subseteq Nat /\ DOMAIN Tail(q) \subseteq Nat
         /\ \A i \in DOMAIN Tail(q) : i + 1 \in DOMAIN q /\ Tail(q)[i] = q[i + 1]
         /\ \A j \in DOMAIN q : j # 1 => j - 1 \in DOMAIN Tail(q) /\ Tail(q)[j - 1] = q[j]
  <1>1. Len(q) \in Nat /\ Len(q) > 0 /\ DOMAIN q = 1..Len(q)
    BY EmptySeq
  <1>2. Head(q) = q[1] /\ 1 \in DOMAIN q
    BY <1>1
  <1>3. /\ Tail(q) \in Seq(S) /\ Len(Tail(q)) = Len(q) - 1
        /\ \A i \in 1..Len(q) - 1 : Tail(q)[i] = q[i + 1]
    BY HeadTailProperties
  <1>4. DOMAIN Tail(q) = 1..Len(q) - 1
    BY <1>1, <1>3
  <1>5. \A i \in DOMAIN Tail(q) : i + 1 \in DOMAIN q /\ Tail(q)[i] = q[i + 1]
    BY <1>1, <1>3, <1>4
  <1>6. \A j \in DOMAIN q : j # 1 => j - 1 \in DOMAIN Tail(q) /\ Tail(q)[j - 1] = q[j]
    <2> SUFFICES ASSUME NEW j \in DOMAIN q, j # 1
                 PROVE  j - 1 \in DOMAIN Tail(q) /\ Tail(q)[j - 1] = q[j]
      OBVIOUS
    <2>1. j - 1 \in 1..Len(q) - 1 /\ (j - 1) + 1 = j
      BY <1>1
    <2> QED BY <1>3, <1>4, <2>1
  <1> QED BY <1>1, <1>2, <1>3, <1>4, <1>5, <1>6

-----------------------------------------------------------------------------
(* Steps that move no request                                               *)

\* A step that moves no request and removes, at most, uncertain cancels.
LEMMA AsideKeeps ==
  ASSUME RemoteInv, UNCHANGED <<nextId, state, pending, worker, invokes>>,
         uncertain' \subseteq uncertain, todo' \subseteq Ids, Stopping',
         handAt' = "removing" => UNCHANGED <<handAt, handId, prev>>
  PROVE  RemoteInv'
  <1>1. Shape' /\ Distinct' /\ Placed'
    BY DEF RemoteInv, Shape, Distinct, Placed, worker
  <1>2. Removing'
    BY DEF RemoteInv, Removing, LeftQueue, worker
  <1>3. PendingOwned' /\ UncertainInFlight'
    BY DEF RemoteInv, PendingOwned, UncertainInFlight, worker
  <1> QED BY <1>1, <1>2, <1>3 DEF RemoteInv

\* The App's thread between the two ends of a guard drop or of begin_stop.
LEMMA HandAside ==
  ASSUME RemoteInv, SpawnCancel \/ LockTables \/ UnlockTables \/ TakeUncertain \/ StartJob
  PROVE  RemoteInv'
  <1>1. /\ UNCHANGED <<nextId, state, pending, worker, invokes>> /\ handAt' # "removing"
    BY DEF SpawnCancel, LockTables, UnlockTables, Free, TakeUncertain, StartJob, callers, tables
  <1>2. uncertain' \subseteq uncertain /\ todo' \subseteq Ids
    BY DEF SpawnCancel, LockTables, UnlockTables, Free, TakeUncertain, StartJob, tables, RemoteInv, Shape
  <1>3. Stopping'
    BY DEF SpawnCancel, LockTables, UnlockTables, Free, TakeUncertain, StartJob, tables, stop, RemoteInv,
           Stopping
  <1> QED BY <1>1, <1>2, <1>3, AsideKeeps

\* The shutdown job and the cancel workers.
LEMMA OthersAside ==
  ASSUME RemoteInv, Shutdown \/ \E v \in Cancellers : Canceller(v)
  PROVE  RemoteInv'
  <1>1. UNCHANGED <<nextId, state, pending, worker, invokes, handAt, handId, prev, todo>>
    BY DEF Shutdown, RaiseInvoke, RaiseCancel, PostLast, EndCancels, Joined, Canceller,
           ReceiveCancel, ExitCancel, PostCancel, EndCancel, callers, tables, hand
  <1>2. uncertain' \subseteq uncertain
    BY DEF Shutdown, RaiseInvoke, RaiseCancel, PostLast, EndCancels, Joined, Canceller,
           ReceiveCancel, ExitCancel, PostCancel, EndCancel, tables
  <1>3. /\ stopped' = stopped /\ (job' # "none" => job # "none")
        /\ ("invoke" \in halted' => job' # "none")
    <2>1. CASE Shutdown
      BY <2>1 DEF Shutdown, RaiseInvoke, RaiseCancel, PostLast, EndCancels, Joined, stop, RemoteInv,
                  Stopping
    <2>2. CASE \E v \in Cancellers : Canceller(v)
      BY <2>2 DEF Canceller, ReceiveCancel, ExitCancel, PostCancel, EndCancel, stop, RemoteInv,
                  Stopping
    <2> QED BY <2>1, <2>2
  <1>4. Stopping'
    BY <1>1, <1>3 DEF RemoteInv, Stopping
  <1> QED BY <1>1, <1>2, <1>4, AsideKeeps DEF RemoteInv, Shape

-----------------------------------------------------------------------------
(* The App's thread                                                         *)

\* An admitted request is queued and nowhere else.
LEMMA InvokeKeeps ==
  ASSUME RemoteInv, Invoke
  PROVE  RemoteInv'
  <1>0. /\ nextId \in Ids /\ nextId' = nextId + 1 /\ handAt = "free" /\ ~stopped
        /\ UNCHANGED <<state, uncertain, worker, hand, stop>>
    BY DEF Invoke
  <1>a. /\ \A i \in DOMAIN invokes : invokes[i] \in Ids /\ invokes[i] < nextId
        /\ \A w \in Workers : workerAt[w] \in Active => workerId[w] \in Ids /\ workerId[w] < nextId
    <2>1. invokes \in Seq(Ids)
      BY DEF RemoteInv, Shape
    <2>2. \A i \in DOMAIN invokes : invokes[i] \in Ids
      <3> HIDE DEF Ids
      <3> QED BY <2>1
    <2> QED BY <2>2 DEF RemoteInv, Distinct, Shape
  <1>b. Ids \subseteq Nat
    BY DEF Ids
  <1>1. CASE UNCHANGED <<invokes, pending>>
    <2>1. Shape'
      BY <1>0, <1>1 DEF RemoteInv, Shape, worker, hand, Ids
    <2>2. \A r \in Ids : r < nextId => r < nextId + 1
      BY <1>0, <1>b
    <2>3. /\ \A i \in DOMAIN invokes : invokes[i] < nextId + 1
          /\ \A w \in Workers : workerAt[w] \in Active => workerId[w] < nextId + 1
      BY <1>a, <2>2
    <2>4. Distinct'
      BY <1>0, <1>1, <2>3 DEF RemoteInv, Distinct, worker
    <2>5. Stopping' /\ Placed' /\ Removing' /\ PendingOwned' /\ UncertainInFlight'
      BY <1>0, <1>1 DEF RemoteInv, Stopping, Placed, Removing, PendingOwned, UncertainInFlight,
                        worker, hand, stop
    <2> QED BY <2>1, <2>4, <2>5 DEF RemoteInv
  <1>2. CASE invokes' = Append(invokes, nextId) /\ pending' = pending \union {nextId}
    <2>1. /\ invokes' \in Seq(Ids) /\ DOMAIN invokes = 1..Len(invokes) /\ Len(invokes) \in Nat
          /\ DOMAIN invokes' = 1..Len(invokes) + 1
          /\ \A i \in DOMAIN invokes : invokes'[i] = invokes[i]
          /\ invokes'[Len(invokes) + 1] = nextId
      BY <1>0, <1>2, Appended DEF RemoteInv, Shape
    <2>2. Shape'
      BY <1>0, <1>2, <2>1 DEF RemoteInv, Shape, worker, hand, Ids
    <2>3. \A i \in DOMAIN invokes' : (i \in DOMAIN invokes /\ invokes'[i] = invokes[i])
                                     \/ (i = Len(invokes) + 1 /\ invokes'[i] = nextId)
      BY <2>1
    <2>4. \A i \in DOMAIN invokes : invokes[i] < nextId /\ invokes[i] \in Nat
      BY <1>a, <1>b
    <2>5. \A w \in Workers : workerAt[w] \in Active => workerId[w] < nextId /\ workerId[w] \in Nat
      BY <1>a, <1>b
    <2>6. Distinct'
      <3>1. \A i, j \in DOMAIN invokes' : invokes'[i] = invokes'[j] => i = j
        BY <1>0, <2>3, <2>4 DEF RemoteInv, Distinct, Ids
      <3>2. \A i \in DOMAIN invokes' : invokes'[i] < nextId'
        BY <1>0, <2>3, <2>4 DEF Ids
      <3>3. \A w \in Workers : workerAt'[w] \in Active =>
              workerId'[w] < nextId' /\ \A i \in DOMAIN invokes' : invokes'[i] # workerId'[w]
        BY <1>0, <2>3, <2>5 DEF RemoteInv, Distinct, worker, Ids
      <3> QED BY <1>0, <3>1, <3>2, <3>3 DEF RemoteInv, Distinct, worker
    <2>7. Stopping' /\ Placed' /\ Removing' /\ UncertainInFlight'
      BY <1>0, <1>2 DEF RemoteInv, Stopping, Placed, Removing, UncertainInFlight, worker, hand, stop
    <2>8. PendingOwned'
      <3>1. Len(invokes) + 1 \in DOMAIN invokes' /\ DOMAIN invokes \subseteq DOMAIN invokes'
        BY <2>1
      <3> QED BY <1>0, <1>2, <2>1, <3>1 DEF RemoteInv, PendingOwned, worker
    <2> QED BY <2>2, <2>6, <2>7, <2>8 DEF RemoteInv
  <1> QED BY <1>1, <1>2 DEF Invoke

\* The guard's swap: what was dispatched is in the hands of a worker that
\* posts it.
LEMMA GiveUpKeeps ==
  ASSUME RemoteInv, NEW r \in Ids, GiveUp(r)
  PROVE  RemoteInv'
  <1>1. /\ state' = [state EXCEPT ![r] = "abandoned"] /\ handAt = "free"
        /\ handAt' = "removing" /\ handId' = r /\ prev' = state[r]
        /\ UNCHANGED <<nextId, pending, uncertain, invokes, worker, todo, stop>>
    BY DEF GiveUp, callers, tables
  <1>2. Shape'
    BY <1>1 DEF RemoteInv, Shape, States, worker
  <1>3. Distinct' /\ Stopping' /\ PendingOwned' /\ UncertainInFlight'
    BY <1>1 DEF RemoteInv, Distinct, Stopping, PendingOwned, UncertainInFlight, worker, stop
  <1>4. Placed'
    BY <1>1 DEF RemoteInv, Placed, Shape, worker
  <1>5. Removing'
    <2> SUFFICES ASSUME state[r] = "dispatched" PROVE LeftQueue(r)'
      BY <1>1 DEF Removing
    <2>1. PICK w \in Workers : workerAt[w] = "calling" /\ workerId[w] = r
      BY DEF RemoteInv, Placed
    <2>2. \A i \in DOMAIN invokes : invokes[i] # r
      BY <2>1 DEF RemoteInv, Distinct, Active, Phases
    <2>3. \A x \in Workers : workerId[x] = r => workerAt[x] \notin {"held", "checked"}
      BY <2>1 DEF RemoteInv, Distinct, Active, Phases
    <2> QED BY <1>1, <2>2, <2>3 DEF LeftQueue, worker
  <1> QED BY <1>2, <1>3, <1>4, <1>5 DEF RemoteInv

\* The entry was still there, so a worker has yet to remove it, and it is past
\* the queue: it will see the mark.
LEMMA RemovePendingKeeps ==
  ASSUME RemoteInv, RemovePending
  PROVE  RemoteInv'
  <1>1. /\ handAt = "removing" /\ handAt' # "removing" /\ handAt' \notin {"stopping", "swapping"}
        /\ pending' = pending \ {handId}
        /\ UNCHANGED <<nextId, state, invokes, worker, todo, stop>>
    BY DEF RemovePending, Free, callers, hand
  <1>2. \/ uncertain' = uncertain
        \/ uncertain' = uncertain \union {handId} /\ handId \in pending /\ prev = "dispatched"
    BY DEF RemovePending, Free
  <1>3. Shape'
    BY <1>1, <1>2 DEF RemoteInv, Shape, worker
  <1>4. Distinct' /\ Placed' /\ Removing'
    BY <1>1 DEF RemoteInv, Distinct, Placed, Removing, worker
  <1>5. Stopping'
    BY <1>1 DEF RemoteInv, Stopping, stop
  <1>6. PendingOwned'
    BY <1>1 DEF RemoteInv, PendingOwned, worker
  <1>7. UncertainInFlight'
    <2>1. CASE uncertain' = uncertain
      BY <1>1, <2>1 DEF RemoteInv, UncertainInFlight, worker
    <2>2. CASE uncertain' = uncertain \union {handId} /\ handId \in pending /\ prev = "dispatched"
      <3>1. LeftQueue(handId)
        BY <1>1, <2>2 DEF RemoteInv, Removing
      <3>2. \E w \in Workers : workerId[w] = handId /\ workerAt[w] \in Vouching
        BY <2>2, <3>1 DEF RemoteInv, PendingOwned, LeftQueue, Vouching
      <3> QED BY <1>1, <2>2, <3>2 DEF RemoteInv, UncertainInFlight, worker, Vouching
    <2> QED BY <1>2, <2>1, <2>2
  <1> QED BY <1>3, <1>4, <1>5, <1>6, <1>7 DEF RemoteInv

\* The saturated cancel queue, and the swaps of begin_stop.
LEMMA MarkKeeps ==
  ASSUME RemoteInv, Mark \/ Swap
  PROVE  RemoteInv'
  <1>1. PICK r \in Ids :
           /\ state' = [state EXCEPT ![r] = "abandoned"] /\ todo' \subseteq todo
           /\ uncertain' = uncertain
                \/ (uncertain' = uncertain \union {r} /\ state[r] = "dispatched")
    <2>1. CASE Mark
      BY <2>1 DEF Mark, First, RemoteInv, Shape
    <2>2. CASE Swap
      BY <2>2 DEF Swap, First, RemoteInv, Shape, tables
    <2> QED BY <2>1, <2>2
  <1>2. /\ UNCHANGED <<nextId, pending, invokes, worker, handAt, handId, prev, stopped, halted, job>>
        /\ handAt # "removing"
    BY DEF Mark, Swap, callers, tables, stop
  <1>3. Shape'
    BY <1>1, <1>2 DEF RemoteInv, Shape, States, worker
  <1>4. Distinct' /\ Stopping' /\ Removing' /\ PendingOwned'
    BY <1>2 DEF RemoteInv, Distinct, Stopping, Removing, PendingOwned, worker
  <1>5. Placed'
    BY <1>1, <1>2 DEF RemoteInv, Placed, Shape, worker
  <1>6. UncertainInFlight'
    BY <1>1, <1>2 DEF RemoteInv, UncertainInFlight, Placed, worker
  <1> QED BY <1>3, <1>4, <1>5, <1>6 DEF RemoteInv

\* The table is taken.
LEMMA BeginStopKeeps ==
  ASSUME RemoteInv, BeginStop
  PROVE  RemoteInv'
  <1>1. /\ pending' = {} /\ todo' = pending /\ stopped' = TRUE /\ handAt' = "stopping"
        /\ UNCHANGED <<nextId, state, uncertain, invokes, worker, halted, job>>
    BY DEF BeginStop, callers
  <1>2. Shape' /\ Distinct' /\ Placed' /\ Removing' /\ UncertainInFlight'
    BY <1>1 DEF RemoteInv, Shape, Distinct, Placed, Removing, UncertainInFlight, worker
  <1>3. Stopping' /\ PendingOwned'
    BY <1>1 DEF RemoteInv, Stopping, PendingOwned
  <1> QED BY <1>2, <1>3 DEF RemoteInv

-----------------------------------------------------------------------------
(* Invoke workers                                                           *)

\* A worker goes on with the request it holds.
LEMMA MoveKeeps ==
  ASSUME RemoteInv, NEW w \in Workers, NEW from \in Active, NEW to \in Active \union {"idle"},
         Moves(w, from, to),
         pending' \subseteq pending, uncertain' \subseteq uncertain, state' \in [Ids -> States],
         \A r \in Ids : state'[r] = "dispatched" =>
             \/ r = workerId[w] /\ to = "calling"
             \/ state[r] = "dispatched" /\ (from # "calling" \/ r # workerId[w]),
         from \in Owning => to \in Owning \/ workerId[w] \notin pending',
         from \in Vouching => to \in Vouching \/ workerId[w] \notin uncertain',
         to \in {"held", "checked"} => from \in {"held", "checked"}
  PROVE  RemoteInv'
  <1>1. /\ workerAt' = [workerAt EXCEPT ![w] = to] /\ workerAt[w] = from
        /\ workerId' = [workerId EXCEPT ![w] = IF to = "idle" THEN 0 ELSE @]
        /\ UNCHANGED <<nextId, invokes, hand, stop>>
    BY DEF Moves, callers
  <1>a. /\ \A x \in Workers \ {w} : workerAt'[x] = workerAt[x] /\ workerId'[x] = workerId[x]
        /\ workerAt'[w] = to /\ (to # "idle" => workerId'[w] = workerId[w])
    BY <1>1 DEF RemoteInv, Shape
  <1>2. Shape'
    BY <1>1 DEF RemoteInv, Shape, hand, Active, Phases
  <1>3. Distinct'
    BY <1>a, <1>1 DEF RemoteInv, Distinct, Active
  <1>4. Stopping'
    BY <1>1 DEF RemoteInv, Stopping, hand, stop
  <1>5. Placed'
    BY <1>a, <1>1 DEF RemoteInv, Placed
  <1>6. Removing'
    BY <1>a, <1>1 DEF RemoteInv, Removing, LeftQueue, hand
  <1>7. PendingOwned'
    BY <1>a, <1>1 DEF RemoteInv, PendingOwned, Owning
  <1>8. UncertainInFlight'
    BY <1>a, <1>1 DEF RemoteInv, UncertainInFlight, Vouching
  <1> QED BY <1>2, <1>3, <1>4, <1>5, <1>6, <1>7, <1>8 DEF RemoteInv

\* The steps between receiving a request and answering it.
LEMMA WorkerMoves ==
  ASSUME RemoteInv, NEW w \in Workers,
         \/ Check(w) \/ Expire(w) \/ Dispatch(w) \/ Skip(w) \/ FinishCall(w)
         \/ Unpend(w) \/ Unmark(w) \/ Answer(w)
  PROVE  RemoteInv'
  <1> USE DEF Active, Phases, Owning, Vouching, tables
  <1>1. state \in [Ids -> States]
    BY DEF RemoteInv, Shape
  <1>2. CASE Check(w)
    <2>1. Moves(w, "held", "checked") /\ UNCHANGED <<state, tables>>
      BY <1>2 DEF Check
    <2> QED BY <1>1, <2>1, MoveKeeps
  <1>3. CASE Expire(w)
    <2>1. /\ Moves(w, "checked", "ended") /\ UNCHANGED tables
          /\ state' = [state EXCEPT ![workerId[w]] = "finished"]
      BY <1>3 DEF Expire
    <2>2. /\ state' \in [Ids -> States]
          /\ \A r \in Ids : state'[r] = "dispatched" => state[r] = "dispatched"
      BY <1>1, <2>1 DEF States
    <2> QED BY <2>1, <2>2, MoveKeeps
  <1>4. CASE Dispatch(w)
    <2>1. /\ Moves(w, "checked", "calling") /\ UNCHANGED tables
          /\ state' = [state EXCEPT ![workerId[w]] = "dispatched"]
      BY <1>4 DEF Dispatch
    <2>2. /\ state' \in [Ids -> States]
          /\ \A r \in Ids : state'[r] = "dispatched" =>
                state[r] = "dispatched" \/ r = workerId[w]
      BY <1>1, <2>1 DEF States
    <2> QED BY <2>1, <2>2, MoveKeeps
  <1>5. CASE Skip(w)
    <2>1. Moves(w, "checked", "ended") /\ UNCHANGED <<state, tables>>
      BY <1>5 DEF Skip
    <2> QED BY <1>1, <2>1, MoveKeeps
  <1>6. CASE FinishCall(w)
    <2>1. /\ Moves(w, "calling", "ended") /\ UNCHANGED tables
          /\ state' = [state EXCEPT ![workerId[w]] = "finished"]
      BY <1>6 DEF FinishCall
    <2>2. /\ state' \in [Ids -> States]
          /\ \A r \in Ids : state'[r] = "dispatched" => state[r] = "dispatched" /\ r # workerId[w]
      BY <1>1, <2>1 DEF States
    <2> QED BY <2>1, <2>2, MoveKeeps
  <1>7. CASE Unpend(w)
    <2>1. /\ Moves(w, "ended", "unpended") /\ UNCHANGED <<state, uncertain>>
          /\ pending' = pending \ {workerId[w]}
      BY <1>7 DEF Unpend
    <2> QED BY <1>1, <2>1, MoveKeeps
  <1>8. CASE Unmark(w)
    <2>1. /\ Moves(w, "unpended", "unmarked") /\ UNCHANGED <<state, pending>>
          /\ uncertain' = uncertain \ {workerId[w]}
      BY <1>8 DEF Unmark
    <2> QED BY <1>1, <2>1, MoveKeeps
  <1>9. CASE Answer(w)
    <2>1. Moves(w, "unmarked", "idle") /\ UNCHANGED <<state, tables>>
      BY <1>9 DEF Answer
    <2> QED BY <1>1, <2>1, MoveKeeps
  <1> QED BY <1>2, <1>3, <1>4, <1>5, <1>6, <1>7, <1>8, <1>9

\* The request moves from the queue to the worker.
LEMMA ReceiveKeeps ==
  ASSUME RemoteInv, NEW w \in Workers, Receive(w)
  PROVE  RemoteInv'
  <1> DEFINE r == Head(invokes)
  <1>1. /\ workerAt[w] = "idle" /\ workerAt' = [workerAt EXCEPT ![w] = "held"]
        /\ workerId' = [workerId EXCEPT ![w] = r] /\ invokes' = Tail(invokes)
        /\ UNCHANGED <<nextId, state, pending, uncertain, hand, stop>>
    BY DEF Receive, callers, tables
  <1>2. /\ r \in Ids /\ r = invokes[1] /\ 1 \in DOMAIN invokes /\ invokes' \in Seq(Ids)
        /\ DOMAIN invokes \subseteq Nat /\ DOMAIN invokes' \subseteq Nat
        /\ \A i \in DOMAIN invokes' : i + 1 \in DOMAIN invokes /\ invokes'[i] = invokes[i + 1]
        /\ \A j \in DOMAIN invokes : j # 1 => j - 1 \in DOMAIN invokes' /\ invokes'[j - 1] = invokes[j]
    <2>1. invokes \in Seq(Ids) /\ invokes # <<>>
      BY DEF Receive, RemoteInv, Shape
    <2> QED BY <1>1, <2>1, Shifted
  <1> HIDE DEF r
  <1>3. /\ \A x \in Workers : x # w => workerAt'[x] = workerAt[x] /\ workerId'[x] = workerId[x]
        /\ workerAt'[w] = "held" /\ workerId'[w] = r
    BY <1>1 DEF RemoteInv, Shape
  <1>4. Shape'
    BY <1>1, <1>2, <1>3 DEF RemoteInv, Shape, hand, Phases
  <1>5. \A i \in DOMAIN invokes' : invokes'[i] # r
    <2>1. \A i \in DOMAIN invokes' : i \in Nat /\ i # 0
      BY <1>2 DEF RemoteInv, Shape
    <2>2. \A i \in DOMAIN invokes' : i + 1 # 1
      BY <2>1
    <2> QED BY <1>2, <2>2 DEF RemoteInv, Distinct
  <1>6. Distinct'
    <2>1. \A i, j \in DOMAIN invokes' : invokes'[i] = invokes'[j] => i = j
      <3> SUFFICES ASSUME NEW i \in DOMAIN invokes', NEW j \in DOMAIN invokes',
                          invokes'[i] = invokes'[j]
                   PROVE  i = j
        OBVIOUS
      <3>1. i + 1 = j + 1
        BY <1>2 DEF RemoteInv, Distinct
      <3> QED BY <1>2, <3>1
    <2>2. \A i \in DOMAIN invokes' : invokes'[i] < nextId'
      BY <1>1, <1>2 DEF RemoteInv, Distinct
    <2>3. r < nextId /\ \A x \in Workers : workerAt[x] \in Active => workerId[x] # r
      BY <1>2 DEF RemoteInv, Distinct
    <2>4. \A x \in Workers : x # w /\ workerAt[x] \in Active =>
             workerId[x] < nextId /\ \A i \in DOMAIN invokes' : invokes'[i] # workerId[x]
      BY <1>2 DEF RemoteInv, Distinct
    <2>5. \A x \in Workers : workerAt'[x] \in Active =>
             workerId'[x] < nextId' /\ \A i \in DOMAIN invokes' : invokes'[i] # workerId'[x]
      BY <1>1, <1>3, <1>5, <2>3, <2>4
    <2>6. \A x, y \in Workers :
             workerAt'[x] \in Active /\ workerAt'[y] \in Active /\ workerId'[x] = workerId'[y] => x = y
      BY <1>3, <2>3 DEF RemoteInv, Distinct
    <2> QED BY <2>1, <2>2, <2>5, <2>6 DEF Distinct
  <1>7. Stopping'
    BY <1>1 DEF RemoteInv, Stopping, hand, stop
  <1>8. Placed'
    BY <1>1, <1>3 DEF RemoteInv, Placed
  <1>9. Removing'
    <2> SUFFICES ASSUME handAt = "removing", prev = "dispatched" PROVE LeftQueue(handId)'
      BY <1>1 DEF Removing, hand
    <2>1. LeftQueue(handId)
      BY DEF RemoteInv, Removing
    <2>2. handId # r
      BY <1>2, <2>1 DEF LeftQueue
    <2> QED BY <1>1, <1>2, <1>3, <2>1, <2>2 DEF LeftQueue, hand
  <1>10. PendingOwned'
    <2> SUFFICES ASSUME NEW q \in pending
                 PROVE  \/ \E i \in DOMAIN invokes' : invokes'[i] = q
                        \/ \E x \in Workers : workerId'[x] = q /\ workerAt'[x] \in Owning
      BY <1>1 DEF PendingOwned, Owning
    <2>1. CASE \E i \in DOMAIN invokes : invokes[i] = q
      BY <1>2, <1>3, <2>1 DEF Owning
    <2>2. CASE \E x \in Workers : workerId[x] = q /\ workerAt[x] \in Owning
      BY <1>1, <1>3, <2>2 DEF Owning
    <2> QED BY <2>1, <2>2 DEF RemoteInv, PendingOwned, Owning
  <1>11. UncertainInFlight'
    BY <1>1, <1>3 DEF RemoteInv, UncertainInFlight
  <1> QED BY <1>4, <1>6, <1>7, <1>8, <1>9, <1>10, <1>11 DEF RemoteInv

\* A worker returns: by then the pending table has been taken.
LEMMA ExitKeeps ==
  ASSUME RemoteInv, NEW w \in Workers, Exit(w)
  PROVE  RemoteInv'
  <1>1. /\ workerAt[w] \in {"idle", "held"} /\ workerAt' = [workerAt EXCEPT ![w] = "exited"]
        /\ invokes' \in {invokes, <<>>} /\ "invoke" \in halted
        /\ UNCHANGED <<nextId, state, pending, uncertain, hand, stop>>
        /\ workerId' = [workerId EXCEPT ![w] = 0]
    BY DEF Exit, callers, tables
  <1>2. /\ \A x \in Workers : x # w => workerAt'[x] = workerAt[x] /\ workerId'[x] = workerId[x]
        /\ workerAt'[w] = "exited"
    BY <1>1 DEF RemoteInv, Shape
  <1>3. invokes' \in Seq(Ids) /\ \A i \in DOMAIN invokes' : i \in DOMAIN invokes /\ invokes'[i] = invokes[i]
    <2>1. CASE invokes' = invokes
      BY <2>1 DEF RemoteInv, Shape
    <2>2. CASE invokes' = <<>>
      <3>1. invokes' \in Seq(Ids) /\ DOMAIN invokes' = {}
        BY <2>2, EmptySeq
      <3> QED BY <3>1
    <2> QED BY <1>1, <2>1, <2>2
  <1>4. Shape'
    BY <1>1, <1>2, <1>3 DEF RemoteInv, Shape, hand, Phases, Active
  <1>5. Distinct'
    BY <1>1, <1>2, <1>3 DEF RemoteInv, Distinct, Active
  <1>6. Stopping' /\ pending = {}
    BY <1>1 DEF RemoteInv, Stopping, hand, stop
  <1>7. Placed' /\ UncertainInFlight'
    BY <1>1, <1>2 DEF RemoteInv, Placed, UncertainInFlight
  <1>8. Removing'
    BY <1>1, <1>2, <1>3 DEF RemoteInv, Removing, LeftQueue, hand
  <1>9. PendingOwned'
    BY <1>1, <1>6 DEF PendingOwned
  <1> QED BY <1>4, <1>5, <1>6, <1>7, <1>8, <1>9 DEF RemoteInv

-----------------------------------------------------------------------------
(* The specification                                                        *)

\* Nothing has been asked yet.
LEMMA InitKeeps == Init => RemoteInv
  <1> SUFFICES ASSUME Init PROVE RemoteInv
    OBVIOUS
  <1>1. invokes \in Seq(Ids) /\ DOMAIN invokes = {}
    BY EmptySeq DEF Init
  <1>2. Shape
    BY <1>1 DEF Init, Shape, States, Phases, Active
  <1>3. Distinct
    BY <1>1 DEF Init, Distinct, Active
  <1>4. Stopping /\ Placed /\ Removing /\ PendingOwned /\ UncertainInFlight
    BY DEF Init, Stopping, Placed, Removing, PendingOwned, UncertainInFlight
  <1> QED BY <1>2, <1>3, <1>4 DEF RemoteInv

\* Every step keeps the invariant.
LEMMA StepKeeps == RemoteInv /\ [Next]_vars => RemoteInv'
  <1> SUFFICES ASSUME RemoteInv, [Next]_vars PROVE RemoteInv'
    OBVIOUS
  <1>1. CASE Invoke \/ BeginStop
    BY <1>1, InvokeKeeps, BeginStopKeeps
  <1>2. CASE Hand
    BY <1>2, HandAside, RemovePendingKeeps, MarkKeeps DEF Hand
  <1>3. CASE Shutdown \/ \E v \in Cancellers : Canceller(v)
    BY <1>3, OthersAside
  <1>4. ASSUME NEW r \in Ids, Caller(r) PROVE RemoteInv'
    <2>1. CASE Hear(r)
      <3>1. UNCHANGED <<nextId, state, pending, uncertain, worker, invokes, hand, stop>>
        BY <2>1 DEF Hear, tables
      <3>2. Stopping'
        BY <3>1 DEF RemoteInv, Stopping, hand, stop
      <3> QED BY <3>1, <3>2, AsideKeeps DEF hand, RemoteInv, Shape
    <2> QED BY <1>4, <2>1, GiveUpKeeps DEF Caller
  <1>5. ASSUME NEW w \in Workers, Worker(w) PROVE RemoteInv'
    BY <1>5, ReceiveKeeps, ExitKeeps, WorkerMoves DEF Worker
  <1>6. CASE UNCHANGED vars
    <2>1. UNCHANGED <<nextId, state, pending, uncertain, worker, invokes, hand, stop>>
      BY <1>6 DEF vars, worker, hand, stop
    <2>2. Stopping'
      BY <2>1 DEF RemoteInv, Stopping, hand, stop
    <2> QED BY <2>1, <2>2, AsideKeeps DEF hand, RemoteInv, Shape
  <1> QED BY <1>1, <1>2, <1>3, <1>4, <1>5, <1>6 DEF Next

\* The invariant, in every state.
THEOREM RemoteInvariance == Spec => []RemoteInv
  BY InitKeeps, StepKeeps, PTL DEF Spec

\* Admission recovers: an entry of the pending table is queued or in the hands
\* of a worker that will remove it; and a mark is on a call that a worker has not
\* finished, whatever order guard drops, saturation, answers and shutdown come in.
THEOREM TablesDoNotLeak == Spec => []TablesOwned
  <1>1. RemoteInv => TablesOwned
    BY DEF RemoteInv, TablesOwned
  <1> QED BY <1>1, RemoteInvariance, PTL

-----------------------------------------------------------------------------
(* Calls without their caller                                               *)

\* r waits in the queue, or a worker has it and has not heard back.
Around(r) ==
    \/ \E i \in DOMAIN invokes : invokes[i] = r
    \/ \E w \in Workers : workerId[w] = r /\ workerAt[w] \in {"held", "checked", "calling"}

Calling(w, r) == workerAt[w] = "calling" /\ workerId[w] = r

\* Ids are drawn in order; only who waits can be answered; and who has gone has abandoned the
\* request before anything else.
Abandoned ==
    /\ \A r \in Ids : r >= nextId => caller[r] = "none"
    /\ \A r \in Ids : reply[r] # "empty" => caller[r] = "waiting"
    /\ caller \in [Ids -> {"none", "refused", "waiting", "answered", "gone"}]
    /\ reply \in [Ids -> {"empty", "sent", "closed"}]
    /\ \A r \in Ids : caller[r] = "gone" => state[r] \in {"abandoned", "finished"}
    /\ handAt = "removing" => caller[handId] = "gone"

\* Nobody has heard of a request that is around, and who asked for it still waits unless it is
\* abandoned.
Unanswered ==
    \A r \in Ids : Around(r) =>
        reply[r] = "empty" /\ (state[r] = "queued" => caller[r] = "waiting")

InCall == \A w \in Workers : workerAt[w] = "calling" =>
              state[workerId[w]] \in {"dispatched", "abandoned"}

\* The pending table has every request that is around and not abandoned, until begin_stop takes it.
Tracked ==
    job = "none" /\ handAt \notin {"stopping", "swapping"} =>
        \A r \in Ids : Around(r) /\ state[r] \in {"queued", "dispatched"} => r \in pending

\* The guard that interrupts a call finds its entry.
Interrupting == handAt = "removing" /\ prev = "dispatched"
Found == job = "none" /\ Interrupting /\ (\E w \in Workers : Calling(w, handId)) => handId \in pending

Known ==
    job = "none" =>
      /\ handAt # "swapping" => last = {}
      /\ \A w \in Workers :
        /\ workerAt[w] = "calling" /\ state[workerId[w]] = "abandoned"
        /\ ~(Interrupting /\ handId = workerId[w])
        => workerId[w] \in uncertain \union heard \union last

\* In a Generation that is closed nothing is left to dispatch but what is about to be abandoned.
Left ==
    CASE handAt = "locking" -> pending
      [] handAt \in {"marking", "stopping", "swapping"} -> todo
      [] OTHER -> {}
Closed == stopped => \A r \in Ids : Around(r) /\ state[r] = "queued" => r \in Left

KnownInv == Abandoned /\ Unanswered /\ InCall /\ Tracked /\ Found /\ Known /\ Closed

\* The entry was still there, or the guard did not interrupt a call.
LEMMA RemovePendingKnows == ASSUME RemoteInv, RemoteInv', KnownInv, RemovePending PROVE KnownInv'
  <1> USE DEF KnownInv
  <1>1. /\ handAt = "removing" /\ handAt' \in {"free", "cancelling"} /\ pending' = pending \ {handId}
        /\ UNCHANGED <<nextId, caller, reply, state, invokes, workerAt, workerId, stopped, job, last, heard>>
        /\ uncertain \subseteq uncertain'
        /\ handId \in pending /\ prev = "dispatched" => handId \in uncertain'
    BY DEF RemovePending, Free, callers, worker, stop
  <1>2. \A x \in Ids : Around(x)' => Around(x)
    BY <1>1 DEF Around
  <1>3. handId \in Ids /\ state[handId] \in {"abandoned", "finished"}
    BY <1>1 DEF Abandoned, RemoteInv, Shape
  <1>4. Abandoned' /\ Unanswered' /\ InCall' /\ Found'
    BY <1>1, <1>2 DEF Abandoned, Unanswered, InCall, Found, Interrupting
  <1>5. Tracked'
    BY <1>1, <1>2, <1>3 DEF Tracked
  <1>6. Known'
    <2> SUFFICES ASSUME job = "none", NEW w \in Workers, workerAt[w] = "calling",
                        state[workerId[w]] = "abandoned"
                 PROVE  workerId[w] \in uncertain' \union heard \union last
      BY <1>1 DEF Known
    <2>1. CASE Interrupting /\ handId = workerId[w]
      BY <1>1, <2>1 DEF Found, Interrupting, Calling
    <2>2. CASE ~(Interrupting /\ handId = workerId[w])
      BY <1>1, <2>2 DEF Known
    <2> QED BY <2>1, <2>2
  <1>7. Closed'
    <2>1. Left = {}
      BY <1>1 DEF Left
    <2>2. stopped => \A x \in Ids : ~(Around(x) /\ state[x] = "queued")
      BY <2>1 DEF Closed
    <2> QED BY <1>1, <1>2, <2>2 DEF Closed
  <1> QED BY <1>4, <1>5, <1>6, <1>7

\* A new request is pending and its caller waits.
LEMMA InvokeKnows == ASSUME RemoteInv, RemoteInv', KnownInv, Invoke PROVE KnownInv'
  <1> USE DEF KnownInv
  <1>1. /\ handAt = "free" /\ ~stopped /\ nextId \in Ids /\ pending \subseteq pending'
        /\ UNCHANGED <<reply, state, uncertain, workerAt, workerId, handAt, handId, prev, todo,
                      stopped, job, last, heard>>
    BY DEF Invoke, worker, hand, stop
  <1>2. \/ invokes' = invokes /\ caller' = [caller EXCEPT ![nextId] = "refused"]
        \/ /\ invokes' = Append(invokes, nextId) /\ caller' = [caller EXCEPT ![nextId] = "waiting"]
           /\ nextId \in pending'
    BY DEF Invoke
  <1>3. invokes \in Seq(Ids)
    BY DEF RemoteInv, Shape
  <1>4. ~Around(nextId)
    BY <1>1 DEF Around, RemoteInv, Shape, Distinct, Active, Phases, Ids
  <1>5. \A x \in Ids : Around(x)' => Around(x) \/ (x = nextId /\ caller'[x] = "waiting" /\ x \in pending')
    <2>1. CASE invokes' = invokes
      BY <1>1, <2>1 DEF Around
    <2>2. CASE invokes' = Append(invokes, nextId) /\ nextId \in pending' /\ caller'[nextId] = "waiting"
      <3>1. \A i \in DOMAIN invokes' : invokes'[i] = nextId \/ (i \in DOMAIN invokes /\ invokes[i] = invokes'[i])
        BY <1>1, <1>3, <2>2, Appended
      <3> QED BY <1>1, <2>2, <3>1 DEF Around
    <2> QED BY <1>1, <1>2, <2>1, <2>2 DEF Abandoned
  <1>6. Abandoned'
    <2>1. nextId' = nextId + 1 /\ nextId \in Nat
      BY <1>1 DEF Invoke, Ids
    <2>2. caller[nextId] = "none"
      BY <1>1, <2>1 DEF Abandoned, Ids
    <2>3. \A r \in Ids : r >= nextId' => caller'[r] = "none"
      <3>1. \A r \in Ids : r >= nextId + 1 => r >= nextId /\ r # nextId
        BY <2>1 DEF Ids
      <3> QED BY <1>2, <2>1, <3>1 DEF Abandoned
    <2> QED BY <1>1, <1>2, <2>2, <2>3 DEF Abandoned
  <1>7. Unanswered'
    <2>1. caller[nextId] = "none"
      BY <1>1 DEF Abandoned, Ids
    <2> QED BY <1>1, <1>2, <1>5, <2>1 DEF Unanswered, Abandoned
  <1>8. InCall' /\ Found' /\ Known' /\ Closed'
    BY <1>1 DEF InCall, Found, Interrupting, Calling, Known, Closed
  <1>9. Tracked'
    BY <1>1, <1>5 DEF Tracked
  <1> QED BY <1>6, <1>7, <1>8, <1>9

\* The guard's own steps: what is pending when the tables are locked is marked next.
LEMMA HandKnows ==
  ASSUME RemoteInv, RemoteInv', KnownInv, SpawnCancel \/ LockTables \/ UnlockTables
  PROVE  KnownInv'
  <1> USE DEF KnownInv, SpawnCancel, LockTables, UnlockTables, Free, callers, tables, stop, worker
  <1>0. \A x \in Ids : Around(x)' => Around(x)
    BY DEF Around, RemoteInv, Shape
  <1>1. Abandoned'
    BY DEF Abandoned, RemoteInv, Shape, States
  <1>2. Unanswered'
    BY <1>0 DEF Unanswered, Abandoned, Around, RemoteInv, Shape, Distinct, Active, Phases
  <1>3. InCall'
    BY DEF InCall, RemoteInv, Shape, Distinct, Active, Phases
  <1>4. Tracked'
    BY <1>0 DEF Tracked, Abandoned, Around, RemoteInv, Shape, Distinct, Active, Phases
  <1>5. Found'
    BY DEF Found, Interrupting, Calling, Tracked, Around, RemoteInv, Shape, Distinct, Active, Phases
  <1>6. Known'
    BY DEF Known, Found, InCall, Interrupting, Calling, Stopping, Abandoned, RemoteInv, Shape, Distinct, Active, Phases
  <1>7. Closed'
    <2>1. CASE SpawnCancel
      BY <1>0, <2>1 DEF Closed, Left, Tracked, Stopping, Abandoned, Around, RemoteInv, Shape,
                        Distinct, Active, Phases
    <2>2. CASE LockTables
      BY <1>0, <2>2 DEF Closed, Left, Tracked, Stopping, Abandoned, Around, RemoteInv, Shape,
                        Distinct, Active, Phases
    <2>3. CASE UnlockTables
      BY <1>0, <2>3 DEF Closed, Left, Tracked, Stopping, Abandoned, Around, RemoteInv, Shape,
                        Distinct, Active, Phases
    <2> QED BY <2>1, <2>2, <2>3
  <1> QED BY <1>1, <1>2, <1>3, <1>4, <1>5, <1>6, <1>7

\* What is in flight when the Generation closes is marked uncertain.
LEMMA MarkKnows ==
  ASSUME RemoteInv, RemoteInv', KnownInv, Mark
  PROVE  KnownInv'
  <1> USE DEF KnownInv, Mark, First, callers, stop, worker
  <1>0. \A x \in Ids : Around(x)' => Around(x)
    BY DEF Around, RemoteInv, Shape
  <1>1. Abandoned'
    BY DEF Abandoned, RemoteInv, Shape, States
  <1>2. Unanswered'
    BY <1>0 DEF Unanswered, Abandoned, Around, RemoteInv, Shape, Distinct, Active, Phases
  <1>3. InCall'
    BY DEF InCall, RemoteInv, Shape, Distinct, Active, Phases
  <1>4. Tracked'
    BY <1>0 DEF Tracked, Abandoned, Around, RemoteInv, Shape, Distinct, Active, Phases
  <1>5. Found'
    BY DEF Found, Interrupting, Calling, Tracked, Around, RemoteInv, Shape, Distinct, Active, Phases
  <1>6. Known'
    BY DEF Known, Found, InCall, Interrupting, Calling, Stopping, Abandoned, RemoteInv, Shape, Distinct, Active, Phases
  <1>7. Closed'
    BY <1>0 DEF Closed, Left, Tracked, Stopping, Abandoned, Around, RemoteInv, Shape,
               Distinct, Active, Phases
  <1> QED BY <1>1, <1>2, <1>3, <1>4, <1>5, <1>6, <1>7

\* Who is pending is taken along, to be abandoned.
LEMMA BeginStopKnows ==
  ASSUME RemoteInv, RemoteInv', KnownInv, BeginStop
  PROVE  KnownInv'
  <1> USE DEF KnownInv, BeginStop, callers, worker
  <1>0. \A x \in Ids : Around(x)' => Around(x)
    BY DEF Around, RemoteInv, Shape
  <1>1. Abandoned'
    BY DEF Abandoned, RemoteInv, Shape, States
  <1>2. Unanswered'
    BY <1>0 DEF Unanswered, Abandoned, Around, RemoteInv, Shape, Distinct, Active, Phases
  <1>3. InCall'
    BY DEF InCall, RemoteInv, Shape, Distinct, Active, Phases
  <1>4. Tracked'
    BY <1>0 DEF Tracked, Abandoned, Around, RemoteInv, Shape, Distinct, Active, Phases
  <1>5. Found'
    BY DEF Found, Interrupting, Calling, Tracked, Around, RemoteInv, Shape, Distinct, Active, Phases
  <1>6. Known'
    BY DEF Known, Found, InCall, Interrupting, Calling, Stopping, Abandoned, RemoteInv, Shape, Distinct, Active, Phases
  <1>7. Closed'
    BY <1>0 DEF Closed, Left, Tracked, Stopping, Abandoned, Around, RemoteInv, Shape,
               Distinct, Active, Phases
  <1> QED BY <1>1, <1>2, <1>3, <1>4, <1>5, <1>6, <1>7

\* begin_stop abandons what it has taken and keeps what was in flight.
LEMMA SwapKnows ==
  ASSUME RemoteInv, RemoteInv', KnownInv, TakeUncertain \/ Swap \/ StartJob
  PROVE  KnownInv'
  <1> USE DEF KnownInv, TakeUncertain, Swap, StartJob, First, callers, tables, worker
  <1>0. \A x \in Ids : Around(x)' => Around(x)
    BY DEF Around, RemoteInv, Shape
  <1>1. Abandoned'
    BY DEF Abandoned, RemoteInv, Shape, States
  <1>2. Unanswered'
    BY <1>0 DEF Unanswered, Abandoned, Around, RemoteInv, Shape, Distinct, Active, Phases
  <1>3. InCall'
    BY DEF InCall, RemoteInv, Shape, Distinct, Active, Phases
  <1>4. Tracked'
    BY <1>0 DEF Tracked, Abandoned, Around, RemoteInv, Shape, Distinct, Active, Phases
  <1>5. Found'
    BY DEF Found, Interrupting, Calling, Tracked, Around, RemoteInv, Shape, Distinct, Active, Phases
  <1>6. Known'
    BY DEF Known, Found, InCall, Interrupting, Calling, Stopping, Abandoned, RemoteInv, Shape, Distinct, Active, Phases
  <1>7. Closed'
    <2>1. CASE TakeUncertain
      BY <1>0, <2>1 DEF Closed, Left, Tracked, Stopping, Abandoned, Around, RemoteInv, Shape,
                        Distinct, Active, Phases
    <2>2. CASE Swap
      BY <1>0, <2>2 DEF Closed, Left, Tracked, Stopping, Abandoned, Around, RemoteInv, Shape,
                        Distinct, Active, Phases
    <2>3. CASE StartJob
      BY <1>0, <2>3 DEF Closed, Left, Tracked, Stopping, Abandoned, Around, RemoteInv, Shape,
                        Distinct, Active, Phases
    <2> QED BY <2>1, <2>2, <2>3
  <1> QED BY <1>1, <1>2, <1>3, <1>4, <1>5, <1>6, <1>7

\* The shutdown job begins when begin_stop is over.
LEMMA JobKnows ==
  ASSUME RemoteInv, RemoteInv', KnownInv, RaiseInvoke \/ RaiseCancel \/ (\E r \in Ids : PostLast(r)) \/ EndCancels \/ Joined
  PROVE  KnownInv'
  <1> USE DEF KnownInv, RaiseInvoke, RaiseCancel, PostLast, EndCancels, Joined, callers, tables, hand, worker
  <1>0. \A x \in Ids : Around(x)' => Around(x)
    BY DEF Around, RemoteInv, Shape
  <1>1. Abandoned'
    BY DEF Abandoned, RemoteInv, Shape, States
  <1>2. Unanswered'
    BY <1>0 DEF Unanswered, Abandoned, Around, RemoteInv, Shape, Distinct, Active, Phases
  <1>3. InCall'
    BY DEF InCall, RemoteInv, Shape, Distinct, Active, Phases
  <1>4. Tracked'
    BY <1>0 DEF Tracked, Abandoned, Around, RemoteInv, Shape, Distinct, Active, Phases
  <1>5. Found'
    BY DEF Found, Interrupting, Calling, Tracked, Around, RemoteInv, Shape, Distinct, Active, Phases
  <1>6. Known'
    BY DEF Known, Found, InCall, Interrupting, Calling, Stopping, Abandoned, RemoteInv, Shape, Distinct, Active, Phases
  <1>7. Closed'
    BY <1>0 DEF Closed, Left, Tracked, Stopping, Abandoned, Around, RemoteInv, Shape,
               Distinct, Active, Phases
  <1> QED BY <1>1, <1>2, <1>3, <1>4, <1>5, <1>6, <1>7

\* A request that is answered is not around.
LEMMA HearKnows ==
  ASSUME RemoteInv, RemoteInv', KnownInv, NEW r \in Ids, Hear(r)
  PROVE  KnownInv'
  <1> USE DEF KnownInv, Hear, tables, hand, stop, worker
  <1>0. \A x \in Ids : Around(x)' => Around(x)
    BY DEF Around, RemoteInv, Shape
  <1>1. Abandoned'
    BY DEF Abandoned, RemoteInv, Shape, States
  <1>2. Unanswered'
    BY <1>0 DEF Unanswered, Abandoned, Around, RemoteInv, Shape, Distinct, Active, Phases
  <1>3. InCall'
    BY DEF InCall, RemoteInv, Shape, Distinct, Active, Phases
  <1>4. Tracked'
    BY <1>0 DEF Tracked, Abandoned, Around, RemoteInv, Shape, Distinct, Active, Phases
  <1>5. Found'
    BY DEF Found, Interrupting, Calling, Tracked, Around, RemoteInv, Shape, Distinct, Active, Phases
  <1>6. Known'
    BY DEF Known, Found, InCall, Interrupting, Calling, Stopping, Abandoned, RemoteInv, Shape, Distinct, Active, Phases
  <1>7. Closed'
    BY <1>0 DEF Closed, Left, Tracked, Stopping, Abandoned, Around, RemoteInv, Shape,
               Distinct, Active, Phases
  <1> QED BY <1>1, <1>2, <1>3, <1>4, <1>5, <1>6, <1>7

\* The guard that interrupts a call finds its entry.
LEMMA GiveUpKnows ==
  ASSUME RemoteInv, RemoteInv', KnownInv, NEW r \in Ids, GiveUp(r)
  PROVE  KnownInv'
  <1> USE DEF KnownInv, GiveUp, tables, stop, worker
  <1>0. \A x \in Ids : Around(x)' => Around(x)
    BY DEF Around, RemoteInv, Shape
  <1>1. Abandoned'
    BY DEF Abandoned, RemoteInv, Shape, States
  <1>2. Unanswered'
    BY <1>0 DEF Unanswered, Abandoned, Around, RemoteInv, Shape, Distinct, Active, Phases
  <1>3. InCall'
    BY DEF InCall, RemoteInv, Shape, Distinct, Active, Phases
  <1>4. Tracked'
    BY <1>0 DEF Tracked, Abandoned, Around, RemoteInv, Shape, Distinct, Active, Phases
  <1>5. Found'
    BY DEF Found, Interrupting, Calling, Tracked, Around, RemoteInv, Shape, Distinct, Active, Phases
  <1>6. Known'
    BY DEF Known, Found, InCall, Interrupting, Calling, Stopping, Abandoned, RemoteInv, Shape, Distinct, Active, Phases
  <1>7. Closed'
    BY <1>0 DEF Closed, Left, Tracked, Stopping, Abandoned, Around, RemoteInv, Shape,
               Distinct, Active, Phases
  <1> QED BY <1>1, <1>2, <1>3, <1>4, <1>5, <1>6, <1>7

\* The worker takes what was in the queue.
LEMMA ReceiveKnows ==
  ASSUME RemoteInv, RemoteInv', KnownInv, NEW w \in Workers, Receive(w)
  PROVE  KnownInv'
  <1> USE DEF KnownInv, Receive, callers, tables, hand, stop, worker
  <1>0. \A x \in Ids : Around(x)' => Around(x)
    BY DEF Around, RemoteInv, Shape
  <1>1. Abandoned'
    BY DEF Abandoned, RemoteInv, Shape, States
  <1>2. Unanswered'
    BY <1>0 DEF Unanswered, Abandoned, Around, RemoteInv, Shape, Distinct, Active, Phases
  <1>3. InCall'
    BY DEF InCall, RemoteInv, Shape, Distinct, Active, Phases
  <1>4. Tracked'
    BY <1>0 DEF Tracked, Abandoned, Around, RemoteInv, Shape, Distinct, Active, Phases
  <1>5. Found'
    BY DEF Found, Interrupting, Calling, Tracked, Around, RemoteInv, Shape, Distinct, Active, Phases
  <1>6. Known'
    BY DEF Known, Found, InCall, Interrupting, Calling, Stopping, Abandoned, RemoteInv, Shape, Distinct, Active, Phases
  <1>7. Closed'
    BY <1>0 DEF Closed, Left, Tracked, Stopping, Abandoned, Around, RemoteInv, Shape,
               Distinct, Active, Phases
  <1> QED BY <1>1, <1>2, <1>3, <1>4, <1>5, <1>6, <1>7

\* Only what nobody holds any longer is closed.
LEMMA ExitKnows ==
  ASSUME RemoteInv, RemoteInv', KnownInv, NEW w \in Workers, Exit(w)
  PROVE  KnownInv'
  <1> USE DEF KnownInv, Exit, callers, tables, hand, stop, Replies, worker
  <1>0. \A x \in Ids : Around(x)' => Around(x)
    BY DEF Around, RemoteInv, Shape
  <1>1. Abandoned'
    BY DEF Abandoned, RemoteInv, Shape, States
  <1>2. Unanswered'
    BY <1>0 DEF Unanswered, Abandoned, Around, RemoteInv, Shape, Distinct, Active, Phases
  <1>3. InCall'
    BY DEF InCall, RemoteInv, Shape, Distinct, Active, Phases
  <1>4. Tracked'
    BY <1>0 DEF Tracked, Abandoned, Around, RemoteInv, Shape, Distinct, Active, Phases
  <1>5. Found'
    BY DEF Found, Interrupting, Calling, Tracked, Around, RemoteInv, Shape, Distinct, Active, Phases
  <1>6. Known'
    BY DEF Known, Found, InCall, Interrupting, Calling, Stopping, Abandoned, RemoteInv, Shape, Distinct, Active, Phases
  <1>7. Closed'
    BY <1>0 DEF Closed, Left, Tracked, Stopping, Abandoned, Around, RemoteInv, Shape,
               Distinct, Active, Phases
  <1> QED BY <1>1, <1>2, <1>3, <1>4, <1>5, <1>6, <1>7

\* A request that is dispatched is pending, and its caller waits.
LEMMA DispatchKnows ==
  ASSUME RemoteInv, RemoteInv', KnownInv, NEW w \in Workers, Dispatch(w)
  PROVE  KnownInv'
  <1> USE DEF KnownInv, Dispatch, Moves, callers, tables, hand, stop, worker
  <1>0. \A x \in Ids : Around(x)' => Around(x)
    BY DEF Around, RemoteInv, Shape
  <1>1. Abandoned'
    BY DEF Abandoned, RemoteInv, Shape, States
  <1>2. Unanswered'
    BY <1>0 DEF Unanswered, Abandoned, Around, RemoteInv, Shape, Distinct, Active, Phases
  <1>3. InCall'
    BY DEF InCall, RemoteInv, Shape, Distinct, Active, Phases
  <1>4. Tracked'
    BY <1>0 DEF Tracked, Abandoned, Around, RemoteInv, Shape, Distinct, Active, Phases
  <1>5. Found'
    BY DEF Found, Interrupting, Calling, Tracked, Around, RemoteInv, Shape, Distinct, Active, Phases
  <1>6. Known'
    BY DEF Known, Found, InCall, Interrupting, Calling, Stopping, Abandoned, RemoteInv, Shape, Distinct, Active, Phases
  <1>7. Closed'
    BY <1>0 DEF Closed, Left, Tracked, Stopping, Abandoned, Around, RemoteInv, Shape,
               Distinct, Active, Phases
  <1> QED BY <1>1, <1>2, <1>3, <1>4, <1>5, <1>6, <1>7

\* A call ends with its worker's own request.
LEMMA CallKnows ==
  ASSUME RemoteInv, RemoteInv', KnownInv, NEW w \in Workers, Check(w) \/ Expire(w) \/ Skip(w) \/ FinishCall(w)
  PROVE  KnownInv'
  <1> USE DEF KnownInv, Check, Expire, Skip, FinishCall, Moves, callers, tables, hand, stop, worker
  <1>0. \A x \in Ids : Around(x)' => Around(x)
    BY DEF Around, RemoteInv, Shape
  <1>1. Abandoned'
    BY DEF Abandoned, RemoteInv, Shape, States
  <1>2. Unanswered'
    BY <1>0 DEF Unanswered, Abandoned, Around, RemoteInv, Shape, Distinct, Active, Phases
  <1>3. InCall'
    BY DEF InCall, RemoteInv, Shape, Distinct, Active, Phases
  <1>4. Tracked'
    BY <1>0 DEF Tracked, Abandoned, Around, RemoteInv, Shape, Distinct, Active, Phases
  <1>5. Found'
    BY DEF Found, Interrupting, Calling, Tracked, Around, RemoteInv, Shape, Distinct, Active, Phases
  <1>6. Known'
    BY DEF Known, Found, InCall, Interrupting, Calling, Stopping, Abandoned, RemoteInv, Shape, Distinct, Active, Phases
  <1>7. Closed'
    <2>1. CASE Check(w)
      BY <1>0, <2>1 DEF Closed, Left, Tracked, Stopping, Abandoned, Around, RemoteInv, Shape,
                        Distinct, Active, Phases
    <2>2. CASE Expire(w)
      BY <1>0, <2>2 DEF Closed, Left, Tracked, Stopping, Abandoned, Around, RemoteInv, Shape,
                        Distinct, Active, Phases
    <2>3. CASE Skip(w)
      BY <1>0, <2>3 DEF Closed, Left, Tracked, Stopping, Abandoned, Around, RemoteInv, Shape,
                        Distinct, Active, Phases
    <2>4. CASE FinishCall(w)
      BY <1>0, <2>4 DEF Closed, Left, Tracked, Stopping, Abandoned, Around, RemoteInv, Shape,
                        Distinct, Active, Phases
    <2> QED BY <2>1, <2>2, <2>3, <2>4
  <1> QED BY <1>1, <1>2, <1>3, <1>4, <1>5, <1>6, <1>7

\* A worker removes the entries of a call that is over.
LEMMA FinishKnows ==
  ASSUME RemoteInv, RemoteInv', KnownInv, NEW w \in Workers, Unpend(w) \/ Unmark(w) \/ Answer(w)
  PROVE  KnownInv'
  <1> USE DEF KnownInv, Unpend, Unmark, Answer, Moves, Replies, callers, tables, hand, stop, worker
  <1>0. \A x \in Ids : Around(x)' => Around(x)
    BY DEF Around, RemoteInv, Shape
  <1>1. Abandoned'
    BY DEF Abandoned, RemoteInv, Shape, States
  <1>2. Unanswered'
    BY <1>0 DEF Unanswered, Abandoned, Around, RemoteInv, Shape, Distinct, Active, Phases
  <1>3. InCall'
    BY DEF InCall, RemoteInv, Shape, Distinct, Active, Phases
  <1>4. Tracked'
    BY <1>0 DEF Tracked, Abandoned, Around, RemoteInv, Shape, Distinct, Active, Phases
  <1>5. Found'
    BY DEF Found, Interrupting, Calling, Tracked, Around, RemoteInv, Shape, Distinct, Active, Phases
  <1>6. Known'
    BY DEF Known, Found, InCall, Interrupting, Calling, Stopping, Abandoned, RemoteInv, Shape, Distinct, Active, Phases
  <1>7. Closed'
    <2>1. CASE Unpend(w)
      BY <1>0, <2>1 DEF Closed, Left, Tracked, Stopping, Abandoned, Around, RemoteInv, Shape,
                        Distinct, Active, Phases
    <2>2. CASE Unmark(w)
      BY <1>0, <2>2 DEF Closed, Left, Tracked, Stopping, Abandoned, Around, RemoteInv, Shape,
                        Distinct, Active, Phases
    <2>3. CASE Answer(w)
      BY <1>0, <2>3 DEF Closed, Left, Tracked, Stopping, Abandoned, Around, RemoteInv, Shape,
                        Distinct, Active, Phases
    <2> QED BY <2>1, <2>2, <2>3
  <1> QED BY <1>1, <1>2, <1>3, <1>4, <1>5, <1>6, <1>7

\* A cancellation that was posted is no longer uncertain: it was heard.
LEMMA CancellerKnows ==
  ASSUME RemoteInv, RemoteInv', KnownInv, NEW v \in Cancellers, Canceller(v)
  PROVE  KnownInv'
  <1> USE DEF KnownInv, Canceller, ReceiveCancel, ExitCancel, PostCancel, EndCancel, callers, hand, stop, tables, InFlight, worker
  <1>0. \A x \in Ids : Around(x)' => Around(x)
    BY DEF Around, RemoteInv, Shape
  <1>1. Abandoned'
    BY DEF Abandoned, RemoteInv, Shape, States
  <1>2. Unanswered'
    BY <1>0 DEF Unanswered, Abandoned, Around, RemoteInv, Shape, Distinct, Active, Phases
  <1>3. InCall'
    BY DEF InCall, RemoteInv, Shape, Distinct, Active, Phases
  <1>4. Tracked'
    BY <1>0 DEF Tracked, Abandoned, Around, RemoteInv, Shape, Distinct, Active, Phases
  <1>5. Found'
    BY DEF Found, Interrupting, Calling, Tracked, Around, RemoteInv, Shape, Distinct, Active, Phases
  <1>6. Known'
    BY DEF Known, Found, InCall, Interrupting, Calling, Stopping, Abandoned, RemoteInv, Shape, Distinct, Active, Phases
  <1>7. Closed'
    BY <1>0 DEF Closed, Left, Tracked, Stopping, Abandoned, Around, RemoteInv, Shape,
               Distinct, Active, Phases
  <1> QED BY <1>1, <1>2, <1>3, <1>4, <1>5, <1>6, <1>7

-----------------------------------------------------------------------------
\* Nothing has been asked yet.
LEMMA KnownInitially == Init => KnownInv
  <1> SUFFICES ASSUME Init PROVE KnownInv
    OBVIOUS
  <1>1. DOMAIN invokes = {}
    BY EmptySeq DEF Init
  <1> QED
    BY <1>1 DEF Init, KnownInv, Abandoned, Unanswered, InCall, Tracked, Found, Interrupting, Known,
                Closed, Around

\* No step breaks the second invariant.
LEMMA KnownStep == RemoteInv /\ RemoteInv' /\ KnownInv /\ [Next]_vars => KnownInv'
  <1> SUFFICES ASSUME RemoteInv, RemoteInv', KnownInv, [Next]_vars PROVE KnownInv'
    OBVIOUS
  <1>1. CASE Invoke \/ BeginStop \/ Hand \/ Shutdown
    BY <1>1, InvokeKnows, BeginStopKnows, RemovePendingKnows, HandKnows, MarkKnows, SwapKnows,
       JobKnows DEF Hand, Shutdown
  <1>2. CASE \E r \in Ids : Caller(r)
    BY <1>2, HearKnows, GiveUpKnows DEF Caller
  <1>3. CASE \E w \in Workers : Worker(w)
    BY <1>3, ReceiveKnows, ExitKnows, DispatchKnows, CallKnows, FinishKnows DEF Worker
  <1>4. CASE \E v \in Cancellers : Canceller(v)
    BY <1>4, CancellerKnows
  <1>5. CASE UNCHANGED vars
    BY <1>5 DEF vars, KnownInv, Abandoned, Unanswered, InCall, Tracked, Found, Interrupting,
                Calling, Known, Closed, Left, Around
  <1> QED BY <1>1, <1>2, <1>3, <1>4, <1>5 DEF Next

\* The second invariant, in every state.
LEMMA KnownInvariance == Spec => []KnownInv
  BY RemoteInvariance, KnownInitially, KnownStep, PTL DEF Spec

\* A call that goes on without its caller is uncertain, has heard of its cancellation, or will
\* hear of it from the shutdown job, whatever order guards, workers and shutdown come in.
THEOREM OrphansStayKnown == Spec => []OrphansKnown
  <1>1. RemoteInv /\ KnownInv => OrphansKnown
    <2> SUFFICES ASSUME RemoteInv, KnownInv, NEW w \in Workers, workerAt[w] = "calling",
                        caller[workerId[w]] = "gone", job = "none",
                        ~(handAt = "removing" /\ handId = workerId[w])
                 PROVE  workerId[w] \in uncertain \union heard \union last
      BY DEF OrphansKnown
    <2>1. workerId[w] \in Ids
      BY DEF RemoteInv, Shape, Active, Phases
    <2>2. state[workerId[w]] = "abandoned"
      BY <2>1 DEF KnownInv, Abandoned, InCall
    <2> QED BY <2>2 DEF KnownInv, Known, Interrupting
  <1> QED BY <1>1, RemoteInvariance, KnownInvariance, PTL

\* Nothing is posted for a caller that has gone, nor once the Generation is closed, by begin_stop
\* or because cancellations pile up.
THEOREM ClosedStaysClosed == Spec => ClosedMeansClosed
  <1>1. ASSUME RemoteInv, KnownInv, [Next]_vars, NEW r \in Ids,
               state[r] # "dispatched", state'[r] = "dispatched"
        PROVE  caller[r] = "waiting" /\ ~(stopped /\ handAt = "free")
    <2>1. PICK w \in Workers : Dispatch(w) /\ r = workerId[w]
      <3>1. state \in [Ids -> States] /\ state # state'
        BY <1>1 DEF RemoteInv, Shape
      <3>2. CASE Hand
        BY <1>1, <3>1, <3>2
        DEF Hand, RemovePending, SpawnCancel, LockTables, Mark, UnlockTables, TakeUncertain, Swap,
            StartJob
      <3>3. CASE Invoke \/ BeginStop \/ Shutdown \/ \E v \in Cancellers : Canceller(v)
        BY <3>1, <3>3
        DEF Invoke, BeginStop, Shutdown, RaiseInvoke, RaiseCancel, PostLast, EndCancels, Joined,
            Canceller, ReceiveCancel, ExitCancel, PostCancel, EndCancel
      <3>4. ASSUME NEW q \in Ids, Caller(q) PROVE FALSE
        BY <1>1, <3>1, <3>4 DEF Caller, Hear, GiveUp
      <3>5. ASSUME NEW w \in Workers, Worker(w) PROVE Dispatch(w) /\ r = workerId[w]
        BY <1>1, <3>1, <3>5
        DEF Worker, Receive, Exit, Check, Expire, Dispatch, Skip, FinishCall, Unpend, Unmark, Answer
      <3> QED BY <1>1, <3>1, <3>2, <3>3, <3>4, <3>5 DEF Next, vars
    <2>2. Around(r) /\ state[r] = "queued"
      BY <2>1 DEF Dispatch, Moves, Around
    <2>3. handAt = "free" => Left = {}
      BY DEF Left
    <2>4. caller[r] = "waiting"
      BY <1>1, <2>2 DEF KnownInv, Unanswered
    <2>5. stopped => r \in Left
      BY <1>1, <2>2 DEF KnownInv, Closed
    <2> QED BY <2>3, <2>4, <2>5
  <1>2. RemoteInv /\ KnownInv /\ [Next]_vars =>
          [\A r \in Ids : state[r] # "dispatched" /\ state'[r] = "dispatched"
               => caller[r] = "waiting" /\ ~(stopped /\ handAt = "free")]_vars
    BY <1>1
  <1> QED BY <1>2, RemoteInvariance, KnownInvariance, PTL DEF Spec, ClosedMeansClosed

-----------------------------------------------------------------------------
(* The event runner of a Worker                                             *)

\* Events of a generation, from admission to the end of their finalizer.
Underway == {"preparing", "started", "open", "settled", "cleaning"}
Unsettled == {"preparing", "started", "open"}

EventShape ==
  /\ instance \in [generation: Nat, initialized: BOOLEAN, unavailable: BOOLEAN, admitted: Nat]
  /\ fenced \in BOOLEAN
  /\ armed \subseteq Events /\ at \in [Events -> Places] /\ born \in [Events -> Nat]

\* The events that are pending are those of the generation; who has no outcome is one of them.
Pending ==
  /\ admittedNow = {e \in Events : at[e] \in Underway /\ born[e] = instance.generation}
  /\ \A e \in Events : born[e] <= instance.generation
  /\ \A e \in Events : at[e] \in Unsettled => born[e] = instance.generation
  /\ \A e \in Events : at[e] = "late" => born[e] # instance.generation

\* A quarantine waits for the events of abandoned generations, and no other thing does.
Quarantine ==
  /\ owners = {e \in Events : Stale(e)}
  /\ ~fenced => owners = {}
  /\ fenced /\ instance.initialized /\ overdue = {} => owners # {}

\* A generation is closed for a quarantine or a failed reset, and has no events then.
ClosedGeneration ==
  /\ instance.unavailable <=> fenced \/ ~instance.initialized
  /\ instance.unavailable => admittedNow = {}
  /\ instance.unavailable /\ instance.initialized => instance.admitted = 0

\* A watchdog outlives its event only if its session was cancelled during its cleanup.
Watched == \A e \in armed : at[e] \in Unsettled \cup {"settled"} \/ e \in overdue

EventInv == EventShape /\ Pending /\ Quarantine /\ ClosedGeneration /\ Watched /\ RetiresWhenIdle

\* A runner that has begun is in order.
LEMMA EventsInitially == RunnerInit => EventInv
  <1> SUFFICES ASSUME RunnerInit PROVE EventInv
    OBVIOUS
  <1>1. EventShape
    BY DEF RunnerInit, EventShape, Places
  <1>2. /\ instance.generation = 1 /\ instance.initialized /\ ~instance.unavailable
        /\ instance.admitted = 0 /\ \A e \in Events : at[e] = "new" /\ born[e] = 0
    BY DEF RunnerInit
  <1>3. Pending /\ Quarantine /\ ClosedGeneration /\ Watched
    BY <1>2 DEF RunnerInit, Pending, Quarantine, ClosedGeneration, Watched, Underway, Unsettled, Stale
  <1>4. RetiresWhenIdle
    BY <1>2, RetirementAssumption DEF RetirementAssumption, RetiresWhenIdle
  <1> QED BY <1>1, <1>3, <1>4 DEF EventInv

\* Events of one generation may go on, as long as none comes, goes or is left late.
LEMMA EventsGoOn ==
  ASSUME EventInv, UNCHANGED <<isolate, born>>, at' \in [Events -> Places],
         \A f \in Events : at[f] \in Underway <=> at'[f] \in Underway,
         \A f \in Events : at[f] = "late" <=> at'[f] = "late",
         \A f \in Events : at'[f] \in Unsettled => at[f] \in Unsettled,
         armed' \subseteq Events, overdue \subseteq overdue', Watched'
  PROVE  EventInv'
  <1>1. EventShape' /\ Pending' /\ ClosedGeneration' /\ RetiresWhenIdle'
    BY DEF EventInv, EventShape, Pending, ClosedGeneration, RetiresWhenIdle, isolate
  <1>2. \A f \in Events : Stale(f) <=> Stale(f)'
    <2> SUFFICES ASSUME NEW f \in Events PROVE Stale(f) <=> Stale(f)'
      OBVIOUS
    <2>1. at[f] \in Places /\ at'[f] \in Places /\ born'[f] = born[f] /\ instance' = instance
      BY DEF EventInv, EventShape, isolate
    <2>2. at[f] \in Unsettled => born[f] = instance.generation
      BY DEF EventInv, Pending
    <2> QED BY <2>1, <2>2 DEF Stale, Underway, Unsettled, Places
  <1>3. Quarantine'
    BY <1>2 DEF EventInv, Quarantine, isolate
  <1> QED BY <1>1, <1>3 DEF EventInv

\* Whoever abandons a generation has an event of it, or a session whose cancellation came late.
LEMMA AbandonKeeps ==
  ASSUME EventInv, NEW e \in Events, NEW to \in Places, NEW fails \in BOOLEAN, Abandon(e, to, fails),
         \/ to = at[e] /\ at[e] # "settled" /\ (at[e] \in Unsettled \/ e \in overdue)
         \/ to = "late" /\ at[e] = "cleaning" /\ born[e] = instance.generation,
         UNCHANGED <<born, overdue>>
  PROVE  EventInv'
  <1> DEFINE moved == [at EXCEPT ![e] = to]
  <1>1. CASE fenced \/ ~instance.initialized
    <2>1. admittedNow = {}
      BY <1>1 DEF EventInv, ClosedGeneration
    <2>2. to = at[e]
      BY <2>1 DEF EventInv, Pending, Underway
    <2>3. UNCHANGED isolate /\ at' = at /\ armed' \subseteq armed
      BY <1>1, <2>2 DEF Abandon, EventInv, EventShape
    <2>4. Watched'
      BY <2>3 DEF EventInv, Watched
    <2> QED BY <2>3, <2>4, EventsGoOn DEF EventInv, EventShape
  <1>2. CASE ~fenced /\ instance.initialized
    <2>1. /\ fenced' = TRUE /\ owners' = admittedNow /\ admittedNow' = {}
          /\ at' = [f \in Events |->
               IF f \in admittedNow /\ moved[f] \in {"preparing", "started", "open"}
               THEN "settled" ELSE moved[f]]
          /\ armed' = armed \ (admittedNow \cup {e})
          /\ instance' = Rotated(TRUE, fails)
      BY <1>2 DEF Abandon
    <2>2. /\ instance' \in [generation: Nat, initialized: BOOLEAN, unavailable: BOOLEAN, admitted: Nat]
          /\ instance'.generation = instance.generation + 1 /\ instance'.unavailable
          /\ (instance'.initialized <=> ~fails) /\ (~fails => instance'.admitted = 0)
      <3>1. instance' = [generation |-> instance.generation + 1, initialized |-> ~fails,
                         unavailable |-> TRUE, admitted |-> IF fails THEN instance.admitted ELSE 0]
        BY <2>1 DEF Rotated
      <3>2. instance.generation \in Nat /\ instance.admitted \in Nat
        BY DEF EventInv, EventShape
      <3>3. CASE fails
        <4>1. instance' = [generation |-> instance.generation + 1, initialized |-> FALSE,
                           unavailable |-> TRUE, admitted |-> instance.admitted]
          BY <3>1, <3>3
        <4> QED BY <4>1, <3>2, <3>3
      <3>4. CASE ~fails
        <4>1. instance' = [generation |-> instance.generation + 1, initialized |-> TRUE,
                           unavailable |-> TRUE, admitted |-> 0]
          BY <3>1, <3>4
        <4> QED BY <4>1, <3>2, <3>4
      <3> QED BY <3>3, <3>4
    <2>3. \A f \in Events : Stale(f) => FALSE
      BY <1>2 DEF EventInv, Quarantine
    <2>4. ASSUME NEW f \in Events
          PROVE  /\ at'[f] \in Places /\ at'[f] \notin Unsettled
                 /\ f \in admittedNow <=> Stale(f)'
                 /\ at'[f] # at[f] => f \in admittedNow
      <3>1. at[f] \in Places /\ born[f] \in Nat /\ born'[f] = born[f] /\ born[f] <= instance.generation
        BY DEF EventInv, EventShape, Pending
      <3>2. f \in admittedNow <=> at[f] \in Underway /\ born[f] = instance.generation
        BY DEF EventInv, Pending
      <3>3. at[f] \in Unsettled \/ at[f] = "late" \/ at[f] \in Underway => 
              (at[f] \in Underway /\ born[f] = instance.generation)
        BY <3>1, <2>3 DEF EventInv, Pending, Stale, Unsettled, Underway, Places
      <3>4. at'[f] = IF f \in admittedNow /\ moved[f] \in Unsettled THEN "settled" ELSE moved[f]
        BY <2>1 DEF Unsettled
      <3>5. moved[f] = (IF f = e THEN to ELSE at[f])
        BY DEF EventInv, EventShape
      <3>6. instance.generation \in Nat
        BY DEF EventInv, EventShape
      <3>7. Stale(f)' <=> at'[f] \in {"settled", "cleaning", "late"}
                            /\ born[f] # instance.generation + 1
        BY <2>2, <3>1 DEF Stale
      <3> QED BY <3>1, <3>2, <3>3, <3>4, <3>5, <3>6, <3>7 DEF Unsettled, Underway, Places
    <2>5. EventShape' /\ ClosedGeneration' /\ RetiresWhenIdle'
      BY <2>1, <2>2, <2>4 DEF EventInv, EventShape, ClosedGeneration, RetiresWhenIdle
    <2>6. Pending'
      <3>1. \A f \in Events : born'[f] \in Nat /\ born'[f] <= instance.generation
        BY DEF EventInv, EventShape, Pending
      <3>2. instance.generation \in Nat /\ instance'.generation \in Nat
        BY <2>2 DEF EventInv, EventShape
      <3>3. \A f \in Events : born'[f] # instance'.generation /\ born'[f] <= instance'.generation
        BY <2>2, <3>1, <3>2
      <3> QED BY <2>1, <2>4, <3>3 DEF Pending
    <2>7. Quarantine'
      <3>1. owners' = {f \in Events : Stale(f)'}
        BY <2>1, <2>4 DEF EventInv, Pending
      <3>2. overdue = {} => e \in admittedNow
        BY DEF EventInv, Pending, Unsettled, Underway
      <3> QED BY <2>1, <3>1, <3>2 DEF Quarantine
    <2>8. Watched'
      <3>1. \A f \in armed' : f \in Events => at'[f] = at[f] /\ at[f] \notin Unsettled
        BY <2>1, <2>4 DEF EventInv, Pending, Unsettled, Underway
      <3>2. armed' \subseteq Events /\ armed' \subseteq armed
        BY <2>1 DEF EventInv, EventShape
      <3> QED BY <3>1, <3>2 DEF EventInv, Watched
    <2> QED BY <2>5, <2>6, <2>7, <2>8 DEF EventInv
  <1> QED BY <1>1, <1>2 DEF EventInv, EventShape

\* The end of one event: what is left is in order, and the last of a quarantine opens the next
\* generation.
LEMMA ReleaseKeeps ==
  ASSUME EventInv, NEW e \in Events, Release(e), at[e] \in {"cleaning", "late"},
         at' = [at EXCEPT ![e] = "done"], admittedNow' = admittedNow \ {e},
         ~instance.unavailable /\ admittedNow = {e} => instance.admitted < RetireAt,
         UNCHANGED <<born, overdue, armed>>
  PROVE  EventInv'
  <1> DEFINE opens == fenced /\ owners \ {e} = {} /\ instance.initialized
  <1>1. /\ owners' = owners \ {e} /\ fenced' = (fenced /\ ~opens)
        /\ instance' = IF opens THEN [instance EXCEPT !.unavailable = FALSE] ELSE instance
    BY DEF Release
  <1>2. /\ instance' \in [generation: Nat, initialized: BOOLEAN, unavailable: BOOLEAN, admitted: Nat]
        /\ instance'.generation = instance.generation /\ instance'.admitted = instance.admitted
        /\ instance'.initialized = instance.initialized
        /\ opens => ~instance'.unavailable
        /\ ~opens => instance' = instance
    BY <1>1 DEF EventInv, EventShape
  <1>3. /\ at' \in [Events -> Places] /\ at'[e] = "done"
        /\ \A f \in Events : f # e => at'[f] = at[f]
    BY DEF EventInv, EventShape, Places
  <1>4. EventShape'
    BY <1>1, <1>2, <1>3 DEF EventInv, EventShape
  <1>5. Pending'
    BY <1>2, <1>3 DEF EventInv, Pending, Underway, Unsettled
  <1>6. \A f \in Events : Stale(f)' <=> Stale(f) /\ f # e
    BY <1>2, <1>3 DEF Stale
  <1>7. Quarantine'
    <2>1. owners' = {f \in Events : Stale(f)'}
      BY <1>1, <1>6 DEF EventInv, Quarantine
    <2> QED BY <1>1, <1>2, <2>1 DEF EventInv, Quarantine
  <1>8. ClosedGeneration'
    BY <1>1, <1>2 DEF EventInv, ClosedGeneration
  <1>9. Watched'
    BY <1>3 DEF EventInv, Watched, EventShape, Unsettled
  <1>10. RetiresWhenIdle'
    <2>1. CASE opens
      <3>1. instance.admitted = 0
        BY <2>1 DEF EventInv, ClosedGeneration
      <3> QED BY <1>2, <3>1, RetirementAssumption DEF RetiresWhenIdle, RetirementAssumption
    <2>2. CASE ~opens
      <3>1. admittedNow' = {} => admittedNow = {} \/ admittedNow = {e}
        OBVIOUS
      <3> QED BY <1>2, <2>2, <3>1 DEF EventInv, RetiresWhenIdle
    <2> QED BY <2>1, <2>2
  <1> QED BY <1>4, <1>5, <1>7, <1>8, <1>9, <1>10 DEF EventInv

\* The end of the last event of a generation that has admitted enough.
LEMMA RetireKeeps ==
  ASSUME EventInv, NEW e \in Events, NEW fails \in BOOLEAN, at[e] = "cleaning",
         at' = [at EXCEPT ![e] = "done"], admittedNow = {e}, admittedNow' = {},
         ~instance.unavailable, instance' = Rotated(FALSE, fails),
         UNCHANGED <<fenced, owners, born, overdue, armed>>
  PROVE  EventInv'
  <1>1. /\ instance' \in [generation: Nat, initialized: BOOLEAN, unavailable: BOOLEAN, admitted: Nat]
        /\ instance'.generation = instance.generation + 1
        /\ \/ instance'.unavailable /\ ~instance'.initialized
           \/ ~instance'.unavailable /\ instance'.initialized /\ instance'.admitted = 0
    <2>1. instance' = [generation |-> instance.generation + 1, initialized |-> ~fails,
                       unavailable |-> fails, admitted |-> IF fails THEN instance.admitted ELSE 0]
      BY DEF Rotated
    <2>2. instance.generation \in Nat /\ instance.admitted \in Nat
      BY DEF EventInv, EventShape
    <2>3. CASE fails
      <3>1. instance' = [generation |-> instance.generation + 1, initialized |-> FALSE,
                         unavailable |-> TRUE, admitted |-> instance.admitted]
        BY <2>1, <2>3
      <3> QED BY ONLY <3>1, <2>2
    <2>4. CASE ~fails
      <3>1. instance' = [generation |-> instance.generation + 1, initialized |-> TRUE,
                         unavailable |-> FALSE, admitted |-> 0]
        BY <2>1, <2>4
      <3> QED BY ONLY <3>1, <2>2
    <2> QED BY <2>3, <2>4
  <1>2. /\ at' \in [Events -> Places] /\ at'[e] = "done"
        /\ \A f \in Events : f # e => at'[f] = at[f]
    BY DEF EventInv, EventShape, Places
  <1>3. ~fenced /\ owners = {}
    BY DEF EventInv, ClosedGeneration, Quarantine
  <1>4. \A f \in Events : ~Stale(f)
    BY <1>3 DEF EventInv, Quarantine
  <1>5. ASSUME NEW f \in Events
        PROVE  /\ at'[f] \notin Underway \cup {"late"} /\ ~Stale(f)'
               /\ born[f] <= instance'.generation /\ born[f] # instance'.generation
    <2>1. born[f] \in Nat /\ born[f] <= instance.generation /\ instance.generation \in Nat
      BY DEF EventInv, EventShape, Pending
    <2>2. f # e => ~(at[f] \in Underway /\ born[f] = instance.generation)
      BY DEF EventInv, Pending
    <2>3. at'[f] \notin Underway \cup {"late"}
      BY <1>2, <1>4, <2>2 DEF EventInv, Pending, Stale, Underway, Unsettled
    <2>4. born[f] <= instance'.generation /\ born[f] # instance'.generation
      BY ONLY <1>1, <2>1
    <2> QED BY <2>3, <2>4 DEF Stale, Underway
  <1>6. EventShape'
    BY <1>1, <1>2, <1>3 DEF EventInv, EventShape
  <1>7. Pending' /\ Quarantine' /\ ClosedGeneration'
    BY <1>1, <1>3, <1>5 DEF Pending, Quarantine, ClosedGeneration, Underway, Unsettled
  <1>8. Watched'
    BY <1>2 DEF EventInv, Watched, EventShape, Unsettled
  <1>9. RetiresWhenIdle'
    BY ONLY <1>1, RetirementAssumption DEF RetiresWhenIdle, RetirementAssumption
  <1> QED BY <1>6, <1>7, <1>8, <1>9 DEF EventInv

\* What an owner, a watchdog, a signal or native I/O does keeps the runner in order.
LEMMA EventStep ==
  ASSUME EventInv, [RunnerNext]_runnerVars
  PROVE  EventInv'
  <1>0. CASE UNCHANGED runnerVars
    <2>1. EventShape' /\ Pending' /\ ClosedGeneration' /\ RetiresWhenIdle' /\ Watched'
      BY <1>0 DEF EventInv, EventShape, Pending, ClosedGeneration, RetiresWhenIdle, Watched,
         runnerVars, isolate, event, history
    <2>2. \A f \in Events : Stale(f)' <=> Stale(f)
      BY <1>0 DEF Stale, runnerVars, isolate, event
    <2>3. Quarantine'
      BY <1>0, <2>2 DEF EventInv, Quarantine, runnerVars, isolate, history
    <2> QED BY <2>1, <2>3 DEF EventInv
  <1> SUFFICES ASSUME NEW e \in Events, EventNext(e) PROVE EventInv'
    BY <1>0 DEF RunnerNext
  <1> USE DEF EventInv, EventShape
  <1>1. ASSUME Refused(e) \/ Waits(e) PROVE EventInv'
    <2>1. at[e] \in {"new", "waiting"} /\ at' \in [Events -> Places]
          /\ (at'[e] \in {"waiting", "done"} /\ \A f \in Events : f # e => at'[f] = at[f])
          /\ UNCHANGED <<isolate, born, armed, overdue>>
      BY <1>1 DEF Refused, Waits, Asks, event, history, Places
    <2>2. Watched'
      BY <2>1 DEF Watched, Unsettled
    <2> QED BY <2>1, <2>2, EventsGoOn DEF Underway, Unsettled
  <1>2. ASSUME NEW p \in BOOLEAN, Admitted(e, p) PROVE EventInv'
    <2>1. /\ at[e] \in {"new", "waiting"} /\ ~instance.unavailable
          /\ at' = [at EXCEPT ![e] = IF p THEN "preparing" ELSE "started"]
          /\ instance' = [instance EXCEPT !.admitted = @ + 1]
          /\ admittedNow' = admittedNow \cup {e} /\ born' = [born EXCEPT ![e] = instance.generation]
          /\ UNCHANGED <<fenced, owners, overdue>>
          /\ armed' \subseteq armed \cup {e}
      BY <1>2 DEF Admitted, Asks, Barred, Starts, history
    <2>2. /\ at' \in [Events -> Places] /\ at'[e] \in Unsettled
          /\ born' \in [Events -> Nat] /\ born'[e] = instance.generation
          /\ \A f \in Events : f # e => at'[f] = at[f] /\ born'[f] = born[f]
      BY <2>1 DEF Places, Unsettled
    <2>3. /\ instance' \in [generation: Nat, initialized: BOOLEAN, unavailable: BOOLEAN, admitted: Nat]
          /\ instance'.generation = instance.generation
          /\ instance'.initialized = instance.initialized
          /\ instance'.unavailable = instance.unavailable
      BY <2>1
    <2>4. EventShape'
      BY <2>1, <2>2, <2>3
    <2>5. Pending'
      BY <2>1, <2>2, <2>3 DEF Pending, Underway, Unsettled
    <2>6. \A f \in Events : Stale(f)' <=> Stale(f)
      BY <2>1, <2>2, <2>3 DEF Stale, Unsettled
    <2>7. Quarantine'
      BY <2>1, <2>3, <2>6 DEF Quarantine
    <2>8. ClosedGeneration' /\ RetiresWhenIdle'
      BY <2>1, <2>3 DEF ClosedGeneration, RetiresWhenIdle
    <2>9. Watched'
      BY <2>1, <2>2 DEF Watched, Unsettled
    <2> QED BY <2>4, <2>5, <2>7, <2>8, <2>9
  <1>3. ASSUME NEW ok \in BOOLEAN, PrepareEnds(e, ok) PROVE EventInv'
    <2>1. /\ UNCHANGED <<isolate, born, overdue>> /\ armed' \subseteq armed \cup {e}
          /\ at' \in [Events -> Places] /\ \A f \in Events : f # e => at'[f] = at[f]
          /\ \/ at[e] = "preparing" /\ at'[e] \in {"started", "settled"}
             \/ at'[e] = at[e] /\ armed' = armed
      BY <1>3 DEF PrepareEnds, Starts, history, Places
    <2>2. Watched'
      BY <2>1 DEF Watched, Unsettled
    <2> QED BY <2>1, <2>2, EventsGoOn DEF Underway, Unsettled
  <1>4. ASSUME Ends(e) \/ OpensNothing(e) \/ Opens(e) PROVE EventInv'
    <2>1. /\ UNCHANGED <<isolate, born, overdue>> /\ armed' \subseteq armed
          /\ at' \in [Events -> Places] /\ \A f \in Events : f # e => at'[f] = at[f]
          /\ at[e] \in {"started", "open"} /\ at'[e] \in {"open", "settled"}
      BY <1>4 DEF Ends, OpensNothing, Opens, event, history, Places
    <2>2. Watched'
      BY <2>1 DEF Watched, Unsettled
    <2> QED BY <2>1, <2>2, EventsGoOn DEF Underway, Unsettled
  <1>5. ASSUME NEW fails \in BOOLEAN, Traps(e, fails) \/ Expires(e, fails) PROVE EventInv'
    <2>1. Abandon(e, at[e], fails) /\ at[e] # "settled" /\ UNCHANGED <<born, overdue>>
          /\ (at[e] \in Unsettled \/ e \in overdue)
      BY <1>5 DEF Traps, Expires, event, Watched, Unsettled
    <2> QED BY <2>1, AbandonKeeps
  <1>6. ASSUME NEW fails \in BOOLEAN, Aborts(e, fails) \/ Cancels(e, fails) PROVE EventInv'
    <2>1. /\ UNCHANGED <<isolate, born, at>> /\ overdue \subseteq overdue'
          /\ armed' \subseteq armed \cup {e}
          /\ armed' = armed \/ at[e] \in Unsettled \cup {"settled"} \/ e \in overdue'
      BY <1>6 DEF Aborts, Cancels, OnAbort, AbortScope, event, scope, Pending, Underway, Unsettled
    <2>2. Watched'
      BY <2>1 DEF Watched
    <2> QED BY <2>1, <2>2, EventsGoOn
  <1>7. ASSUME BeginsIo(e) \/ Rejects(e) \/ \E b \in BOOLEAN : EndsIo(e, b) PROVE EventInv'
    <2>1. UNCHANGED <<isolate, born, at, armed, overdue>>
      BY <1>7 DEF BeginsIo, Rejects, EndsIo, event, history
    <2>2. Watched'
      BY <2>1 DEF Watched
    <2> QED BY <2>1, <2>2, EventsGoOn
  <1>8. ASSUME NEW fails \in BOOLEAN, Finalizes(e, fails) PROVE EventInv'
    <2>1. /\ UNCHANGED <<isolate, born, overdue>> /\ armed' = armed \ {e}
          /\ at' \in [Events -> Places] /\ \A f \in Events : f # e => at'[f] = at[f]
          /\ at[e] = "settled" /\ at'[e] = "cleaning"
      BY <1>8 DEF Finalizes, event, Places
    <2>2. Watched'
      BY <2>1 DEF Watched, Unsettled
    <2> QED BY <2>1, <2>2, EventsGoOn DEF Underway, Unsettled
  <1>9. ASSUME NEW fails \in BOOLEAN, Confirms(e, fails) PROVE EventInv'
    <2>1. /\ at[e] = "cleaning" /\ at' = [at EXCEPT ![e] = "done"]
          /\ admittedNow' = admittedNow \ {e} /\ UNCHANGED <<armed, born, overdue>>
          /\ IF ~instance.unavailable /\ admittedNow = {e} /\ instance.admitted >= RetireAt
             THEN instance' = Rotated(FALSE, fails) /\ UNCHANGED <<fenced, owners>>
             ELSE Release(e)
      BY <1>9 DEF Confirms, Cleanable, event
    <2>2. CASE ~instance.unavailable /\ admittedNow = {e} /\ instance.admitted >= RetireAt
      <3>1. admittedNow' = {}
        BY <2>1, <2>2
      <3> QED BY <2>1, <2>2, <3>1, RetireKeeps
    <2>3. CASE ~(~instance.unavailable /\ admittedNow = {e} /\ instance.admitted >= RetireAt)
      <3>1. ~instance.unavailable /\ admittedNow = {e} => instance.admitted < RetireAt
        BY <2>3, RetirementAssumption DEF RetirementAssumption
      <3> QED BY <2>1, <2>3, <3>1, ReleaseKeeps
    <2> QED BY <2>2, <2>3
  <1>10. ASSUME NEW fails \in BOOLEAN, LeavesUncertain(e, fails) PROVE EventInv'
    <2>1. CASE born[e] = instance.generation
      <3>1. Abandon(e, "late", fails) /\ at[e] = "cleaning" /\ UNCHANGED <<born, overdue>>
        BY <1>10, <2>1 DEF LeavesUncertain, Cleanable, event
      <3> QED BY <2>1, <3>1, AbandonKeeps DEF Places
    <2>2. CASE born[e] # instance.generation
      <3>1. /\ UNCHANGED <<isolate, born, armed, overdue>> /\ at[e] = "cleaning"
            /\ at' \in [Events -> Places] /\ at'[e] = "late"
            /\ \A f \in Events : f # e => at'[f] = at[f]
        BY <1>10, <2>2 DEF LeavesUncertain, Cleanable, event, Places
      <3>2. \A f \in Events : Stale(f)' <=> Stale(f)
        BY <2>2, <3>1 DEF Stale, isolate
      <3>3. Quarantine'
        BY <3>1, <3>2 DEF Quarantine, isolate
      <3>4. EventShape' /\ ClosedGeneration' /\ RetiresWhenIdle'
        BY <3>1 DEF ClosedGeneration, RetiresWhenIdle, isolate
      <3>5. Pending'
        BY <2>2, <3>1 DEF Pending, Underway, Unsettled, isolate
      <3>6. Watched'
        BY <3>1 DEF Watched, Unsettled
      <3> QED BY <3>3, <3>4, <3>5, <3>6
    <2> QED BY <2>1, <2>2
  <1>11. ASSUME LateRelease(e) PROVE EventInv'
    <2>1. /\ at[e] = "late" /\ at' = [at EXCEPT ![e] = "done"] /\ Release(e)
          /\ UNCHANGED <<admittedNow, armed, born, overdue>>
      BY <1>11 DEF LateRelease, event, history
    <2>2. e \notin admittedNow
      BY <2>1 DEF Pending
    <2> QED BY <2>1, <2>2, ReleaseKeeps
  <1> QED BY <1>1, <1>2, <1>3, <1>4, <1>5, <1>6, <1>7, <1>8, <1>9, <1>10, <1>11 DEF EventNext

\* A Worker's events are contained, for any number of them and any limits: nothing enters a
\* generation while an event of an abandoned one may still have native I/O; admission is closed
\* only for a reason that is named; a watchdog runs for an event of the generation that it would
\* abandon; and a generation that is open and idle has admitted less than retires it.
THEOREM EventsAreContained == RunnerSpec => []EventsContained
  <1>1. EventInv => EventsContained
    <2> SUFFICES ASSUME EventInv PROVE EventsContained
      OBVIOUS
    <2> USE DEF EventInv
    <2>1. QuarantineHolds
      BY DEF QuarantineHolds, Quarantine, ClosedGeneration
    <2>2. ClosedForAReason
      BY DEF ClosedForAReason, Quarantine, ClosedGeneration
    <2>3. WatchdogsOwned
      BY DEF WatchdogsOwned, Watched, EventShape, Pending, Underway, Unsettled
    <2> QED BY <2>1, <2>2, <2>3 DEF EventsContained
  <1>2. EventInv /\ [RunnerNext]_runnerVars => EventInv'
    BY EventStep
  <1> QED BY <1>1, <1>2, EventsInitially, PTL DEF RunnerSpec
=============================================================================
