---------------------------- MODULE RemoteWorkers -----------------------------
(***************************************************************************)
(* One Remote Generation (crates/lenso-remote-adapter/src/lib.rs): callers  *)
(* on the App's thread, invoke workers that post requests, cancel workers   *)
(* that post cancellations, and the shutdown job.                           *)
(*                                                                          *)
(* They share, each under its own lock or atomic, a state word per request, *)
(* the pending table, the set of uncertain cancels and two bounded queues;  *)
(* a step below is what one thread does between two of those accesses.  The *)
(* App's thread runs one invoke, guard drop or begin_stop at a time.        *)
(***************************************************************************)
EXTENDS Naturals, Sequences, FiniteSets

CONSTANTS
    Workers,      \* REMOTE_INVOKE_WORKERS threads
    Cancellers,   \* REMOTE_CANCEL_WORKERS threads
    MaxPending,   \* limits.max_pending_requests, the size of all three tables
    MaxRequests   \* bound: requests that callers make

ASSUME RemoteAssumption ==
    /\ IsFiniteSet(Workers) /\ Workers # {}
    /\ MaxPending \in Nat \ {0} /\ MaxRequests \in Nat

VARIABLES
    nextId,       \* next_id
    caller,       \* caller[r]: how far the invoke future of request r is
    reply,        \* reply[r]: what the oneshot of r holds for its receiver: nothing, a
                  \* result ("sent"), or that its sender is dropped ("closed")
    state,        \* state[r]: the work state word
    pending,      \* the pending table's ids
    uncertain,    \* uncertain_cancels
    invokes,      \* the invoke queue
    cancels,      \* the cancel queue
    workerAt, workerId,        \* where an invoke worker is, and with which request
    cancellerAt, cancellerId,  \* the same of a cancel worker
    handAt, handId, prev, todo,\* where the App's thread is in a guard drop or begin_stop
    stopped,      \* RemoteGeneration::stopped
    halted,       \* the stop flags raised: "invoke", "cancel"
    job,          \* where the shutdown job is
    last,         \* shutdown_cancels
    heard         \* ghost: calls in flight for which a cancellation was posted

callers   == <<nextId, caller>>
tables    == <<pending, uncertain>>
worker    == <<workerAt, workerId>>
canceller == <<cancellerAt, cancellerId>>
hand      == <<handAt, handId, prev, todo>>
stop      == <<stopped, halted, job, last>>
vars      == <<nextId, caller, reply, state, pending, uncertain, invokes, cancels, workerAt,
               workerId, cancellerAt, cancellerId, handAt, handId, prev, todo, stopped, halted,
               job, last, heard>>

Ids == 1..MaxRequests

InFlight == {workerId[w] : w \in {x \in Workers : workerAt[x] = "calling"}}

Init ==
    /\ nextId = 1 /\ caller = [r \in Ids |-> "none"]
    /\ reply = [r \in Ids |-> "empty"] /\ state = [r \in Ids |-> "queued"]
    /\ pending = {} /\ uncertain = {} /\ invokes = <<>> /\ cancels = <<>>
    /\ workerAt = [w \in Workers |-> "idle"] /\ workerId = [w \in Workers |-> 0]
    /\ cancellerAt = [v \in Cancellers |-> "idle"] /\ cancellerId = [v \in Cancellers |-> 0]
    /\ handAt = "free" /\ handId = 0 /\ prev = "queued" /\ todo = {}
    /\ stopped = FALSE /\ halted = {} /\ job = "none" /\ last = {} /\ heard = {}

-----------------------------------------------------------------------------
(* The App's thread                                                         *)

\* invoke: admitted if neither the pending table nor the queue is full.  An
\* abandoned request leaves the table at once but the queue only when a worker
\* gets to it.
Invoke ==
    /\ handAt = "free" /\ ~stopped /\ nextId \in Ids
    /\ nextId' = nextId + 1
    /\ IF Cardinality(pending) < MaxPending /\ Len(invokes) < MaxPending
       THEN /\ caller' = [caller EXCEPT ![nextId] = "waiting"]
            /\ invokes' = Append(invokes, nextId)
            /\ pending' = pending \union {nextId}
       ELSE /\ caller' = [caller EXCEPT ![nextId] = "refused"]
            /\ UNCHANGED <<invokes, pending>>
    /\ UNCHANGED <<reply, state, uncertain, cancels, worker, canceller, hand, stop, heard>>

\* The response arrives, or its channel is found closed; the guard is disarmed.
\* The receiver goes with the future, here and below.
Hear(r) ==
    /\ handAt = "free" /\ caller[r] = "waiting" /\ reply[r] # "empty"
    /\ caller' = [caller EXCEPT ![r] = "answered"] /\ reply' = [reply EXCEPT ![r] = "empty"]
    /\ UNCHANGED <<nextId, state, tables, invokes, cancels, worker, canceller, hand, stop,
                   heard>>

\* The invocation is cancelled or its future dropped: the guard's drop begins.
GiveUp(r) ==
    /\ handAt = "free" /\ caller[r] = "waiting"
    /\ caller' = [caller EXCEPT ![r] = "gone"] /\ reply' = [reply EXCEPT ![r] = "empty"]
    /\ state' = [state EXCEPT ![r] = "abandoned"]
    /\ handAt' = "removing" /\ handId' = r /\ prev' = state[r]
    /\ UNCHANGED <<nextId, tables, invokes, cancels, worker, canceller, todo, stop, heard>>

\* The guard is gone and its locals with it.
Free == handAt' = "free" /\ handId' = 0 /\ prev' = "queued"

\* Mutant: it does not matter whether the entry was still there.
RemovePendingAlways ==
    /\ handAt = "removing"
    /\ pending' = pending \ {handId}
    /\ IF prev = "dispatched"
       THEN uncertain' = uncertain \union {handId} /\ handAt' = "cancelling"
            /\ UNCHANGED <<handId, prev>>
       ELSE Free /\ UNCHANGED uncertain
    /\ UNCHANGED <<callers, reply, state, invokes, cancels, worker, canceller, todo, stop, heard>>

\* Under the pending lock: a dispatched request becomes uncertain.
RemovePending ==
    /\ handAt = "removing"
    /\ pending' = pending \ {handId}
    /\ IF handId \in pending /\ prev = "dispatched"
       THEN uncertain' = uncertain \union {handId} /\ handAt' = "cancelling"
            /\ UNCHANGED <<handId, prev>>
       ELSE Free /\ UNCHANGED uncertain
    /\ UNCHANGED <<callers, reply, state, invokes, cancels, worker, canceller, todo, stop, heard>>

\* spawn_cancel: a full cancel queue closes the Generation.
SpawnCancel ==
    /\ handAt = "cancelling"
    /\ IF Len(cancels) < MaxPending
       THEN cancels' = Append(cancels, handId) /\ Free /\ UNCHANGED stopped
       ELSE stopped' = TRUE /\ handAt' = "locking" /\ UNCHANGED <<cancels, handId, prev>>
    /\ UNCHANGED <<callers, reply, state, tables, invokes, worker, canceller, todo, halted, job, last,
                   heard>>

\* Both tables are locked while everything pending is abandoned.
LockTables ==
    /\ handAt = "locking"
    /\ handAt' = "marking" /\ todo' = pending
    /\ UNCHANGED <<callers, reply, state, tables, invokes, cancels, worker, canceller, handId, prev,
                   stop, heard>>

\* The table is walked in the order of the ids.
First(r) == r \in todo /\ \A q \in todo : r <= q

Mark ==
    /\ handAt = "marking"
    /\ \E r \in todo :
           /\ First(r)
           /\ state' = [state EXCEPT ![r] = "abandoned"]
           /\ uncertain' = IF state[r] = "dispatched" THEN uncertain \union {r} ELSE uncertain
           /\ todo' = todo \ {r}
    /\ UNCHANGED <<callers, reply, pending, invokes, cancels, worker, canceller, handAt, handId,
                   prev, stop, heard>>

UnlockTables ==
    /\ handAt = "marking" /\ todo = {} /\ Free
    /\ UNCHANGED <<callers, reply, state, tables, invokes, cancels, worker, canceller, todo, stop,
                   heard>>

Locked == handAt = "marking"

\* deactivate or drop: begin_stop takes the pending table, then the uncertain
\* cancels.  A second call finds both empty and starts no job.
BeginStop ==
    /\ handAt = "free" /\ job = "none"
    /\ stopped' = TRUE /\ todo' = pending /\ pending' = {} /\ handAt' = "stopping"
    /\ UNCHANGED <<callers, reply, state, uncertain, invokes, cancels, worker, canceller, handId,
                   prev, halted, job, last, heard>>

TakeUncertain ==
    /\ handAt = "stopping"
    /\ last' = uncertain /\ uncertain' = {} /\ handAt' = "swapping"
    /\ UNCHANGED <<callers, reply, state, pending, invokes, cancels, worker, canceller, handId,
                   prev, todo, stopped, halted, job, heard>>

\* Mutant: the state is read and not replaced.
SwapReadsOnly ==
    /\ handAt = "swapping"
    /\ \E r \in todo :
           /\ First(r)
           /\ last' = IF state[r] = "dispatched" THEN last \union {r} ELSE last
           /\ todo' = todo \ {r}
    /\ UNCHANGED <<callers, reply, state, tables, invokes, cancels, worker, canceller, handAt,
                   handId, prev, stopped, halted, job, heard>>

Swap ==
    /\ handAt = "swapping"
    /\ \E r \in todo :
           /\ First(r)
           /\ state' = [state EXCEPT ![r] = "abandoned"]
           /\ last' = IF state[r] = "dispatched" THEN last \union {r} ELSE last
           /\ todo' = todo \ {r}
    /\ UNCHANGED <<callers, reply, tables, invokes, cancels, worker, canceller, handAt, handId,
                   prev, stopped, halted, job, heard>>

\* The shutdown job gets the lowest ids, as many as there are invoke workers.
StartJob ==
    /\ handAt = "swapping" /\ todo = {}
    /\ last' = {r \in last : Cardinality({q \in last : q < r}) < Cardinality(Workers)}
    /\ job' = "raising" /\ handAt' = "free"
    /\ UNCHANGED <<callers, reply, state, tables, invokes, cancels, worker, canceller, handId, prev,
                   todo, stopped, halted, heard>>

-----------------------------------------------------------------------------
(* The shutdown job                                                         *)

RaiseInvoke ==
    /\ job = "raising" /\ "invoke" \notin halted
    /\ halted' = halted \union {"invoke"}
    /\ UNCHANGED <<callers, reply, state, tables, invokes, cancels, worker, canceller, hand,
                   stopped, job, last, heard>>

RaiseCancel ==
    /\ job = "raising" /\ "invoke" \in halted
    /\ halted' = halted \union {"cancel"} /\ job' = "cancelling"
    /\ UNCHANGED <<callers, reply, state, tables, invokes, cancels, worker, canceller, hand,
                   stopped, last, heard>>

\* The two scoped threads post the cancellations, each once, whatever comes back.
PostLast(r) ==
    /\ job = "cancelling" /\ r \in last
    /\ last' = last \ {r} /\ heard' = heard \union ({r} \intersect InFlight)
    /\ UNCHANGED <<callers, reply, state, tables, invokes, cancels, worker, canceller, hand,
                   stopped, halted, job>>

EndCancels ==
    /\ job = "cancelling" /\ last = {}
    /\ job' = "joining"
    /\ UNCHANGED <<callers, reply, state, tables, invokes, cancels, worker, canceller, hand,
                   stopped, halted, last, heard>>

Joined ==
    /\ job = "joining"
    /\ \A w \in Workers : workerAt[w] = "exited"
    /\ \A v \in Cancellers : cancellerAt[v] = "exited"
    /\ job' = "done"
    /\ UNCHANGED <<callers, reply, state, tables, invokes, cancels, worker, canceller, hand,
                   stopped, halted, last, heard>>

-----------------------------------------------------------------------------
(* Invoke workers                                                           *)

\* What is sent, or its sender dropped, reaches a caller that still waits.
Replies(ids, what) ==
    reply' = [r \in Ids |-> IF r \in ids /\ caller[r] = "waiting" THEN what ELSE reply[r]]

\* A worker that looked at the flag before it was raised may still receive.
Receive(w) ==
    /\ workerAt[w] = "idle" /\ invokes # <<>>
    /\ workerAt' = [workerAt EXCEPT ![w] = "held"]
    /\ workerId' = [workerId EXCEPT ![w] = Head(invokes)]
    /\ invokes' = Tail(invokes)
    /\ UNCHANGED <<callers, reply, state, tables, cancels, canceller, hand, stop, heard>>

\* The flag is up: the worker returns and drops what it holds; the last one
\* drops the queue with everything in it.
Exit(w) ==
    /\ workerAt[w] \in {"idle", "held"} /\ "invoke" \in halted
    /\ workerAt' = [workerAt EXCEPT ![w] = "exited"] /\ workerId' = [workerId EXCEPT ![w] = 0]
    /\ LET final   == \A x \in Workers \ {w} : workerAt[x] = "exited"
           dropped == (IF workerAt[w] = "held" THEN {workerId[w]} ELSE {})
                          \union (IF final THEN {invokes[i] : i \in DOMAIN invokes} ELSE {})
       IN  /\ Replies(dropped, "closed")
           /\ invokes' = IF final THEN <<>> ELSE invokes
    /\ UNCHANGED <<callers, state, tables, cancels, canceller, hand, stop, heard>>

Moves(w, from, to) ==
    /\ workerAt[w] = from
    /\ workerAt' = [workerAt EXCEPT ![w] = to]
    /\ workerId' = [workerId EXCEPT ![w] = IF to = "idle" THEN 0 ELSE @]
    /\ UNCHANGED <<callers, invokes, cancels, canceller, hand, stop>>

\* The flag is not up: the worker goes on with what it holds.
Check(w) ==
    /\ "invoke" \notin halted
    /\ Moves(w, "held", "checked")
    /\ UNCHANGED <<reply, state, tables, heard>>

\* The request waited for longer than its timeout.
Expire(w) ==
    /\ Moves(w, "checked", "ended")
    /\ state' = [state EXCEPT ![workerId[w]] = "finished"]
    /\ UNCHANGED <<reply, tables, heard>>

\* compare_exchange: only a request nobody abandoned is posted.
Dispatch(w) ==
    /\ Moves(w, "checked", "calling")
    /\ state[workerId[w]] = "queued"
    /\ state' = [state EXCEPT ![workerId[w]] = "dispatched"]
    /\ UNCHANGED <<reply, tables, heard>>

Skip(w) ==
    /\ Moves(w, "checked", "ended")
    /\ state[workerId[w]] # "queued"
    /\ UNCHANGED <<reply, state, tables, heard>>

\* The response, an error or the timeout of the HTTP request.
FinishCall(w) ==
    /\ Moves(w, "calling", "ended")
    /\ state' = [state EXCEPT ![workerId[w]] = "finished"]
    /\ heard' = heard \ {workerId[w]}
    /\ UNCHANGED <<reply, tables>>

Unpend(w) ==
    /\ ~Locked /\ Moves(w, "ended", "unpended")
    /\ pending' = pending \ {workerId[w]}
    /\ UNCHANGED <<reply, state, uncertain, heard>>

Unmark(w) ==
    /\ ~Locked /\ Moves(w, "unpended", "unmarked")
    /\ uncertain' = uncertain \ {workerId[w]}
    /\ UNCHANGED <<reply, state, pending, heard>>

Answer(w) ==
    /\ Moves(w, "unmarked", "idle")
    /\ Replies({workerId[w]}, "sent")
    /\ UNCHANGED <<state, tables, heard>>

-----------------------------------------------------------------------------
(* Cancel workers                                                           *)

ReceiveCancel(v) ==
    /\ cancellerAt[v] = "idle" /\ cancels # <<>>
    /\ cancellerAt' = [cancellerAt EXCEPT ![v] = "held"]
    /\ cancellerId' = [cancellerId EXCEPT ![v] = Head(cancels)]
    /\ cancels' = Tail(cancels)
    /\ UNCHANGED <<callers, reply, state, tables, invokes, worker, hand, stop, heard>>

ExitCancel(v) ==
    /\ cancellerAt[v] \in {"idle", "held"} /\ "cancel" \in halted
    /\ cancellerAt' = [cancellerAt EXCEPT ![v] = "exited"]
    /\ cancellerId' = [cancellerId EXCEPT ![v] = 0]
    /\ UNCHANGED <<callers, reply, state, tables, invokes, cancels, worker, hand, stop, heard>>

\* The flag is not up: the cancellation is posted.
PostCancel(v) ==
    /\ cancellerAt[v] = "held" /\ "cancel" \notin halted
    /\ cancellerAt' = [cancellerAt EXCEPT ![v] = "posting"]
    /\ UNCHANGED <<callers, reply, state, tables, invokes, cancels, worker, cancellerId, hand, stop,
                   heard>>

\* Mutant: a cancellation that failed counts as done.
EndCancelAnyway(v) ==
    /\ cancellerAt[v] = "posting" /\ ~Locked
    /\ cancellerAt' = [cancellerAt EXCEPT ![v] = "idle"]
    /\ cancellerId' = [cancellerId EXCEPT ![v] = 0]
    /\ uncertain' = uncertain \ {cancellerId[v]}
    /\ \/ heard' = heard \union ({cancellerId[v]} \intersect InFlight)
       \/ UNCHANGED heard
    /\ UNCHANGED <<callers, reply, state, pending, invokes, cancels, worker, hand, stop>>

\* Only a cancellation that succeeded is no longer uncertain.
EndCancel(v) ==
    /\ cancellerAt[v] = "posting"
    /\ cancellerAt' = [cancellerAt EXCEPT ![v] = "idle"]
    /\ cancellerId' = [cancellerId EXCEPT ![v] = 0]
    /\ \/ /\ ~Locked
          /\ heard' = heard \union ({cancellerId[v]} \intersect InFlight)
          /\ uncertain' = uncertain \ {cancellerId[v]}
       \/ UNCHANGED <<heard, uncertain>>
    /\ UNCHANGED <<callers, reply, state, pending, invokes, cancels, worker, hand, stop>>

-----------------------------------------------------------------------------
Hand ==
    \/ RemovePending \/ SpawnCancel \/ LockTables \/ Mark \/ UnlockTables
    \/ TakeUncertain \/ Swap \/ StartJob

Caller(r) == Hear(r) \/ GiveUp(r)

Worker(w) ==
    \/ Receive(w) \/ Exit(w) \/ Check(w) \/ Expire(w) \/ Dispatch(w) \/ Skip(w)
    \/ FinishCall(w) \/ Unpend(w) \/ Unmark(w) \/ Answer(w)

Canceller(v) == ReceiveCancel(v) \/ ExitCancel(v) \/ PostCancel(v) \/ EndCancel(v)

Shutdown == RaiseInvoke \/ RaiseCancel \/ (\E r \in Ids : PostLast(r)) \/ EndCancels \/ Joined

Next ==
    \/ Invoke \/ BeginStop \/ Hand \/ Shutdown
    \/ \E r \in Ids : Caller(r)
    \/ \E w \in Workers : Worker(w)
    \/ \E v \in Cancellers : Canceller(v)

Spec == Init /\ [][Next]_vars

\* Threads run, every HTTP request has a timeout, a worker looks at its flag
\* at least every 10 ms (an Exit competes with Receive), and an invoke future
\* with an answer is polled.  Callers need not give up and nobody must stop.
Fairness ==
    /\ WF_vars(Hand) /\ WF_vars(Shutdown)
    /\ \A w \in Workers : WF_vars(Worker(w)) /\ SF_vars(Exit(w))
    /\ \A v \in Cancellers : WF_vars(Canceller(v)) /\ SF_vars(ExitCancel(v))
    /\ \A r \in Ids : SF_vars(Hear(r))

FairSpec == Spec /\ Fairness

-----------------------------------------------------------------------------
(* Properties                                                               *)

\* Every variable stays in its type, no table outgrows max_pending_requests,
\* and two workers never hold the same request.
RemoteTypeOK ==
    /\ nextId \in 1..MaxRequests + 1
    /\ caller \in [Ids -> {"none", "refused", "waiting", "answered", "gone"}]
    /\ reply \in [Ids -> {"empty", "sent", "closed"}]
    /\ state \in [Ids -> {"queued", "dispatched", "abandoned", "finished"}]
    /\ pending \subseteq Ids /\ Cardinality(pending) <= MaxPending /\ uncertain \subseteq Ids
    /\ invokes \in Seq(Ids) /\ Len(invokes) <= MaxPending
    /\ cancels \in Seq(Ids) /\ Len(cancels) <= MaxPending
    /\ workerAt \in [Workers -> {"idle", "held", "checked", "calling", "ended", "unpended",
                                  "unmarked", "exited"}]
    /\ workerId \in [Workers -> Ids \union {0}]
    /\ \A w, x \in Workers : w # x => workerId[w] # workerId[x] \/ workerId[w] = 0
    /\ cancellerAt \in [Cancellers -> {"idle", "held", "posting", "exited"}]
    /\ cancellerId \in [Cancellers -> Ids \union {0}]
    /\ handAt \in {"free", "removing", "cancelling", "locking", "marking", "stopping", "swapping"}
    /\ handId \in Ids \union {0} /\ todo \subseteq Ids
    /\ stopped \in BOOLEAN /\ halted \subseteq {"invoke", "cancel"}
    /\ job \in {"none", "raising", "cancelling", "joining", "done"}
    /\ last \subseteq Ids /\ heard \subseteq Ids

\* The pending table does not leak: what it counts is queued or in the hands of
\* a worker that will remove it, so admission recovers.
PendingOwned ==
    \A r \in pending :
        \/ \E i \in DOMAIN invokes : invokes[i] = r
        \/ \E w \in Workers : /\ workerId[w] = r
                              /\ workerAt[w] \in {"held", "checked", "calling", "ended"}

\* An uncertain cancel belongs to a call some worker has not finished: the set
\* does not leak and, ids being held once, has no more members than workers.
\* The guard and spawn_cancel insert under the pending lock, and a worker takes
\* that lock before it removes the mark.
UncertainInFlight ==
    \A r \in uncertain :
        \E w \in Workers : workerId[w] = r /\ workerAt[w] \in {"calling", "ended", "unpended"}

\* Neither table leaks, so that admission recovers.
TablesOwned == PendingOwned /\ UncertainInFlight

\* A call that goes on without its caller is marked uncertain until the service
\* has acknowledged the cancellation; begin_stop takes the mark along.
OrphansKnown ==
    \A w \in Workers :
        LET r == workerId[w]
        IN  workerAt[w] = "calling" /\ caller[r] = "gone" /\ job = "none"
              /\ ~(handAt = "removing" /\ handId = r)
            => r \in uncertain \union heard \union last

\* No request is posted for a caller that has gone, nor once the Generation is
\* closed, by shutdown or because cancellations pile up: "Shutdown abandons
\* queued work immediately" (README.md:153-154).
ClosedMeansClosed ==
    [][\A r \in Ids : state[r] # "dispatched" /\ state'[r] = "dispatched"
           => caller[r] = "waiting" /\ ~(stopped /\ handAt = "free")]_vars

\* Every invocation ends: it is answered, fails or is given up, whatever the
\* queues, cancellations and a shutdown do.
EveryInvocationEnds ==
    \A r \in Ids : caller[r] = "waiting" ~> caller[r] # "waiting"

\* A shutdown that began ends: all workers are joined, without working off
\* the queue.
ShutdownEnds == handAt = "stopping" ~> job = "done"
=============================================================================
