----------------------------- MODULE ProcessV1 -----------------------------
(***************************************************************************)
(* One generation of a Process Plugin, protocol 1                          *)
(* (lenso-process-adapter/src/lib.rs).  Three actors share it: the Host    *)
(* thread, which starts the child, invokes it and stops it; the reader     *)
(* thread, which owns the child's standard output; and the child itself,   *)
(* which answers in any order, may break the protocol and may exit.  The   *)
(* Host thread blocks while it joins the reader, so a call never runs      *)
(* beside a stop; the reader runs beside everything.                       *)
(***************************************************************************)
EXTENDS Integers, Sequences, FiniteSets, Functions

CONSTANTS
  V1Calls,      \* the invocations of this generation
  V1MaxPending, \* ProcessLimits::max_pending_requests
  V1IdWidth,    \* request ids are counted modulo this (2^64 in the code)
  V1Replies,    \* the sets of fields a result frame of the child may carry
  V1MaxFaults   \* how often the child may break the protocol

VARIABLES
  child,    \* "running" or "dead"
  stdin,    \* is the write end of the child's standard input still open?
  atGuest,  \* requests written to the child and not answered: {<<id, call>>}
  stdout,   \* frames the child has written and the reader has not read
  faults,   \* how often the child has broken the protocol
  reader,   \* the reader thread: "first", "reading", "marked", "ended"
  ready,    \* the readiness channel: "none", "ok", "mismatch", "bad"
  host,     \* the Host thread: what it does, and the call it does it for
  entries,  \* ProcessGeneration::pending, request id -> call
  failed, stopped, nextId,
  call      \* the invocations: [at, id, answer]

v1vars == <<child, stdin, atGuest, stdout, faults, reader, ready, host, entries,
            failed, stopped, nextId, call>>

Nobody == "nobody"

ASSUME V1Assumption ==
  /\ {V1IdWidth, V1MaxPending, V1MaxFaults} \subseteq Nat /\ V1IdWidth > 1
  /\ Nobody \notin V1Calls /\ "host" \notin V1Calls

Unanswered == <<Nobody, "none">>

\* decode_result: exactly one field decides the outcome.
Decode(fields) ==
  CASE fields = {"ok"} -> "success" [] fields = {"error"} -> "domain"
    [] fields = {"failure"} -> "failure" [] OTHER -> "violation"

Idle == [pc |-> "idle", for |-> Nobody]
Busy(pc, c) == [pc |-> pc, for |-> c]

V1Init ==
  /\ child = "running" /\ stdin = TRUE /\ atGuest = {} /\ stdout = <<>>
  /\ faults = 0 /\ reader = "first" /\ ready = "none" /\ host = Busy("start", Nobody)
  /\ entries = <<>> /\ failed = FALSE /\ stopped = FALSE /\ nextId = 1
  /\ call = [c \in V1Calls |-> [at |-> "new", id |-> 0, answer |-> Unanswered]]

Result(id, c, fields) == [kind |-> "result", id |-> id, of |-> c, fields |-> fields]
Frame(kind) == [kind |-> kind, id |-> 0, of |-> Nobody, fields |-> {}]

---------------------------------------------------------------------------
(* The child.                                                              *)

\* The child announces itself, possibly with the wrong protocol or with a
\* descriptor that is not the plan's, or writes something else first.
GuestAnnounce ==
  /\ child = "running" /\ reader = "first" /\ stdout = <<>>
  /\ \E kind \in {"ready", "mismatch", "badprotocol", "result"}:
       stdout' = <<IF kind = "result" THEN Result(1, Nobody, {"ok"}) ELSE Frame(kind)>>
  /\ UNCHANGED <<child, stdin, atGuest, faults, reader, ready, host, entries, failed,
                 stopped, nextId, call>>

\* The child answers any request it has.
GuestAnswer ==
  /\ child = "running"
  /\ \E r \in atGuest, fields \in V1Replies:
       /\ atGuest' = atGuest \ {r}
       /\ stdout' = Append(stdout, Result(r[1], r[2], fields))
  /\ UNCHANGED <<child, stdin, faults, reader, ready, host, entries, failed, stopped,
                 nextId, call>>

\* The child repeats its readiness, writes a line that is no frame or is too
\* long, or answers an id nobody uses.
GuestBreaks ==
  /\ child = "running" /\ reader = "reading" /\ faults < V1MaxFaults
  /\ \E kind \in {"ready", "garbage", "result"}: stdout' = Append(stdout, Frame(kind))
  /\ faults' = faults + 1
  /\ UNCHANGED <<child, stdin, atGuest, reader, ready, host, entries, failed, stopped,
                 nextId, call>>

\* Mutant: the child is left to notice the end of its input.
KilledLater == UNCHANGED child /\ atGuest' = {}

\* The child dies; what it wrote stays in the pipe for the reader.
Killed == child' = "dead" /\ atGuest' = {}

\* The child exits: on its own, or because its input was closed.
GuestExit ==
  /\ child = "running" /\ Killed
  /\ UNCHANGED <<stdin, stdout, faults, reader, ready, host, entries, failed, stopped, nextId,
                 call>>

---------------------------------------------------------------------------
(* The reader thread: one frame at a time, and the end of the stream when  *)
(* the child is dead and everything it wrote has been read.                *)

\* Mutant: the end of the stream is taken for no frame yet.
AtEndNever == FALSE

AtEnd == stdout = <<>> /\ child = "dead"

\* The first frame must be a readiness of this protocol.  Whatever it was, the
\* reader reports it and goes on reading (the channel holds one report and its
\* receiver outlives the join of the reader).
ReadFirst ==
  /\ reader = "first" /\ (stdout # <<>> \/ AtEnd)
  /\ ready' = IF stdout = <<>> THEN "bad"
              ELSE CASE Head(stdout).kind = "ready" -> "ok"
                     [] Head(stdout).kind = "mismatch" -> "mismatch"
                     [] OTHER -> "bad"
  /\ stdout' = IF stdout = <<>> THEN <<>> ELSE Tail(stdout)
  /\ reader' = "reading"
  /\ UNCHANGED <<child, stdin, atGuest, faults, host, entries, failed, stopped, nextId, call>>

\* A result: its entry is removed and answered.
ReadResult ==
  /\ reader = "reading" /\ stdout # <<>> /\ Head(stdout).kind = "result"
  /\ LET frame == Head(stdout) IN
       /\ frame.id \in DOMAIN entries
       /\ call' = [call EXCEPT ![entries[frame.id]].answer = <<frame.of, Decode(frame.fields)>>]
       /\ entries' = Restrict(entries, DOMAIN entries \ {frame.id})
  /\ stdout' = Tail(stdout)
  /\ UNCHANGED <<child, stdin, atGuest, faults, reader, ready, host, failed, stopped, nextId>>

\* Anything else retires the generation: retire_pending first stores `failed' ...
ReadUnexpected ==
  /\ reader = "reading"
  /\ \/ AtEnd
     \/ /\ stdout # <<>>
        /\ Head(stdout).kind = "result" => Head(stdout).id \notin DOMAIN entries
  /\ stdout' = IF stdout = <<>> THEN <<>> ELSE Tail(stdout)
  /\ reader' = "marked" /\ failed' = TRUE
  /\ UNCHANGED <<child, stdin, atGuest, faults, ready, host, entries, stopped, nextId, call>>

\* Every entry of the table is answered with a failure and the table is empty.
AllFailed ==
  [c \in V1Calls |-> IF c \in Range(entries)
                     THEN [call[c] EXCEPT !.answer = <<"host", "failure">>] ELSE call[c]]

RetirePending ==
  /\ call' = AllFailed
  /\ entries' = <<>>

\* ... and then takes the table.
ReaderRetires ==
  /\ reader = "marked"
  /\ RetirePending
  /\ reader' = "ended" /\ stdout' = <<>>
  /\ UNCHANGED <<child, stdin, atGuest, faults, ready, host, failed, stopped, nextId>>

---------------------------------------------------------------------------
(* The Host thread: start.                                                 *)

Waiting(pc) == host.pc = pc

\* A readiness of this protocol whose descriptor is the plan's makes a generation.
StartOk ==
  /\ Waiting("start") /\ ready = "ok"
  /\ host' = Idle
  /\ UNCHANGED <<child, stdin, atGuest, stdout, faults, reader, ready, entries, failed,
                 stopped, nextId, call>>

\* The descriptor is validated last, when the child is no longer in hand: the start
\* fails and drops the child's input, and nobody kills it.
StartMismatch ==
  /\ Waiting("start") /\ ready = "mismatch"
  /\ host' = Busy("refused", Nobody) /\ stdin' = FALSE
  /\ UNCHANGED <<child, atGuest, stdout, faults, reader, ready, entries, failed, stopped,
                 nextId, call>>

\* A bad report, or none before startup_timeout: the child is killed and reaped and
\* the reader joined.
StartFails ==
  /\ Waiting("start") /\ ready \in {"bad", "none"}
  /\ Killed
  /\ host' = Busy("joinrefused", Nobody)
  /\ UNCHANGED <<stdin, stdout, faults, reader, ready, entries, failed, stopped, nextId, call>>
StartReaped ==
  /\ Waiting("joinrefused") /\ reader = "ended"
  /\ host' = Busy("refused", Nobody) /\ stdin' = FALSE
  /\ UNCHANGED <<child, atGuest, stdout, faults, reader, ready, entries, failed, stopped,
                 nextId, call>>

---------------------------------------------------------------------------
(* The Host thread: one invocation, up to its first await.                 *)

Answer(c, outcome) ==
  call' = [call EXCEPT ![c] = [at |-> "done", id |-> @.id, answer |-> <<"host", outcome>>]]

\* Mutant: the id is read and not advanced.
NextIdRead == nextId

NextId == (nextId + 1) % V1IdWidth

\* The generation is looked at before anything else; then an id is drawn.  Id 0 means
\* the counter has wrapped: the generation fails and no id is ever used twice.
Invoke(c) ==
  /\ Waiting("idle") /\ call[c].at = "new"
  /\ IF failed \/ stopped
     THEN /\ Answer(c, "unavailable")
          /\ UNCHANGED <<host, failed, nextId>>
     ELSE /\ nextId' = NextId
          /\ IF nextId = 0
             THEN /\ failed' = TRUE /\ Answer(c, "exhausted") /\ UNCHANGED host
             ELSE /\ host' = Busy("insert", c)
                  /\ call' = [call EXCEPT ![c] =
                                [at |-> "invoking", id |-> nextId, answer |-> @.answer]]
                  /\ UNCHANGED failed
  /\ UNCHANGED <<child, stdin, atGuest, stdout, faults, reader, ready, entries, stopped>>

Full == Cardinality(DOMAIN entries) >= V1MaxPending

\* The entry goes in under the lock of the table, unless the table is full.
InsertEntry(c) ==
  /\ host = Busy("insert", c)
  /\ IF Full
     THEN Answer(c, "exhausted") /\ host' = Idle /\ UNCHANGED entries
     ELSE /\ entries' = [i \in DOMAIN entries \union {call[c].id} |->
                         IF i = call[c].id THEN c ELSE entries[i]]
          /\ host' = Busy("send", c) /\ UNCHANGED call
  /\ UNCHANGED <<child, stdin, atGuest, stdout, faults, reader, ready, failed, stopped, nextId>>

\* A write to the pipe of a dead child fails.
Writable == child = "running"

\* The request is written.  A write to a dead child fails, and so does a frame that is
\* too long: then the entry is taken back.
SendInvoke(c) ==
  /\ host = Busy("send", c)
  /\ \/ /\ Writable
        /\ atGuest' = atGuest \union {<<call[c].id, c>>}
        /\ call' = [call EXCEPT ![c].at = "waiting"] /\ UNCHANGED entries
     \/ /\ entries' = Restrict(entries, DOMAIN entries \ {call[c].id})
        /\ Answer(c, "unsent") /\ UNCHANGED atGuest
  /\ host' = Idle
  /\ UNCHANGED <<child, stdin, stdout, faults, reader, ready, failed, stopped, nextId>>

---------------------------------------------------------------------------
(* The Host thread: the end of an invocation, and of the generation.       *)

\* The caller takes the answer: the guard is disarmed.
Return(c) ==
  /\ Waiting("idle") /\ call[c].at = "waiting" /\ call[c].answer # Unanswered
  /\ call' = [call EXCEPT ![c].at = "done"]
  /\ UNCHANGED <<child, stdin, atGuest, stdout, faults, reader, ready, host, entries, failed,
                 stopped, nextId>>

\* The caller cancels or drops the call.  A call whose entry is still in the table takes
\* the whole generation down with it: abort, unless it is stopped already.
Abandon(c) ==
  /\ Waiting("idle") /\ call[c].at = "waiting"
  /\ Answer(c, "cancelled")
  /\ entries' = Restrict(entries, DOMAIN entries \ {call[c].id})
  /\ IF call[c].id \in DOMAIN entries /\ ~stopped
     THEN /\ stopped' = TRUE /\ failed' = TRUE /\ Killed /\ host' = Busy("join", Nobody)
     ELSE UNCHANGED <<stopped, failed, child, atGuest, host>>
  /\ UNCHANGED <<stdin, stdout, faults, reader, ready, nextId>>

\* Deactivation, or the last owner dropping the generation: the child is told, killed
\* and reaped.
Stop ==
  /\ Waiting("idle") /\ ~stopped
  /\ stopped' = TRUE /\ Killed /\ host' = Busy("join", Nobody)
  /\ UNCHANGED <<stdin, stdout, faults, reader, ready, entries, failed, nextId, call>>

\* Both then join the reader and retire what it left.
FinishStop ==
  /\ Waiting("join") /\ reader = "ended"
  /\ failed' = TRUE /\ RetirePending
  /\ host' = Idle
  /\ UNCHANGED <<child, stdin, atGuest, stdout, faults, reader, ready, stopped, nextId>>

V1Guest == GuestAnnounce \/ GuestAnswer
V1Reader == ReadFirst \/ ReadResult \/ ReadUnexpected \/ ReaderRetires
V1Host == \/ StartOk \/ StartMismatch \/ StartFails \/ StartReaped \/ FinishStop
          \/ \E c \in V1Calls: InsertEntry(c) \/ SendInvoke(c) \/ Return(c)

V1Next == \/ V1Guest \/ GuestBreaks \/ GuestExit
          \/ V1Reader
          \/ V1Host \/ Stop
          \/ \E c \in V1Calls: Invoke(c) \/ Abandon(c)

V1Spec == V1Init /\ [][V1Next]_v1vars

\* The two threads run, and a child that has a request answers it.
V1Fairness == WF_v1vars(V1Reader) /\ WF_v1vars(V1Host) /\ WF_v1vars(GuestAnswer)

---------------------------------------------------------------------------
(* Properties.                                                             *)

Answers == (V1Calls \union {Nobody, "host"}) \X
             {"none", "success", "domain", "failure", "violation", "unavailable", "exhausted",
              "unsent", "cancelled"}
CallRecords ==
  [at: {"new", "invoking", "waiting", "done"}, id: 0..(V1IdWidth - 1), answer: Answers]

Frames ==
  [kind: {"ready", "mismatch", "badprotocol", "garbage", "result"}, id: 0..(V1IdWidth - 1),
   of: V1Calls \union {Nobody}, fields: V1Replies \union {{}, {"ok"}}]

\* Types, and the limit of the pending table.
V1TypeOK ==
  /\ child \in {"running", "dead"} /\ stdin \in BOOLEAN
  /\ atGuest \subseteq (1..(V1IdWidth - 1)) \X V1Calls
  /\ stdout \in Seq(Frames) /\ faults \in Nat
  /\ reader \in {"first", "reading", "marked", "ended"}
  /\ ready \in {"none", "ok", "mismatch", "bad"}
  /\ host \in [pc: {"start", "joinrefused", "refused", "idle", "insert", "send", "join"},
               for: V1Calls \union {Nobody}]
  /\ failed \in BOOLEAN /\ stopped \in BOOLEAN /\ nextId \in 0..(V1IdWidth - 1)
  /\ DOMAIN entries \subseteq 1..(V1IdWidth - 1) /\ entries \in [DOMAIN entries -> V1Calls]
  /\ Cardinality(DOMAIN entries) <= V1MaxPending
  /\ call \in [V1Calls -> CallRecords]

\* No call is ever answered with the result of another: ids are drawn once, also when
\* the counter wraps with calls in flight, when a call is abandoned, and when the child
\* answers late or out of order (invoke, and the reader loop of start).
OwnAnswer == \A c \in V1Calls: call[c].answer[1] \in {Nobody, "host", c}

\* When the Host thread is through with a stop or an abort, nothing of the generation is
\* left: the child is dead, the reader has ended and no call still waits for an answer,
\* whatever the reader was doing meanwhile (stop, abort, PendingInvocationGuard::drop).
StopSettlesAll ==
  stopped /\ Waiting("idle") =>
    /\ child = "dead" /\ reader = "ended" /\ entries = <<>>
    /\ \A c \in V1Calls: call[c].at = "waiting" => call[c].answer # Unanswered

\* A refused start leaves no child running, with one exception: a descriptor that is not
\* the plan's is found out when the child is no longer in hand, and then all the child
\* gets is the end of its input (start).
RefusedStartReaps ==
  Waiting("refused") => \/ child = "dead" /\ reader = "ended"
                        \/ ready = "mismatch" /\ ~stdin

\* invoke looks at `failed' before it inserts its entry, and the reader may retire the
\* table in between: the entry then outlives the only thread that answers entries.  It
\* happens only when the child broke the protocol and still runs; an exit is always
\* noticed, by the reader or by the write (invoke, retire_pending).
Stranded(c) == call[c].at = "waiting" /\ call[c].answer = Unanswered /\ reader = "ended"
StrandedOnlyByBreach ==
  \A c \in V1Calls: Stranded(c) /\ Waiting("idle") => failed /\ faults > 0 /\ ~stopped

\* Every invocation that is waiting gets an answer, is abandoned, or is stranded as
\* above: the reader, the Host thread and a child that has a request all keep running.
EveryCallSettles(c) ==
  call[c].at = "waiting" ~> (call[c].answer # Unanswered \/ Stranded(c))

---------------------------------------------------------------------------
(* The inductive invariant of the proofs.                                  *)

Sent(c) == call[c].at \in {"waiting", "done"}

\* An id is drawn once; while more can be drawn, those drawn are below the counter.
DrawnOnce ==
  /\ \A c, d \in V1Calls: call[c].id # 0 /\ call[c].id = call[d].id => c = d
  /\ \A c \in V1Calls: ~failed => nextId = 0 \/ call[c].id < nextId
  /\ \A c \in V1Calls: /\ call[c].at = "new" => call[c].id = 0
                       /\ call[c].at \in {"invoking", "waiting"} => call[c].id # 0

\* The entries, the requests of the child and its answers name the call that drew their id.
Named ==
  /\ \A i \in DOMAIN entries: call[entries[i]].id = i
  /\ \A r \in atGuest: call[r[2]].id = r[1] /\ Sent(r[2])
  /\ reader # "first" =>
       \A k \in 1..Len(stdout): stdout[k].kind = "result" /\ stdout[k].id # 0 =>
         /\ stdout[k].of \in V1Calls /\ call[stdout[k].of].id = stdout[k].id
         /\ Sent(stdout[k].of)

\* Nothing is asked before the readiness was read, and the Host works at one call at most.
HostFits ==
  /\ reader = "first" <=> ready = "none"
  /\ ready # "ok" => host.pc \in {"start", "joinrefused", "refused"}
  /\ reader = "first" => Len(stdout) <= 1 /\ atGuest = {}
  /\ host.pc \in {"insert", "send"} => host.for \in V1Calls
  /\ \A c \in V1Calls: call[c].at = "invoking" <=> host \in {Busy("insert", c), Busy("send", c)}

\* A call that was sent, or is about to be, has its entry until it is answered.
Held ==
  \A c \in V1Calls: call[c].at = "waiting" \/ host = Busy("send", c) =>
    \/ call[c].answer # Unanswered /\ (call[c].at = "waiting" \/ reader = "ended")
    \/ call[c].id \in DOMAIN entries /\ entries[call[c].id] = c

\* A stop goes on until everything is settled, a refused start until the child is reaped.
EndFits ==
  /\ stopped => child = "dead" /\ host.pc \in {"join", "idle"}
  /\ host.pc = "join" => stopped
  /\ stopped /\ host.pc = "idle" => reader = "ended" /\ entries = <<>>
  /\ host.pc = "joinrefused" => child = "dead"
  /\ RefusedStartReaps

\* A child that keeps to the protocol answers each request once, and each answer finds its
\* entry; the reader ends only when that child is dead, and then no call waits unanswered.
Kept ==
  /\ reader \in {"marked", "ended"} => failed
  /\ faults = 0 =>
       /\ reader = "reading" /\ child = "running" =>
            /\ \A r \in atGuest: /\ r[1] \in DOMAIN entries
                                /\ \A k \in 1..Len(stdout): stdout[k].id # r[1]
            /\ \A k \in 1..Len(stdout):
                 stdout[k].kind = "result" /\ stdout[k].id \in DOMAIN entries
            /\ \A k, l \in 1..Len(stdout): stdout[k].id = stdout[l].id => k = l
       /\ reader \in {"marked", "ended"} => child = "dead"
       /\ reader = "ended" =>
            \A c \in V1Calls: call[c].at = "waiting" => call[c].answer # Unanswered

V1Inv == V1TypeOK /\ DrawnOnce /\ Named /\ OwnAnswer /\ HostFits /\ Held /\ EndFits /\ Kept

\* What is left of a generation that was refused, stopped or aborted, and of a call that
\* the reader came too early for; it follows from the invariant, which the runs check
\* beside it.
NothingLeft == StopSettlesAll /\ RefusedStartReaps /\ StrandedOnlyByBreach /\ V1Inv
=============================================================================
