---------------------------- MODULE ProcessProofs ----------------------------
(***************************************************************************)
(* The generations of the Process adapter.  Protocol 1: no call is         *)
(* answered with another's result, and nothing is left behind.  The        *)
(* invariant V1Inv says that an id is drawn once (DrawnOnce), what names a *)
(* call by it (Named), where the Host thread may be (HostFits, EndFits),   *)
(* which calls still have their entry (Held) and why the reader ended      *)
(* (Kept).  Protocol 2: a generation fails for a reason, and an entry has  *)
(* an owner.  The invariant SessionInv says where the tasks of both ends   *)
(* may be, that a stop is the last frame but the report of it, where each  *)
(* call is accounted for, and what is under way for each piece of work     *)
(* while both ends keep to the protocol (Agreed).                          *)
(***************************************************************************)
EXTENDS ProcessV1, ProcessSession, FiniteSetTheorems, SequenceTheorems, TLAPS

-----------------------------------------------------------------------------
(* Tables, frames and calls                                                 *)

\* A function without arguments is the empty table.
LEMMA NoArguments == ASSUME NEW S, NEW f \in [{} -> S] PROVE f = <<>>
  OBVIOUS

\* An entry is put in: it is there, and the others are as they were.
LEMMA PutIn ==
  ASSUME NEW D, NEW S, NEW f \in [D -> S], NEW i, NEW x \in S
  PROVE  LET g == [j \in DOMAIN f \union {i} |-> IF j = i THEN x ELSE f[j]]
         IN  /\ g \in [D \union {i} -> S] /\ g[i] = x
             /\ \A j \in D \ {i} : g[j] = f[j]
  OBVIOUS

\* An entry is taken out: the others are as they were.
LEMMA TakenOut ==
  ASSUME NEW D, NEW S, NEW f \in [D -> S], NEW i
  PROVE  LET g == Restrict(f, DOMAIN f \ {i})
         IN  /\ g \in [D \ {i} -> S]
             /\ \A j \in D \ {i} : g[j] = f[j]
  BY DEF Restrict

\* Every combination of fields is an outcome.
LEMMA Decided == ASSUME NEW f PROVE Decode(f) \in {"success", "domain", "failure", "violation"}
  <1>1. CASE f = {"ok"}
    <2>1. f # {"error"} /\ f # {"failure"}
      BY <1>1
    <2> QED BY <1>1, <2>1 DEF Decode
  <1>2. CASE f = {"error"}
    <2>1. f # {"ok"} /\ f # {"failure"}
      BY <1>2
    <2> QED BY <1>2, <2>1 DEF Decode
  <1>3. CASE f = {"failure"}
    <2>1. f # {"ok"} /\ f # {"error"}
      BY <1>3
    <2> QED BY <1>3, <2>1 DEF Decode
  <1>4. CASE f \notin {{"ok"}, {"error"}, {"failure"}}
    BY <1>4 DEF Decode
  <1> QED BY <1>1, <1>2, <1>3, <1>4

\* The types of a call, of the table and of a frame.
LEMMA V1Types ==
  ASSUME V1TypeOK
  PROVE  /\ \A c \in V1Calls :
               /\ call[c].at \in {"new", "invoking", "waiting", "done"}
               /\ call[c].id \in 0..(V1IdWidth - 1)
         /\ \A i \in DOMAIN entries : i \in 1..(V1IdWidth - 1) /\ entries[i] \in V1Calls
         /\ \A k \in 1..Len(stdout) : stdout[k] \in Frames
         /\ \A r \in atGuest : r[1] \in 1..(V1IdWidth - 1) /\ r[2] \in V1Calls
         /\ Len(stdout) \in Nat /\ IsFiniteSet(DOMAIN entries)
  <1>1. IsFiniteSet(1..(V1IdWidth - 1))
    BY FS_Interval, V1Assumption
  <1>2. IsFiniteSet(DOMAIN entries)
    BY <1>1, FS_Subset DEF V1TypeOK
  <1>3. \A c \in V1Calls : call[c] \in CallRecords
    BY DEF V1TypeOK
  <1> QED BY <1>2, <1>3 DEF V1TypeOK, CallRecords

\* A table that loses an entry, or all, does not grow.
LEMMA TableShrinks ==
  ASSUME V1TypeOK, NEW D \in SUBSET DOMAIN entries, NEW f \in [D -> V1Calls]
  PROVE  /\ DOMAIN f \subseteq 1..(V1IdWidth - 1) /\ f \in [DOMAIN f -> V1Calls]
         /\ Cardinality(DOMAIN f) <= V1MaxPending
  <1>1. Cardinality(D) <= Cardinality(DOMAIN entries) /\ Cardinality(D) \in Nat
        /\ Cardinality(DOMAIN entries) \in Nat
    BY V1Types, FS_Subset, FS_CardinalityType
  <1> QED BY <1>1, V1Assumption DEF V1TypeOK

\* An empty table.
LEMMA NoEntries ==
  /\ DOMAIN <<>> = {} /\ <<>> \in [{} -> V1Calls]
  /\ Cardinality({}) = 0 /\ DOMAIN <<>> \subseteq 1..(V1IdWidth - 1)
  BY FS_EmptySet

\* The end of every entry leaves typed calls.
LEMMA AllFailedTyped == ASSUME V1TypeOK PROVE AllFailed \in [V1Calls -> CallRecords]
  <1>1. <<"host", "failure">> \in Answers
    BY DEF Answers
  <1>2. ASSUME NEW c \in V1Calls
        PROVE  [call[c] EXCEPT !.answer = <<"host", "failure">>] \in CallRecords
    <2>1. call[c] \in CallRecords
      BY DEF V1TypeOK
    <2> QED BY <1>1, <2>1, Zenon DEF CallRecords
  <1> QED BY <1>2 DEF AllFailed, V1TypeOK

-----------------------------------------------------------------------------
(* Types                                                                    *)

\* What the child writes and answers is typed.
LEMMA GuestTyped ==
  ASSUME V1TypeOK, GuestAnnounce \/ GuestAnswer \/ GuestBreaks \/ GuestExit
  PROVE  V1TypeOK'
  <1> USE V1Assumption
  <1>1. CASE GuestAnnounce
    <2>1. \A kind \in {"ready", "mismatch", "badprotocol", "result"} :
             (IF kind = "result" THEN Result(1, Nobody, {"ok"}) ELSE Frame(kind)) \in Frames
      BY DEF Result, Frame, Frames
    <2> QED BY <1>1, <2>1 DEF GuestAnnounce, V1TypeOK
  <1>2. CASE GuestAnswer
    <2>1. \A r \in atGuest, fields \in V1Replies : Result(r[1], r[2], fields) \in Frames
      BY V1Types DEF Result, Frames
    <2> QED BY <1>2, <2>1 DEF GuestAnswer, V1TypeOK
  <1>3. CASE GuestBreaks
    <2>1. \A kind \in {"ready", "garbage", "result"} : Frame(kind) \in Frames
      BY DEF Frame, Frames
    <2> QED BY <1>3, <2>1 DEF GuestBreaks, V1TypeOK
  <1>4. CASE GuestExit
    BY <1>4 DEF GuestExit, Killed, V1TypeOK
  <1> QED BY <1>1, <1>2, <1>3, <1>4

\* The reader leaves typed frames, entries and answers.
LEMMA ReaderTyped == ASSUME V1TypeOK, V1Reader PROVE V1TypeOK'
  <1>1. stdout # <<>> => Tail(stdout) \in Seq(Frames)
    BY DEF V1TypeOK
  <1>2. CASE ReadFirst
    BY <1>1, <1>2 DEF ReadFirst, V1TypeOK
  <1>3. CASE ReadResult
    <2> DEFINE frame == Head(stdout)
               answer == <<frame.of, Decode(frame.fields)>>
    <2>1. frame \in Frames
      BY <1>3 DEF ReadResult, V1TypeOK
    <2>2. answer \in Answers
      BY <2>1, Decided DEF Frames, Answers
    <2>3. [call EXCEPT ![entries[frame.id]].answer = answer] \in [V1Calls -> CallRecords]
      <3> HIDE DEF answer
      <3>1. entries[frame.id] \in V1Calls
        BY <1>3 DEF ReadResult, V1TypeOK
      <3>2. [call[entries[frame.id]] EXCEPT !.answer = answer] \in CallRecords
        BY <2>2, <3>1, Zenon DEF V1TypeOK, CallRecords
      <3> HIDE DEF frame
      <3> QED BY <3>1, <3>2 DEF V1TypeOK
    <2>4. \E D \in SUBSET DOMAIN entries : entries' \in [D -> V1Calls]
      BY <1>3, TakenOut DEF ReadResult, V1TypeOK
    <2> QED BY <1>1, <1>3, <2>3, <2>4, TableShrinks DEF ReadResult, V1TypeOK
  <1>4. CASE ReadUnexpected
    BY <1>1, <1>4 DEF ReadUnexpected, V1TypeOK
  <1>5. CASE ReaderRetires
    BY <1>5, AllFailedTyped, NoEntries, V1Assumption DEF ReaderRetires, RetirePending, V1TypeOK
  <1> QED BY <1>2, <1>3, <1>4, <1>5 DEF V1Reader

\* An answer by the Host.
LEMMA AnswerTyped ==
  ASSUME V1TypeOK, NEW c \in V1Calls,
         NEW outcome \in {"unavailable", "exhausted", "unsent", "cancelled"}, Answer(c, outcome)
  PROVE  call' \in [V1Calls -> CallRecords]
  <1>1. <<"host", outcome>> \in Answers
    BY DEF Answers
  <1>2. [at |-> "done", id |-> call[c].id, answer |-> <<"host", outcome>>] \in CallRecords
    BY <1>1, V1Types DEF CallRecords
  <1> QED BY <1>2 DEF Answer, V1TypeOK

\* The places of the Host thread.
LEMMA HostTyped ==
  LET Places == [pc: {"start", "joinrefused", "refused", "idle", "insert", "send", "join"},
                 for: V1Calls \union {Nobody}]
  IN  /\ Idle \in Places
      /\ \A pc \in {"refused", "joinrefused", "join"} : Busy(pc, Nobody) \in Places
      /\ \A pc \in {"insert", "send"}, c \in V1Calls : Busy(pc, c) \in Places
  BY DEF Idle, Busy

\* Start and stop leave the types.
LEMMA EndsTyped ==
  ASSUME V1TypeOK, \/ StartOk \/ StartMismatch \/ StartFails \/ StartReaped \/ FinishStop \/ Stop
  PROVE  V1TypeOK'
  <1>1. CASE StartOk \/ StartMismatch \/ StartReaped
    BY <1>1, HostTyped DEF StartOk, StartMismatch, StartReaped, V1TypeOK
  <1>2. CASE StartFails \/ Stop
    BY <1>2, HostTyped DEF StartFails, Stop, Killed, V1TypeOK
  <1>3. CASE FinishStop
    BY <1>3, AllFailedTyped, NoEntries, HostTyped, V1Assumption
       DEF FinishStop, RetirePending, V1TypeOK
  <1> QED BY <1>1, <1>2, <1>3

\* The request could not be written.
Withheld(c) ==
    /\ entries' = Restrict(entries, DOMAIN entries \ {call[c].id})
    /\ Answer(c, "unsent") /\ UNCHANGED atGuest

\* An invocation leaves the types, and the table within its limit.
LEMMA CallTyped ==
  ASSUME V1TypeOK, HostFits, DrawnOnce, NEW c \in V1Calls,
         Invoke(c) \/ InsertEntry(c) \/ SendInvoke(c) \/ Return(c) \/ Abandon(c)
  PROVE  V1TypeOK'
  <1>1. CASE Invoke(c)
    <2>1. NextId \in 0..(V1IdWidth - 1)
      BY V1Assumption DEF NextId, V1TypeOK
    <2>2. [call EXCEPT ![c] = [at |-> "invoking", id |-> nextId, answer |-> @.answer]]
            \in [V1Calls -> CallRecords]
      <3>1. [at |-> "invoking", id |-> nextId, answer |-> call[c].answer] \in CallRecords
        BY DEF V1TypeOK, CallRecords
      <3> QED BY <3>1 DEF V1TypeOK
    <2>3. call' \in [V1Calls -> CallRecords]
      BY <1>1, <2>2, AnswerTyped DEF Invoke
    <2>4. /\ host' = host \/ host' = Busy("insert", c)
          /\ failed' \in BOOLEAN /\ nextId' \in 0..(V1IdWidth - 1)
      BY <1>1, <2>1 DEF Invoke, V1TypeOK
    <2> QED BY <1>1, <2>3, <2>4, HostTyped DEF Invoke, V1TypeOK
  <1>2. CASE InsertEntry(c)
    <2>1. CASE Full
      BY <1>2, <2>1, AnswerTyped, HostTyped DEF InsertEntry, V1TypeOK
    <2>2. CASE ~Full
      <3> DEFINE i == call[c].id
      <3>1. entries' \in [DOMAIN entries \union {i} -> V1Calls]
        BY <1>2, <2>2, PutIn DEF InsertEntry, V1TypeOK
      <3>2. i \in 1..(V1IdWidth - 1)
        <4>1. call[c].at = "invoking"
          BY <1>2 DEF InsertEntry, HostFits
        <4> QED BY <4>1, V1Types, V1Assumption DEF DrawnOnce
      <3>3. Cardinality(DOMAIN entries \union {i}) <= V1MaxPending
        <4> DEFINE D == DOMAIN entries
        <4>1. IsFiniteSet(D) /\ Cardinality(D) \in Nat /\ Cardinality(D) < V1MaxPending
          BY <2>2, V1Types, FS_CardinalityType, V1Assumption DEF Full
        <4> HIDE DEF D
        <4>2. Cardinality(D \union {i}) \in {Cardinality(D), Cardinality(D) + 1}
          BY <4>1, FS_AddElement
        <4> QED BY <4>1, <4>2, V1Assumption DEF D
      <3> QED BY <1>2, <2>2, <3>1, <3>2, <3>3, HostTyped DEF InsertEntry, V1TypeOK
    <2> QED BY <2>1, <2>2
  <1>3. ASSUME entries' = Restrict(entries, DOMAIN entries \ {call[c].id})
        PROVE  /\ DOMAIN entries' \subseteq 1..(V1IdWidth - 1)
               /\ entries' \in [DOMAIN entries' -> V1Calls]
               /\ Cardinality(DOMAIN entries') <= V1MaxPending
    <2>1. \E D \in SUBSET DOMAIN entries : entries' \in [D -> V1Calls]
      BY <1>3, TakenOut DEF V1TypeOK
    <2> QED BY <2>1, TableShrinks
  <1>4. CASE SendInvoke(c)
    <2>1. \/ Withheld(c)
          \/ /\ atGuest' = atGuest \union {<<call[c].id, c>>}
             /\ call' = [call EXCEPT ![c].at = "waiting"] /\ UNCHANGED entries
      BY <1>4 DEF SendInvoke, Withheld
    <2>2. CASE Withheld(c)
      <3>1. call' \in [V1Calls -> CallRecords] /\ atGuest' = atGuest
        BY <2>2, AnswerTyped DEF Withheld
      <3>2. /\ DOMAIN entries' \subseteq 1..(V1IdWidth - 1)
            /\ entries' \in [DOMAIN entries' -> V1Calls]
            /\ Cardinality(DOMAIN entries') <= V1MaxPending
        BY <1>3, <2>2 DEF Withheld
      <3> QED BY <1>4, <3>1, <3>2, HostTyped DEF SendInvoke, V1TypeOK
    <2>3. CASE /\ atGuest' = atGuest \union {<<call[c].id, c>>}
               /\ call' = [call EXCEPT ![c].at = "waiting"] /\ UNCHANGED entries
      <3>1. call' \in [V1Calls -> CallRecords]
        BY <2>3 DEF V1TypeOK, CallRecords
      <3>2. call[c].id \in 1..(V1IdWidth - 1)
        <4>1. call[c].at = "invoking"
          BY <1>4 DEF SendInvoke, HostFits
        <4> QED BY <4>1, V1Types, V1Assumption DEF DrawnOnce
      <3> QED BY <1>4, <2>3, <3>1, <3>2, HostTyped DEF SendInvoke, V1TypeOK
    <2> QED BY <2>1, <2>2, <2>3
  <1>5. CASE Return(c)
    <2>1. call' \in [V1Calls -> CallRecords]
      BY <1>5 DEF Return, V1TypeOK, CallRecords
    <2> QED BY <1>5, <2>1 DEF Return, V1TypeOK
  <1>6. CASE Abandon(c)
    <2>1. call' \in [V1Calls -> CallRecords]
      BY <1>6, AnswerTyped DEF Abandon
    <2> QED BY <1>3, <1>6, <2>1, HostTyped DEF Abandon, Killed, V1TypeOK
  <1> QED BY <1>1, <1>2, <1>4, <1>5, <1>6

-----------------------------------------------------------------------------
(* The child                                                                *)

\* A frame is written after the others.
LEMMA Appended ==
  ASSUME NEW T, NEW s \in Seq(T), NEW x \in T
  PROVE  /\ Len(Append(s, x)) = Len(s) + 1
         /\ \A k \in 1..(Len(s) + 1) : Append(s, x)[k] = IF k <= Len(s) THEN s[k] ELSE x
  OBVIOUS

\* The first frame is read.
LEMMA Tailed ==
  ASSUME NEW T, NEW s \in Seq(T), s # <<>>
  PROVE  /\ Len(Tail(s)) = Len(s) - 1 /\ Head(s) = s[1] /\ Len(s) >= 1
         /\ \A k \in 1..(Len(s) - 1) : Tail(s)[k] = s[k + 1]
  OBVIOUS

\* V1Inv without the types and the answers.
Fits == DrawnOnce /\ Named /\ HostFits /\ Held /\ EndFits /\ Kept

\* What the child does touches neither calls nor the Host.
LEMMA HostUntouched ==
  ASSUME Fits, UNCHANGED <<stdin, reader, ready, host, entries, failed, stopped, nextId, call>>,
         child' = child \/ child' = "dead"
  PROVE  DrawnOnce' /\ Held' /\ EndFits'
  <1>1. DrawnOnce' /\ Held'
    BY DEF Fits, DrawnOnce, Held
  <1>2. EndFits'
    BY DEF Fits, EndFits, RefusedStartReaps, Waiting
  <1> QED BY <1>1, <1>2

\* The child announces itself.
LEMMA AnnounceFits == ASSUME V1TypeOK, Fits, GuestAnnounce PROVE Fits'
  <1>1. DrawnOnce' /\ Held' /\ EndFits'
    BY HostUntouched DEF GuestAnnounce
  <1>2. Len(stdout') <= 1 /\ reader' = "first"
    BY DEF GuestAnnounce
  <1>3. Named' /\ HostFits' /\ Kept'
    BY <1>2 DEF Fits, GuestAnnounce, Named, HostFits, Kept, Sent
  <1> QED BY <1>1, <1>3 DEF Fits

\* The child answers a request: the answer has the name and the id of the request.
LEMMA AnswerFits == ASSUME V1TypeOK, Fits, GuestAnswer PROVE Fits'
  <1>1. PICK r \in atGuest, fields \in V1Replies :
          /\ atGuest' = atGuest \ {r}
          /\ stdout' = Append(stdout, Result(r[1], r[2], fields))
    BY DEF GuestAnswer
  <1> DEFINE new == Result(r[1], r[2], fields)
  <1>2. r[1] \in 1..(V1IdWidth - 1) /\ r[2] \in V1Calls
    BY V1Types
  <1>3. /\ new \in Frames /\ new.kind = "result" /\ new.id = r[1] /\ new.of = r[2]
    BY <1>2, V1Assumption DEF Result, Frames
  <1> HIDE DEF new
  <1>4. /\ Len(stdout') = Len(stdout) + 1 /\ Len(stdout) \in Nat
        /\ \A k \in 1..Len(stdout') : stdout'[k] = IF k <= Len(stdout) THEN stdout[k] ELSE new
    BY <1>1, <1>3, Appended DEF V1TypeOK, new
  <1>5. /\ call[r[2]].id = r[1] /\ Sent(r[2]) /\ reader # "first"
        /\ \A q \in atGuest' : q[1] # r[1]
    <2>1. ASSUME NEW q \in atGuest, q[1] = r[1] PROVE q = r
      <3>1. q[2] = r[2]
        BY <1>2, <2>1, V1Types DEF Fits, Named, DrawnOnce
      <3> QED BY <2>1, <3>1 DEF V1TypeOK
    <2> QED BY <1>1, <2>1 DEF Fits, Named, HostFits
  <1>6. DrawnOnce' /\ Held' /\ EndFits'
    BY HostUntouched DEF GuestAnswer
  <1>7. Named'
    <2>1. UNCHANGED <<entries, call, reader>> /\ (\A c : Sent(c)' <=> Sent(c))
      BY DEF GuestAnswer, Sent
    <2>2. ASSUME NEW k \in 1..Len(stdout'), stdout'[k].kind = "result", stdout'[k].id # 0
          PROVE  /\ stdout'[k].of \in V1Calls /\ call[stdout'[k].of].id = stdout'[k].id
                 /\ Sent(stdout'[k].of)
      <3>1. CASE k <= Len(stdout)
        BY <1>4, <1>5, <2>2, <3>1 DEF Fits, Named
      <3>2. CASE ~(k <= Len(stdout))
        BY <1>2, <1>3, <1>4, <1>5, <3>2
      <3> QED BY <3>1, <3>2
    <2>3. \A q \in atGuest' : call[q[2]].id = q[1] /\ Sent(q[2])
      BY <1>1 DEF Fits, Named
    <2> QED BY <2>1, <2>2, <2>3 DEF Fits, Named
  <1>8. HostFits'
    BY <1>5 DEF Fits, GuestAnswer, HostFits
  <1>9. Kept'
    BY <1>1, <1>3, <1>4, <1>5 DEF Fits, GuestAnswer, Kept
  <1> QED BY <1>6, <1>7, <1>8, <1>9 DEF Fits

\* A frame out of turn has no id of a call, and counts as a fault.
LEMMA BreakFits == ASSUME V1TypeOK, Fits, GuestBreaks PROVE Fits'
  <1>1. PICK kind \in {"ready", "garbage", "result"} : stdout' = Append(stdout, Frame(kind))
    BY DEF GuestBreaks
  <1> DEFINE new == Frame(kind)
  <1>2. new \in Frames /\ new.id = 0
    BY V1Assumption DEF Frame, Frames
  <1> HIDE DEF new
  <1>3. /\ Len(stdout') = Len(stdout) + 1 /\ Len(stdout) \in Nat
        /\ \A k \in 1..Len(stdout') : stdout'[k] = IF k <= Len(stdout) THEN stdout[k] ELSE new
    BY <1>1, <1>2, Appended DEF V1TypeOK, new
  <1>4. DrawnOnce' /\ Held' /\ EndFits'
    BY HostUntouched DEF GuestBreaks
  <1>5. Named'
    BY <1>2, <1>3 DEF Fits, GuestBreaks, Named, Sent
  <1>6. HostFits' /\ Kept'
    BY DEF Fits, GuestBreaks, HostFits, Kept, V1TypeOK
  <1> QED BY <1>4, <1>5, <1>6 DEF Fits

\* The child exits.
LEMMA ExitFits == ASSUME V1TypeOK, Fits, GuestExit PROVE Fits'
  <1>1. DrawnOnce' /\ Held' /\ EndFits'
    BY HostUntouched DEF GuestExit, Killed
  <1>2. Named' /\ HostFits'
    BY DEF Fits, GuestExit, Killed, Named, Sent, HostFits
  <1>3. Kept'
    BY DEF Fits, GuestExit, Killed, Kept
  <1> QED BY <1>1, <1>2, <1>3 DEF Fits

-----------------------------------------------------------------------------
(* The reader thread                                                        *)

\* The first frame decides the readiness.
LEMMA FirstFits == ASSUME V1TypeOK, Fits, ReadFirst PROVE Fits'
  <1>1. stdout' = <<>> /\ ready' \in {"ok", "mismatch", "bad"} /\ atGuest = {}
    <2>1. Len(stdout) <= 1 /\ atGuest = {}
      BY DEF Fits, HostFits, ReadFirst
    <2>2. stdout # <<>> => Tail(stdout) = <<>>
      BY <2>1 DEF V1TypeOK
    <2>3. ready' \in {"ok", "mismatch", "bad"}
      <3> DEFINE k == Head(stdout).kind
      <3>1. CASE k = "ready"
        BY <3>1 DEF ReadFirst
      <3>2. CASE k = "mismatch"
        BY <3>2 DEF ReadFirst
      <3>3. CASE k \notin {"ready", "mismatch"}
        BY <3>3 DEF ReadFirst
      <3> QED BY <3>1, <3>2, <3>3
    <2> QED BY <2>1, <2>2, <2>3 DEF ReadFirst
  <1>2. Len(stdout') = 0
    BY <1>1
  <1>3. host.pc \in {"start", "joinrefused", "refused"} /\ ready = "none"
    BY DEF Fits, HostFits, ReadFirst
  <1>4. DrawnOnce' /\ Held' /\ EndFits'
    BY <1>3 DEF Fits, ReadFirst, DrawnOnce, Held, EndFits, RefusedStartReaps, Waiting, Busy
  <1>5. Named' /\ HostFits'
    BY <1>1, <1>2, <1>3 DEF Fits, ReadFirst, Named, Sent, HostFits
  <1>6. Kept'
    BY <1>1, <1>2 DEF Fits, ReadFirst, Kept
  <1> QED BY <1>4, <1>5, <1>6 DEF Fits

\* The entry of a call is the one under its id, and no other.
LEMMA EntryOf ==
  ASSUME V1TypeOK, Fits, NEW i \in DOMAIN entries, NEW c \in V1Calls
  PROVE  call[c].id = i => entries[i] = c
  BY V1Types, V1Assumption DEF Fits, Named, DrawnOnce

\* What a call is answered is the result that names it.
LEMMA ResultIsOwn ==
  ASSUME V1TypeOK, Fits, ReadResult
  PROVE  /\ Head(stdout).id \in DOMAIN entries /\ Head(stdout).of = entries[Head(stdout).id]
         /\ Sent(Head(stdout).of)
  <1>1. Head(stdout) = stdout[1] /\ 1 \in 1..Len(stdout)
    BY Tailed DEF ReadResult, V1TypeOK
  <1>2. /\ stdout[1].kind = "result" /\ stdout[1].id \in DOMAIN entries
        /\ reader = "reading"
    BY <1>1 DEF ReadResult
  <1>3. stdout[1].id # 0
    BY <1>2, V1Types
  <1>4. /\ stdout[1].of \in V1Calls /\ call[stdout[1].of].id = stdout[1].id
        /\ Sent(stdout[1].of)
    BY <1>1, <1>2, <1>3 DEF Fits, Named
  <1> QED BY <1>1, <1>2, <1>4, EntryOf

\* A result answers the call of its entry, and takes the entry.
LEMMA ResultFits == ASSUME V1TypeOK, Fits, ReadResult PROVE Fits' /\ (OwnAnswer => OwnAnswer')
  <1> DEFINE frame == Head(stdout)
             id == frame.id
             c == entries[id]
             answer == <<frame.of, Decode(frame.fields)>>
  <1>1. /\ id \in DOMAIN entries /\ frame.of = c /\ Sent(c) /\ c \in V1Calls /\ call[c].id = id
        /\ frame.kind = "result"
    BY ResultIsOwn, V1Types DEF Fits, Named, ReadResult
  <1>2. /\ Len(stdout') = Len(stdout) - 1 /\ frame = stdout[1] /\ Len(stdout) >= 1
        /\ Len(stdout) \in Nat
        /\ \A k \in 1..Len(stdout') : stdout'[k] = stdout[k + 1] /\ k + 1 \in 1..Len(stdout)
    BY Tailed DEF ReadResult, V1TypeOK
  <1>3. /\ DOMAIN entries' = DOMAIN entries \ {id}
        /\ \A i \in DOMAIN entries \ {id} : entries'[i] = entries[i]
    <2>1. entries \in [DOMAIN entries -> V1Calls]
      BY DEF V1TypeOK
    <2>2. entries' = Restrict(entries, DOMAIN entries \ {id})
      BY DEF ReadResult
    <2> HIDE DEF id
    <2> QED BY <2>1, <2>2 DEF Restrict
  <1>4. /\ call' = [call EXCEPT ![c].answer = answer]
        /\ UNCHANGED <<child, stdin, atGuest, faults, reader, ready, host, failed, stopped, nextId>>
        /\ reader = "reading"
    BY DEF ReadResult
  <1>5. answer[1] = c /\ answer # Unanswered
    BY <1>1, V1Assumption DEF Unanswered
  <1> HIDE DEF frame, id, c, answer
  <1>6. /\ \A d \in V1Calls : call'[d].at = call[d].at /\ call'[d].id = call[d].id
        /\ \A d \in V1Calls : call'[d].answer = IF d = c THEN answer ELSE call[d].answer
    BY <1>1, <1>4 DEF V1TypeOK, CallRecords
  <1>7. DrawnOnce'
    BY <1>4, <1>6 DEF Fits, DrawnOnce
  <1>8. Named'
    <2>1. \A d \in V1Calls : Sent(d)' <=> Sent(d)
      BY <1>6 DEF Sent
    <2>2. \A i \in DOMAIN entries' : call'[entries'[i]].id = i
      BY <1>3, <1>6, V1Types DEF Fits, Named
    <2>3. \A r \in atGuest' : call'[r[2]].id = r[1] /\ Sent(r[2])'
      BY <1>4, <1>6, <2>1, V1Types DEF Fits, Named
    <2>4. ASSUME NEW k \in 1..Len(stdout'), stdout'[k].kind = "result", stdout'[k].id # 0
          PROVE  /\ stdout'[k].of \in V1Calls /\ call'[stdout'[k].of].id = stdout'[k].id
                 /\ call'[stdout'[k].of].at \in {"waiting", "done"}
      <3> DEFINE f == stdout[k + 1]
      <3>1. stdout'[k] = f /\ k + 1 \in 1..Len(stdout)
        BY <1>2
      <3>2. f.of \in V1Calls /\ call[f.of].id = f.id /\ Sent(f.of)
        BY <1>4, <2>4, <3>1 DEF Fits, Named
      <3> QED BY <1>6, <3>1, <3>2 DEF Sent
    <2> QED BY <2>2, <2>3, <2>4 DEF Named, Sent
  <1>9. HostFits'
    BY <1>4, <1>6 DEF Fits, HostFits
  <1>10. Held'
    <2> SUFFICES ASSUME NEW d \in V1Calls, call'[d].at = "waiting" \/ host' = Busy("send", d)
                 PROVE  \/ /\ call'[d].answer # Unanswered
                           /\ call'[d].at = "waiting" \/ reader' = "ended"
                        \/ call'[d].id \in DOMAIN entries' /\ entries'[call'[d].id] = d
      BY DEF Held
    <2>1. \/ call[d].answer # Unanswered /\ (call[d].at = "waiting" \/ reader = "ended")
          \/ call[d].id \in DOMAIN entries /\ entries[call[d].id] = d
      BY <1>4, <1>6 DEF Fits, Held
    <2>2. CASE d = c
      <3>1. call[c].at = "waiting"
        <4>1. host # Busy("send", c)
          BY <1>1 DEF Fits, HostFits, Sent
        <4> QED BY <1>4, <1>6, <2>2, <4>1
      <3> QED BY <1>5, <1>6, <2>2, <3>1
    <2>3. CASE d # c
      <3>1. call[d].id \in DOMAIN entries /\ entries[call[d].id] = d => call[d].id # id
        BY <2>3 DEF c
      <3> QED BY <1>3, <1>4, <1>6, <2>1, <2>3, <3>1
    <2> QED BY <2>2, <2>3
  <1>11. EndFits'
    <2>1. ~(stopped /\ host.pc = "idle")
      BY <1>4 DEF Fits, EndFits
    <2> QED BY <1>4, <2>1 DEF Fits, EndFits, RefusedStartReaps, Waiting
  <1>12. Kept'
    <2>1. reader' = "reading" /\ reader = "reading"
      BY <1>4
    <2> SUFFICES ASSUME faults' = 0, child' = "running"
                 PROVE  /\ \A r \in atGuest' : /\ r[1] \in DOMAIN entries'
                                              /\ \A k \in 1..Len(stdout') : stdout'[k].id # r[1]
                        /\ \A k \in 1..Len(stdout') :
                             stdout'[k].kind = "result" /\ stdout'[k].id \in DOMAIN entries'
                        /\ \A k, l \in 1..Len(stdout') : stdout'[k].id = stdout'[l].id => k = l
      BY <2>1 DEF Kept
    <2>2. /\ \A r \in atGuest : /\ r[1] \in DOMAIN entries
                                /\ \A k \in 1..Len(stdout) : stdout[k].id # r[1]
          /\ \A k \in 1..Len(stdout) : stdout[k].kind = "result" /\ stdout[k].id \in DOMAIN entries
          /\ \A k, l \in 1..Len(stdout) : stdout[k].id = stdout[l].id => k = l
      BY <1>4 DEF Fits, Kept
    <2>3. stdout[1].id = id /\ 1 \in 1..Len(stdout)
      BY <1>2 DEF id
    <2>4. \A r \in atGuest' : /\ r[1] \in DOMAIN entries'
                             /\ \A k \in 1..Len(stdout') : stdout'[k].id # r[1]
      BY <1>2, <1>3, <1>4, <2>2, <2>3
    <2>5. \A k \in 1..Len(stdout') : stdout'[k].kind = "result" /\ stdout'[k].id \in DOMAIN entries'
      <3>1. \A k \in 1..Len(stdout') : stdout[k + 1].id # id
        BY <1>2, <2>2, <2>3
      <3> QED BY <1>2, <1>3, <2>2, <3>1
    <2>6. \A k, l \in 1..Len(stdout') : stdout'[k].id = stdout'[l].id => k = l
      <3> SUFFICES ASSUME NEW k \in 1..Len(stdout'), NEW l \in 1..Len(stdout'),
                          stdout'[k].id = stdout'[l].id
                   PROVE  k = l
        OBVIOUS
      <3>1. k + 1 = l + 1
        BY <1>2, <2>2
      <3> QED BY <3>1
    <2> QED BY <2>4, <2>5, <2>6
  <1>13. OwnAnswer => OwnAnswer'
    BY <1>5, <1>6 DEF OwnAnswer
  <1> QED BY <1>7, <1>8, <1>9, <1>10, <1>11, <1>12, <1>13 DEF Fits

\* Retiring the table leaves every call where it is, and those that had an entry answered.
LEMMA RetiredCalls ==
  ASSUME V1TypeOK, Fits, RetirePending
  PROVE  /\ entries' = <<>> /\ DOMAIN entries' = {}
         /\ \A c \in V1Calls : call'[c].at = call[c].at /\ call'[c].id = call[c].id
         /\ \A c \in V1Calls : call'[c].answer \in {call[c].answer, <<"host", "failure">>}
         /\ \A i \in DOMAIN entries : call'[entries[i]].answer = <<"host", "failure">>
         /\ <<"host", "failure">> # Unanswered
  <1>1. entries' = <<>> /\ call' = AllFailed /\ <<"host", "failure">> # Unanswered
    BY DEF RetirePending, Unanswered
  <1>2. ASSUME NEW c \in V1Calls
        PROVE  /\ call'[c].at = call[c].at /\ call'[c].id = call[c].id
               /\ call'[c].answer \in {call[c].answer, <<"host", "failure">>}
               /\ c \in Range(entries) => call'[c].answer = <<"host", "failure">>
    <2>1. call[c] \in CallRecords
      BY DEF V1TypeOK
    <2>2. call'[c] = IF c \in Range(entries)
                     THEN [call[c] EXCEPT !.answer = <<"host", "failure">>] ELSE call[c]
      BY <1>1 DEF AllFailed
    <2> QED BY <2>1, <2>2, Zenon DEF CallRecords
  <1>3. \A i \in DOMAIN entries : entries[i] \in Range(entries)
    BY DEF Range
  <1>4. DOMAIN entries' = {}
    BY <1>1
  <1> QED BY <1>1, <1>2, <1>3, <1>4, V1Types

\* Nothing names a call by an id it does not have, also when the table is retired.
LEMMA RetiredNames ==
  ASSUME V1TypeOK, Fits, RetirePending, failed', UNCHANGED <<atGuest, nextId>>,
         stdout' \in {stdout, <<>>}, reader # "first"
  PROVE  DrawnOnce' /\ Named' /\ (OwnAnswer => OwnAnswer')
  <1>1. DrawnOnce'
    BY RetiredCalls DEF Fits, DrawnOnce
  <1>2. Named'
    <2>1. \A d \in V1Calls : Sent(d)' <=> Sent(d)
      BY RetiredCalls DEF Sent
    <2>2. \A r \in atGuest' : call'[r[2]].id = r[1] /\ Sent(r[2])'
      BY <2>1, RetiredCalls, V1Types DEF Fits, Named
    <2>3. CASE stdout' = <<>>
      <3>1. Len(stdout') = 0
        BY <2>3
      <3> QED BY <2>2, <3>1, RetiredCalls DEF Named
    <2>4. CASE stdout' = stdout
      <3>1. \A k \in 1..Len(stdout) : stdout[k].kind = "result" /\ stdout[k].id # 0 =>
              /\ stdout[k].of \in V1Calls /\ call'[stdout[k].of].id = stdout[k].id
              /\ call'[stdout[k].of].at \in {"waiting", "done"}
        BY RetiredCalls DEF Fits, Named, Sent
      <3> QED BY <2>2, <2>4, <3>1, RetiredCalls DEF Named, Sent
    <2> QED BY <2>3, <2>4
  <1>3. OwnAnswer => OwnAnswer'
    BY RetiredCalls DEF OwnAnswer
  <1> QED BY <1>1, <1>2, <1>3

\* A frame out of place, or the end of the stream, marks the generation.
LEMMA UnexpectedFits == ASSUME V1TypeOK, Fits, ReadUnexpected PROVE Fits'
  <1>1. /\ reader = "reading" /\ reader' = "marked" /\ failed'
        /\ UNCHANGED <<child, stdin, atGuest, faults, ready, host, entries, stopped, nextId, call>>
    BY DEF ReadUnexpected
  <1>2. \A k \in 1..Len(stdout') : \E l \in 1..Len(stdout) : stdout'[k] = stdout[l]
    <2>1. CASE stdout = <<>>
      BY <2>1 DEF ReadUnexpected
    <2>2. CASE stdout # <<>>
      <3>1. \A k \in 1..Len(stdout') : k + 1 \in 1..Len(stdout) /\ stdout'[k] = stdout[k + 1]
        <4>1. stdout' = Tail(stdout) /\ Len(stdout) \in Nat
          BY <2>2, V1Types DEF ReadUnexpected
        <4> QED BY <2>2, <4>1, Tailed DEF V1TypeOK
      <3> QED BY <3>1
    <2> QED BY <2>1, <2>2
  <1>3. DrawnOnce' /\ HostFits' /\ Held'
    BY <1>1 DEF Fits, DrawnOnce, HostFits, Held
  <1>4. Named'
    <2>1. \A k \in 1..Len(stdout') : stdout'[k].kind = "result" /\ stdout'[k].id # 0 =>
            /\ stdout'[k].of \in V1Calls /\ call[stdout'[k].of].id = stdout'[k].id
            /\ Sent(stdout'[k].of)
      BY <1>1, <1>2 DEF Fits, Named
    <2> QED BY <1>1, <2>1 DEF Fits, Named, Sent
  <1>5. EndFits'
    BY <1>1 DEF Fits, EndFits, RefusedStartReaps, Waiting
  <1>6. ASSUME faults = 0 PROVE child = "dead"
    <2>1. CASE stdout = <<>>
      BY <2>1 DEF ReadUnexpected, AtEnd
    <2>2. CASE stdout # <<>>
      <3>1. Head(stdout) = stdout[1] /\ 1 \in 1..Len(stdout)
        BY <2>2, Tailed DEF V1TypeOK
      <3>2. child = "running" => stdout[1].kind = "result" /\ stdout[1].id \in DOMAIN entries
        BY <1>1, <1>6, <3>1 DEF Fits, Kept
      <3> QED BY <2>2, <3>1, <3>2 DEF ReadUnexpected, AtEnd, V1TypeOK
    <2> QED BY <2>1, <2>2
  <1>7. Kept'
    BY <1>1, <1>6 DEF Fits, Kept
  <1> QED BY <1>3, <1>4, <1>5, <1>7 DEF Fits

\* The reader retires the table and ends.
LEMMA RetiresFits == ASSUME V1TypeOK, Fits, ReaderRetires PROVE Fits' /\ (OwnAnswer => OwnAnswer')
  <1>1. /\ RetirePending /\ reader = "marked" /\ reader' = "ended" /\ stdout' = <<>>
        /\ UNCHANGED <<child, stdin, atGuest, faults, ready, host, failed, stopped, nextId>>
    BY DEF ReaderRetires
  <1>2. failed /\ failed'
    BY <1>1 DEF Fits, Kept
  <1>3. DrawnOnce' /\ Named' /\ (OwnAnswer => OwnAnswer')
    BY <1>1, <1>2, RetiredNames
  <1>4. HostFits'
    BY <1>1, RetiredCalls DEF Fits, HostFits
  <1>5. \A c \in V1Calls : call'[c].at = "waiting" \/ host' = Busy("send", c) =>
          call'[c].answer # Unanswered
    <2> TAKE c \in V1Calls
    <2> HAVE call'[c].at = "waiting" \/ host' = Busy("send", c)
    <2>1. \/ call[c].answer # Unanswered
          \/ call[c].id \in DOMAIN entries /\ entries[call[c].id] = c
      BY <1>1, RetiredCalls DEF Fits, Held
    <2> QED BY <1>1, <2>1, RetiredCalls
  <1>6. Held'
    BY <1>1, <1>5 DEF Held
  <1>7. EndFits'
    BY <1>1 DEF Fits, EndFits, RefusedStartReaps, Waiting
  <1>8. Kept'
    BY <1>1, <1>2, <1>5 DEF Fits, Kept
  <1> QED BY <1>3, <1>4, <1>6, <1>7, <1>8 DEF Fits

-----------------------------------------------------------------------------
(* The Host thread: start and end                                           *)

\* The start is over, one way or the other.
LEMMA StartFits ==
  ASSUME V1TypeOK, Fits, StartOk \/ StartMismatch \/ StartFails \/ StartReaped
  PROVE  Fits'
  <1>1. /\ host.pc \in {"start", "joinrefused"}
        /\ UNCHANGED <<stdout, faults, reader, ready, entries, failed, stopped, nextId, call>>
    BY DEF StartOk, StartMismatch, StartFails, StartReaped, Waiting
  <1>2. ~stopped
    BY <1>1 DEF Fits, EndFits
  <1>3. /\ host' \in {Idle, Busy("refused", Nobody), Busy("joinrefused", Nobody)}
        /\ host' = Idle => ready = "ok"
    BY DEF StartOk, StartMismatch, StartFails, StartReaped, Idle, Busy
  <1>4. /\ host'.pc \in {"idle", "refused", "joinrefused"}
        /\ host'.pc = "idle" => ready = "ok"
        /\ \A c \in V1Calls : /\ host' \notin {Busy("insert", c), Busy("send", c)}
                              /\ host \notin {Busy("insert", c), Busy("send", c)}
    BY <1>1, <1>3 DEF Idle, Busy
  <1>5. \/ UNCHANGED <<child, atGuest>>
        \/ child' = "dead" /\ atGuest' = {}
    BY DEF StartOk, StartMismatch, StartFails, StartReaped, Killed
  <1>6. DrawnOnce' /\ Held'
    BY <1>1, <1>4 DEF Fits, DrawnOnce, Held
  <1>7. Named'
    BY <1>1, <1>5 DEF Fits, Named, Sent
  <1>8. HostFits'
    BY <1>1, <1>4, <1>5 DEF Fits, HostFits
  <1>9. EndFits'
    <2>1. host'.pc = "joinrefused" => child' = "dead"
      BY DEF StartOk, StartMismatch, StartFails, StartReaped, Killed, Idle, Busy
    <2>2. RefusedStartReaps'
      <3>1. CASE StartOk \/ StartFails
        BY <3>1 DEF StartOk, StartFails, Idle, Busy, RefusedStartReaps, Waiting
      <3>2. CASE StartMismatch
        BY <3>2 DEF StartMismatch, RefusedStartReaps
      <3>3. CASE StartReaped
        BY <3>3 DEF Fits, EndFits, StartReaped, RefusedStartReaps, Waiting
      <3> QED BY <3>1, <3>2, <3>3
    <2> QED BY <1>1, <1>2, <1>4, <2>1, <2>2 DEF EndFits
  <1>10. Kept'
    BY <1>1, <1>5 DEF Fits, Kept
  <1> QED BY <1>6, <1>7, <1>8, <1>9, <1>10 DEF Fits

\* Deactivation kills the child and goes on to join the reader.
LEMMA StopFits == ASSUME V1TypeOK, Fits, Stop PROVE Fits'
  <1>1. /\ host.pc = "idle" /\ host' = Busy("join", Nobody) /\ stopped' /\ child' = "dead"
        /\ atGuest' = {}
        /\ UNCHANGED <<stdin, stdout, faults, reader, ready, entries, failed, nextId, call>>
    BY DEF Stop, Killed, Waiting
  <1>2. /\ host'.pc = "join"
        /\ \A c \in V1Calls : /\ host' \notin {Busy("insert", c), Busy("send", c)}
                              /\ host \notin {Busy("insert", c), Busy("send", c)}
    BY <1>1 DEF Busy
  <1>3. DrawnOnce' /\ Held' /\ Named'
    BY <1>1, <1>2 DEF Fits, DrawnOnce, Held, Named, Sent
  <1>4. HostFits' /\ EndFits' /\ Kept'
    BY <1>1, <1>2 DEF Fits, HostFits, EndFits, RefusedStartReaps, Waiting, Kept
  <1> QED BY <1>3, <1>4 DEF Fits

\* The reader is joined, and what it left is retired.
LEMMA FinishFits == ASSUME V1TypeOK, Fits, FinishStop PROVE Fits' /\ (OwnAnswer => OwnAnswer')
  <1>1. /\ RetirePending /\ host.pc = "join" /\ host' = Idle /\ reader = "ended" /\ failed'
        /\ UNCHANGED <<child, stdin, atGuest, stdout, faults, reader, ready, stopped, nextId>>
    BY DEF FinishStop, Waiting
  <1>2. /\ host'.pc = "idle"
        /\ \A c \in V1Calls : /\ host' \notin {Busy("insert", c), Busy("send", c)}
                              /\ host \notin {Busy("insert", c), Busy("send", c)}
    BY <1>1 DEF Busy, Idle
  <1>3. DrawnOnce' /\ Named' /\ (OwnAnswer => OwnAnswer')
    BY <1>1, RetiredNames
  <1>4. \A c \in V1Calls : call'[c].at = "waiting" => call'[c].answer # Unanswered
    <2> TAKE c \in V1Calls
    <2> HAVE call'[c].at = "waiting"
    <2>1. \/ call[c].answer # Unanswered
          \/ call[c].id \in DOMAIN entries /\ entries[call[c].id] = c
      BY <1>1, RetiredCalls DEF Fits, Held
    <2> QED BY <1>1, <2>1, RetiredCalls
  <1>5. HostFits'
    BY <1>1, <1>2, RetiredCalls DEF Fits, HostFits
  <1>6. Held'
    BY <1>2, <1>4 DEF Held
  <1>7. EndFits'
    BY <1>1, <1>2, RetiredCalls DEF Fits, EndFits, RefusedStartReaps, Waiting
  <1>8. Kept'
    BY <1>1, <1>4 DEF Fits, Kept
  <1> QED BY <1>3, <1>5, <1>6, <1>7, <1>8 DEF Fits

-----------------------------------------------------------------------------
(* The Host thread: invocations                                             *)

\* The counter of the ids goes up by one, or back to 0.
LEMMA Wraps == ASSUME NEW n \in Nat, NEW w \in Nat, n < w PROVE (n + 1) % w \in {0, n + 1}
  <1>1. CASE n + 1 = w
    BY <1>1
  <1>2. CASE n + 1 < w
    BY <1>2
  <1> QED BY <1>1, <1>2

\* The Host answers a call: it is done, and the others are as they were.
LEMMA HostAnswers ==
  ASSUME V1TypeOK, NEW c \in V1Calls, NEW outcome, Answer(c, outcome)
  PROVE  /\ call'[c].at = "done" /\ call'[c].id = call[c].id
         /\ call'[c].answer = <<"host", outcome>>
         /\ \A d \in V1Calls : d # c => call'[d] = call[d]
  BY DEF Answer, V1TypeOK

\* An answer of the Host gives no call an id and no entry a call.
LEMMA AnsweredNames ==
  ASSUME V1TypeOK, Fits, NEW c \in V1Calls, NEW outcome, Answer(c, outcome),
         call[c].at # "done",
         DOMAIN entries' \subseteq DOMAIN entries,
         \A i \in DOMAIN entries' : entries'[i] = entries[i],
         atGuest' \subseteq atGuest, UNCHANGED <<stdout, reader>>,
         failed' \/ (UNCHANGED <<failed, nextId>>)
  PROVE  DrawnOnce' /\ Named' /\ (OwnAnswer => OwnAnswer')
  <1>1. \A d \in V1Calls : call'[d].id = call[d].id /\ (Sent(d) => Sent(d)')
    BY HostAnswers DEF Sent
  <1>2. \A d \in V1Calls : call'[d].at = call[d].at \/ call'[d].at = "done"
    BY HostAnswers
  <1>3. DrawnOnce'
    BY <1>1, <1>2 DEF Fits, DrawnOnce
  <1>4. Named'
    <2>1. \A i \in DOMAIN entries' : call'[entries'[i]].id = i
      BY <1>1, V1Types DEF Fits, Named
    <2>2. \A r \in atGuest' : call'[r[2]].id = r[1] /\ Sent(r[2])'
      BY <1>1, V1Types DEF Fits, Named
    <2>3. ASSUME reader # "first"
          PROVE  \A k \in 1..Len(stdout) : stdout[k].kind = "result" /\ stdout[k].id # 0 =>
                   /\ stdout[k].of \in V1Calls /\ call'[stdout[k].of].id = stdout[k].id
                   /\ call'[stdout[k].of].at \in {"waiting", "done"}
      BY <1>1, <2>3 DEF Fits, Named, Sent
    <2> QED BY <2>1, <2>2, <2>3 DEF Named, Sent
  <1>5. OwnAnswer => OwnAnswer'
    BY HostAnswers DEF OwnAnswer
  <1> QED BY <1>3, <1>4, <1>5

\* A call is refused, or its id is drawn.
LEMMA InvokeFits ==
  ASSUME V1TypeOK, Fits, NEW c \in V1Calls, Invoke(c)
  PROVE  Fits' /\ (OwnAnswer => OwnAnswer')
  <1>1. /\ host.pc = "idle" /\ call[c].at = "new" /\ call[c].id = 0
        /\ UNCHANGED <<child, stdin, atGuest, stdout, faults, reader, ready, entries, stopped>>
        /\ \A d \in V1Calls : /\ host \notin {Busy("insert", d), Busy("send", d)}
                              /\ call[d].at # "invoking"
        /\ ready = "ok"
    BY DEF Invoke, Waiting, Fits, DrawnOnce, HostFits, Busy
  <1>2. CASE \E outcome : Answer(c, outcome) /\ host' = host
                          /\ (failed' \/ (UNCHANGED <<failed, nextId>>))
    <2> PICK outcome : Answer(c, outcome) /\ host' = host
                       /\ (failed' \/ (UNCHANGED <<failed, nextId>>))
      BY <1>2
    <2>1. DrawnOnce' /\ Named' /\ (OwnAnswer => OwnAnswer')
      BY <1>1, AnsweredNames
    <2>2. \A d \in V1Calls : /\ call'[d].at # "invoking"
                             /\ call'[d].at = "waiting" => call'[d] = call[d]
      BY <1>1, HostAnswers
    <2>3. HostFits' /\ Held'
      BY <1>1, <2>2 DEF Fits, HostFits, Held
    <2>4. EndFits'
      BY <1>1 DEF Fits, EndFits, RefusedStartReaps, Waiting
    <2>5. Kept'
      <3>1. failed => failed'
        OBVIOUS
      <3> QED BY <1>1, <2>2, <3>1 DEF Fits, Kept
    <2> QED BY <2>1, <2>3, <2>4, <2>5 DEF Fits
  <1>3. CASE /\ ~failed /\ ~stopped /\ nextId # 0 /\ nextId' = NextId
             /\ host' = Busy("insert", c) /\ failed' = failed
             /\ call' = [call EXCEPT ![c] =
                           [at |-> "invoking", id |-> nextId, answer |-> @.answer]]
    <2>1. /\ call'[c] = [at |-> "invoking", id |-> nextId, answer |-> call[c].answer]
          /\ \A d \in V1Calls : d # c => call'[d] = call[d]
      BY <1>3 DEF V1TypeOK
    <2>2. nextId \in Nat /\ nextId' \in {0, nextId + 1}
      <3>1. /\ nextId \in Nat /\ V1IdWidth \in Nat /\ nextId < V1IdWidth
            /\ nextId' = (nextId + 1) % V1IdWidth
        BY <1>3, V1Assumption DEF V1TypeOK, NextId
      <3> QED BY <3>1, Wraps
    <2>3. \A d \in V1Calls : call[d].id \in Nat /\ call[d].id < nextId
      BY <1>3, V1Types, V1Assumption DEF Fits, DrawnOnce
    <2>4. DrawnOnce'
      <3>1. \A d, e \in V1Calls : call'[d].id # 0 /\ call'[d].id = call'[e].id => d = e
        BY <2>1, <2>3 DEF Fits, DrawnOnce
      <3>2. \A d \in V1Calls : nextId' = 0 \/ call'[d].id < nextId'
        BY <2>1, <2>2, <2>3
      <3>3. \A d \in V1Calls : /\ call'[d].at = "new" => call'[d].id = 0
                               /\ call'[d].at \in {"invoking", "waiting"} => call'[d].id # 0
        BY <1>3, <2>1 DEF Fits, DrawnOnce
      <3> QED BY <3>1, <3>2, <3>3 DEF DrawnOnce
    <2>5. Named'
      <3>1. ~Sent(c)
        BY <1>1 DEF Sent
      <3>2. \A i \in DOMAIN entries' : call'[entries'[i]].id = i
        BY <1>1, <2>1, V1Types, V1Assumption DEF Fits, Named
      <3>3. \A r \in atGuest' : call'[r[2]].id = r[1] /\ call'[r[2]].at \in {"waiting", "done"}
        BY <1>1, <2>1, <3>1, V1Types DEF Fits, Named, Sent
      <3>4. reader # "first" =>
              \A k \in 1..Len(stdout) : stdout[k].kind = "result" /\ stdout[k].id # 0 =>
                /\ stdout[k].of \in V1Calls /\ call'[stdout[k].of].id = stdout[k].id
                /\ call'[stdout[k].of].at \in {"waiting", "done"}
        BY <2>1, <3>1 DEF Fits, Named, Sent
      <3> QED BY <1>1, <3>2, <3>3, <3>4 DEF Named, Sent
    <2>6. /\ host'.pc = "insert" /\ host'.for = c
          /\ \A d \in V1Calls : /\ host' = Busy("insert", d) <=> d = c
                                /\ host' # Busy("send", d)
      BY <1>3 DEF Busy
    <2>7. HostFits'
      <3>1. \A d \in V1Calls : call'[d].at = "invoking" <=> d = c
        BY <1>1, <2>1
      <3> QED BY <1>1, <2>6, <3>1 DEF Fits, HostFits
    <2>8. Held'
      BY <1>1, <2>1, <2>6 DEF Fits, Held
    <2>9. EndFits'
      BY <1>1, <1>3, <2>6 DEF Fits, EndFits, RefusedStartReaps, Waiting
    <2>10. Kept'
      BY <1>1, <1>3, <2>1 DEF Fits, Kept
    <2>11. OwnAnswer => OwnAnswer'
      BY <2>1 DEF OwnAnswer
    <2> QED BY <2>4, <2>5, <2>7, <2>8, <2>9, <2>10, <2>11 DEF Fits
  <1> QED BY <1>2, <1>3 DEF Invoke

\* The table is full, or the entry of the call goes in.
LEMMA InsertFits ==
  ASSUME V1TypeOK, Fits, NEW c \in V1Calls, InsertEntry(c)
  PROVE  Fits' /\ (OwnAnswer => OwnAnswer')
  <1> DEFINE id == call[c].id
  <1>1. /\ host = Busy("insert", c) /\ host.pc = "insert"
        /\ call[c].at = "invoking" /\ id # 0 /\ ready = "ok" /\ ~stopped
        /\ UNCHANGED <<child, stdin, atGuest, stdout, faults, reader, ready, failed, stopped,
                       nextId>>
        /\ \A d \in V1Calls : d # c => call[d].at # "invoking"
        /\ \A d \in V1Calls : host # Busy("send", d)
    BY DEF InsertEntry, Fits, DrawnOnce, HostFits, EndFits, Busy
  <1>2. CASE Answer(c, "exhausted") /\ host' = Idle /\ UNCHANGED entries
    <2>1. DrawnOnce' /\ Named' /\ (OwnAnswer => OwnAnswer')
      BY <1>1, <1>2, AnsweredNames
    <2>2. \A d \in V1Calls : /\ call'[d].at # "invoking"
                             /\ call'[d].at = "waiting" => call'[d] = call[d]
      BY <1>1, <1>2, HostAnswers
    <2>3. /\ host'.pc = "idle"
          /\ \A d \in V1Calls : host' \notin {Busy("insert", d), Busy("send", d)}
      BY <1>2 DEF Idle, Busy
    <2>4. HostFits' /\ Held'
      BY <1>1, <1>2, <2>2, <2>3 DEF Fits, HostFits, Held
    <2>5. EndFits'
      BY <1>1, <2>3 DEF Fits, EndFits, RefusedStartReaps, Waiting
    <2>6. Kept'
      BY <1>1, <1>2, <2>2 DEF Fits, Kept
    <2> QED BY <2>1, <2>4, <2>5, <2>6 DEF Fits
  <1>3. CASE /\ entries' = [i \in DOMAIN entries \union {id} |-> IF i = id THEN c ELSE entries[i]]
             /\ host' = Busy("send", c) /\ UNCHANGED call
    <2>1. /\ DOMAIN entries' = DOMAIN entries \union {id} /\ entries'[id] = c
          /\ \A i \in DOMAIN entries : i # id => entries'[i] = entries[i]
      BY <1>3
    <2>2. /\ host'.pc = "send" /\ host'.for = c
          /\ \A d \in V1Calls : /\ host' = Busy("send", d) <=> d = c
                                /\ host' # Busy("insert", d)
      BY <1>3 DEF Busy
    <2>3. DrawnOnce' /\ Named'
      BY <1>1, <1>3, <2>1 DEF Fits, DrawnOnce, Named, Sent
    <2>4. HostFits'
      BY <1>1, <1>3, <2>2 DEF Fits, HostFits
    <2>5. Held'
      <3>1. \A d \in V1Calls : d # c => call[d].id # id
        BY <1>1 DEF Fits, DrawnOnce
      <3> QED BY <1>1, <1>3, <2>1, <2>2, <3>1 DEF Fits, Held
    <2>6. EndFits'
      BY <1>1, <2>2 DEF Fits, EndFits, RefusedStartReaps, Waiting
    <2>7. Kept'
      BY <1>1, <1>3, <2>1 DEF Fits, Kept
    <2>8. OwnAnswer => OwnAnswer'
      BY <1>3 DEF OwnAnswer
    <2> QED BY <2>3, <2>4, <2>5, <2>6, <2>7, <2>8 DEF Fits
  <1> QED BY <1>2, <1>3 DEF InsertEntry

\* The request goes out, or its entry is taken back.
LEMMA SendFits ==
  ASSUME V1TypeOK, Fits, NEW c \in V1Calls, SendInvoke(c)
  PROVE  Fits' /\ (OwnAnswer => OwnAnswer')
  <1> DEFINE id == call[c].id
  <1>1. /\ host = Busy("send", c) /\ host.pc = "send" /\ host' = Idle
        /\ call[c].at = "invoking" /\ id # 0 /\ ready = "ok" /\ ~stopped /\ reader # "first"
        /\ UNCHANGED <<child, stdin, stdout, faults, reader, ready, failed, stopped, nextId>>
        /\ \A d \in V1Calls : d # c => call[d].at # "invoking" /\ call[d].id # id
        /\ ~Sent(c)
    BY DEF SendInvoke, Fits, DrawnOnce, HostFits, EndFits, Busy, Sent
  <1>2. /\ host'.pc = "idle"
        /\ \A d \in V1Calls : host' \notin {Busy("insert", d), Busy("send", d)}
        /\ \A d \in V1Calls : host = Busy("send", d) => d = c
    BY <1>1 DEF Idle, Busy
  <1>3. /\ \A r \in atGuest : r[1] # id
        /\ \A k \in 1..Len(stdout) : stdout[k].kind = "result" => stdout[k].id # id
    BY <1>1, V1Types DEF Fits, Named
  <1>4. EndFits'
    BY <1>1, <1>2 DEF Fits, EndFits, RefusedStartReaps, Waiting
  <1>5. CASE /\ Writable /\ atGuest' = atGuest \union {<<id, c>>}
             /\ call' = [call EXCEPT ![c].at = "waiting"] /\ UNCHANGED entries
    <2>1. /\ call'[c].at = "waiting" /\ call'[c].id = id /\ call'[c].answer = call[c].answer
          /\ \A d \in V1Calls : d # c => call'[d] = call[d]
      <3>1. call[c] \in CallRecords
        BY DEF V1TypeOK
      <3>2. /\ call'[c] = [call[c] EXCEPT !.at = "waiting"]
            /\ \A d \in V1Calls : d # c => call'[d] = call[d]
        BY <1>5 DEF V1TypeOK
      <3> QED BY <3>1, <3>2, Zenon DEF CallRecords
    <2>2. DrawnOnce'
      BY <1>1, <2>1 DEF Fits, DrawnOnce
    <2>3. Named'
      <3>1. \A i \in DOMAIN entries' : call'[entries'[i]].id = i
        BY <1>5, <2>1, V1Types DEF Fits, Named
      <3>2. \A r \in atGuest' : call'[r[2]].id = r[1] /\ call'[r[2]].at \in {"waiting", "done"}
        BY <1>5, <2>1, V1Types DEF Fits, Named, Sent
      <3>3. \A k \in 1..Len(stdout) : stdout[k].kind = "result" /\ stdout[k].id # 0 =>
              /\ stdout[k].of \in V1Calls /\ call'[stdout[k].of].id = stdout[k].id
              /\ call'[stdout[k].of].at \in {"waiting", "done"}
        BY <1>1, <2>1 DEF Fits, Named, Sent
      <3> QED BY <1>1, <3>1, <3>2, <3>3 DEF Named, Sent
    <2>4. HostFits'
      BY <1>1, <1>2, <2>1 DEF Fits, HostFits
    <2>5. Held'
      BY <1>1, <1>2, <1>5, <2>1 DEF Fits, Held
    <2>6. Kept'
      <3>1. reader = "ended" /\ faults = 0 => child = "dead"
        BY DEF Fits, Kept
      <3>2. reader = "reading" => id \in DOMAIN entries
        BY <1>1 DEF Fits, Held
      <3>3. reader = "reading" /\ faults = 0 /\ child = "running" =>
              \A r \in atGuest' : /\ r[1] \in DOMAIN entries
                                  /\ \A k \in 1..Len(stdout) : stdout[k].id # r[1]
        <4> SUFFICES ASSUME reader = "reading", faults = 0, child = "running"
                     PROVE  \A r \in atGuest' : /\ r[1] \in DOMAIN entries
                                  /\ \A k \in 1..Len(stdout) : stdout[k].id # r[1]
          OBVIOUS
        <4>1. /\ \A r \in atGuest : /\ r[1] \in DOMAIN entries
                                    /\ \A k \in 1..Len(stdout) : stdout[k].id # r[1]
              /\ \A k \in 1..Len(stdout) : stdout[k].kind = "result"
          BY DEF Fits, Kept
        <4>2. \A k \in 1..Len(stdout) : stdout[k].id # id
          BY <1>3, <4>1
        <4> HIDE DEF id
        <4> QED BY <1>5, <3>2, <4>1, <4>2
      <3> QED BY <1>1, <1>5, <3>1, <3>3 DEF Fits, Kept, Writable
    <2>7. OwnAnswer => OwnAnswer'
      BY <2>1 DEF OwnAnswer
    <2> QED BY <1>4, <2>2, <2>3, <2>4, <2>5, <2>6, <2>7 DEF Fits
  <1>6. CASE Withheld(c)
    <2>1. /\ Answer(c, "unsent") /\ atGuest' = atGuest
          /\ DOMAIN entries' = DOMAIN entries \ {id}
          /\ \A i \in DOMAIN entries' : entries'[i] = entries[i]
      BY <1>6 DEF Withheld, Restrict
    <2>2. DrawnOnce' /\ Named' /\ (OwnAnswer => OwnAnswer')
      BY <1>1, <2>1, AnsweredNames
    <2>3. \A d \in V1Calls : /\ call'[d].at # "invoking"
                             /\ call'[d].at = "waiting" => call'[d] = call[d] /\ d # c
      BY <1>1, <2>1, HostAnswers
    <2>4. HostFits'
      BY <1>1, <1>2, <2>1, <2>3 DEF Fits, HostFits
    <2>5. Held'
      BY <1>1, <1>2, <2>1, <2>3 DEF Fits, Held
    <2>6. Kept'
      <3>1. /\ \A r \in atGuest : r[1] \in DOMAIN entries => r[1] \in DOMAIN entries'
            /\ \A k \in 1..Len(stdout) :
                 stdout[k].kind = "result" /\ stdout[k].id \in DOMAIN entries
                 => stdout[k].id \in DOMAIN entries'
        BY <1>3, <2>1
      <3> QED BY <1>1, <2>1, <2>3, <3>1 DEF Fits, Kept
    <2> QED BY <1>4, <2>2, <2>4, <2>5, <2>6 DEF Fits
  <1> QED BY <1>5, <1>6 DEF SendInvoke, Withheld

\* The caller takes the answer.
LEMMA ReturnFits ==
  ASSUME V1TypeOK, Fits, NEW c \in V1Calls, Return(c)
  PROVE  Fits' /\ (OwnAnswer => OwnAnswer')
  <1>1. /\ host.pc = "idle" /\ call[c].at = "waiting"
        /\ UNCHANGED <<child, stdin, atGuest, stdout, faults, reader, ready, host, entries, failed,
                       stopped, nextId>>
        /\ \A d \in V1Calls : host \notin {Busy("insert", d), Busy("send", d)}
    BY DEF Return, Waiting, Busy
  <1>2. /\ call'[c].at = "done" /\ call'[c].id = call[c].id /\ call'[c].answer = call[c].answer
        /\ \A d \in V1Calls : d # c => call'[d] = call[d]
    <2>1. call[c] \in CallRecords
      BY DEF V1TypeOK
    <2>2. /\ call'[c] = [call[c] EXCEPT !.at = "done"]
          /\ \A d \in V1Calls : d # c => call'[d] = call[d]
      BY DEF Return, V1TypeOK
    <2> QED BY <2>1, <2>2, Zenon DEF CallRecords
  <1>3. \A d \in V1Calls : /\ call'[d].id = call[d].id /\ (Sent(d) => Sent(d)')
                           /\ call'[d].at # "done" => call'[d].at = call[d].at
                           /\ call'[d].at = "waiting" => call'[d] = call[d]
    BY <1>2 DEF Sent
  <1>4. DrawnOnce'
    BY <1>1, <1>3 DEF Fits, DrawnOnce
  <1>5. Named'
    <2>1. \A i \in DOMAIN entries' : call'[entries'[i]].id = i
      BY <1>1, <1>3, V1Types DEF Fits, Named
    <2>2. \A r \in atGuest' : call'[r[2]].id = r[1] /\ Sent(r[2])'
      BY <1>1, <1>3, V1Types DEF Fits, Named
    <2>3. reader # "first" =>
            \A k \in 1..Len(stdout) : stdout[k].kind = "result" /\ stdout[k].id # 0 =>
              /\ stdout[k].of \in V1Calls /\ call'[stdout[k].of].id = stdout[k].id
              /\ call'[stdout[k].of].at \in {"waiting", "done"}
      BY <1>3 DEF Fits, Named, Sent
    <2> QED BY <1>1, <2>1, <2>2, <2>3 DEF Named, Sent
  <1>6. HostFits'
    BY <1>1, <1>2 DEF Fits, HostFits
  <1>7. Held' /\ Kept'
    BY <1>1, <1>3 DEF Fits, Held, Kept
  <1>8. EndFits'
    BY <1>1 DEF Fits, EndFits, RefusedStartReaps, Waiting
  <1>9. OwnAnswer => OwnAnswer'
    BY <1>2 DEF OwnAnswer
  <1> QED BY <1>4, <1>5, <1>6, <1>7, <1>8, <1>9 DEF Fits

\* The call is given up, and with it the generation when its entry is still there.
LEMMA AbandonFits ==
  ASSUME V1TypeOK, Fits, NEW c \in V1Calls, Abandon(c)
  PROVE  Fits' /\ (OwnAnswer => OwnAnswer')
  <1> DEFINE id == call[c].id
  <1>1. /\ host.pc = "idle" /\ call[c].at = "waiting" /\ Answer(c, "cancelled")
        /\ UNCHANGED <<stdin, stdout, faults, reader, ready, nextId>>
        /\ ready = "ok" /\ (stopped => entries = <<>> /\ reader = "ended" /\ child = "dead")
        /\ \A d \in V1Calls : /\ host \notin {Busy("insert", d), Busy("send", d)}
                              /\ call[d].at # "invoking"
    BY DEF Abandon, Waiting, Busy, Fits, HostFits, EndFits
  <1>2. /\ DOMAIN entries' = DOMAIN entries \ {id}
        /\ \A i \in DOMAIN entries' : entries'[i] = entries[i]
    BY DEF Abandon, Restrict
  <1>3. \/ UNCHANGED <<stopped, failed, child, atGuest, host>> /\ (id \in DOMAIN entries => stopped)
        \/ /\ ~stopped /\ stopped' /\ failed' /\ child' = "dead" /\ atGuest' = {}
           /\ host' = Busy("join", Nobody)
    BY DEF Abandon, Killed
  <1>4. \A d \in V1Calls : /\ call'[d].at # "invoking"
                           /\ call'[d].at = "waiting" => call'[d] = call[d] /\ d # c
    BY <1>1, HostAnswers
  <1>5. DrawnOnce' /\ Named' /\ (OwnAnswer => OwnAnswer')
    BY <1>1, <1>2, <1>3, AnsweredNames
  <1>6. /\ host' = host \/ host'.pc = "join"
        /\ \A d \in V1Calls : host' \notin {Busy("insert", d), Busy("send", d)}
    BY <1>1, <1>3 DEF Busy
  <1>7. HostFits'
    BY <1>1, <1>3, <1>4, <1>6 DEF Fits, HostFits
  <1>8. Held'
    <2>1. \A d \in V1Calls : d # c /\ call[d].at = "waiting" => call[d].id # id
      BY <1>1 DEF Fits, DrawnOnce
    <2> QED BY <1>1, <1>2, <1>4, <1>6, <2>1 DEF Fits, Held
  <1>9. EndFits'
    <2>1. stopped => entries' = <<>>
      <3>1. stopped => DOMAIN entries = {}
        BY <1>1
      <3>2. entries' \in [DOMAIN entries \ {id} -> V1Calls]
        BY TakenOut DEF Abandon, V1TypeOK
      <3> QED BY <3>1, <3>2, NoArguments
    <2> QED BY <1>1, <1>3, <1>6, <2>1 DEF Fits, EndFits, RefusedStartReaps, Waiting, Busy
  <1>10. Kept'
    <2>1. child' = "running" =>
            DOMAIN entries' = DOMAIN entries /\ UNCHANGED <<child, atGuest, failed>>
      BY <1>1, <1>2, <1>3
    <2>2. /\ child = "dead" => child' = "dead"
          /\ failed => failed'
      BY <1>1, <1>3
    <2> QED BY <1>1, <1>4, <2>1, <2>2 DEF Fits, Kept
  <1> QED BY <1>5, <1>7, <1>8, <1>9, <1>10 DEF Fits

-----------------------------------------------------------------------------
(* The theorems                                                             *)

\* The child runs, nothing was asked yet, and the Host waits for the readiness.
LEMMA V1Starts == ASSUME V1Init PROVE V1Inv
  <1> USE V1Assumption
  <1>1. V1TypeOK
    <2>1. [at |-> "new", id |-> 0, answer |-> Unanswered] \in CallRecords
      BY DEF CallRecords, Answers, Unanswered
    <2>2. /\ DOMAIN entries = {} /\ Cardinality(DOMAIN entries) <= V1MaxPending
          /\ entries \in [{} -> V1Calls]
      BY NoEntries DEF V1Init
    <2>3. call \in [V1Calls -> CallRecords]
      BY <2>1 DEF V1Init
    <2>4. host \in [pc: {"start", "joinrefused", "refused", "idle", "insert", "send", "join"},
                    for: V1Calls \union {Nobody}]
      BY DEF V1Init, Busy
    <2>5. stdout \in Seq(Frames) /\ nextId \in 0..(V1IdWidth - 1)
      BY DEF V1Init
    <2> QED BY <2>2, <2>3, <2>4, <2>5 DEF V1Init, V1TypeOK
  <1>2. /\ \A c \in V1Calls : /\ call[c].at = "new" /\ call[c].id = 0
                              /\ call[c].answer = Unanswered
        /\ host.pc = "start" /\ stdout = <<>> /\ Len(stdout) = 0 /\ DOMAIN entries = {}
        /\ \A c \in V1Calls : host \notin {Busy("insert", c), Busy("send", c)}
    BY DEF V1Init, Busy
  <1>3. DrawnOnce /\ Named /\ OwnAnswer
    BY <1>2 DEF V1Init, DrawnOnce, Named, OwnAnswer, Unanswered
  <1>4. HostFits /\ Held /\ EndFits /\ Kept
    BY <1>2 DEF V1Init, HostFits, Held, EndFits, RefusedStartReaps, Waiting, Kept
  <1> QED BY <1>1, <1>3, <1>4 DEF V1Inv

\* Whoever steps keeps the invariant.
LEMMA V1Steps == ASSUME V1Inv, [V1Next]_v1vars PROVE V1Inv'
  <1>0. V1TypeOK /\ Fits /\ OwnAnswer
    BY DEF V1Inv, Fits
  <1>1. ASSUME Fits', OwnAnswer', V1TypeOK' PROVE V1Inv'
    BY <1>1 DEF V1Inv, Fits
  <1>2. CASE GuestAnnounce \/ GuestAnswer \/ GuestBreaks \/ GuestExit
    <2>1. OwnAnswer'
      BY <1>0, <1>2 DEF GuestAnnounce, GuestAnswer, GuestBreaks, GuestExit, OwnAnswer
    <2> QED BY <1>0, <1>1, <1>2, <2>1, GuestTyped, AnnounceFits, AnswerFits, BreakFits, ExitFits
  <1>3. CASE V1Reader
    <2>1. V1TypeOK'
      BY <1>0, <1>3, ReaderTyped
    <2>2. CASE ReadFirst \/ ReadUnexpected
      <3>1. OwnAnswer'
        BY <1>0, <2>2 DEF ReadFirst, ReadUnexpected, OwnAnswer
      <3> QED BY <1>0, <1>1, <2>1, <2>2, <3>1, FirstFits, UnexpectedFits
    <2>3. CASE ReadResult
      BY <1>0, <1>1, <2>1, <2>3, ResultFits
    <2>4. CASE ReaderRetires
      BY <1>0, <1>1, <2>1, <2>4, RetiresFits
    <2> QED BY <1>3, <2>2, <2>3, <2>4 DEF V1Reader
  <1>4. CASE StartOk \/ StartMismatch \/ StartFails \/ StartReaped \/ Stop
    <2>1. OwnAnswer'
      BY <1>0, <1>4 DEF StartOk, StartMismatch, StartFails, StartReaped, Stop, OwnAnswer
    <2> QED BY <1>0, <1>1, <1>4, <2>1, EndsTyped, StartFits, StopFits
  <1>5. CASE FinishStop
    BY <1>0, <1>1, <1>5, EndsTyped, FinishFits
  <1>6. ASSUME NEW c \in V1Calls,
               InsertEntry(c) \/ SendInvoke(c) \/ Return(c) \/ Invoke(c) \/ Abandon(c)
        PROVE  V1Inv'
    <2>1. V1TypeOK'
      BY <1>0, <1>6, CallTyped DEF Fits
    <2>2. Fits' /\ OwnAnswer'
      BY <1>0, <1>6, InvokeFits, InsertFits, SendFits, ReturnFits, AbandonFits
    <2> QED BY <1>1, <2>1, <2>2
  <1>7. CASE UNCHANGED v1vars
    BY <1>7 DEF v1vars, V1Inv, V1TypeOK, DrawnOnce, Named, Sent, OwnAnswer, HostFits, Held, EndFits,
                RefusedStartReaps, Waiting, Kept
  <1> QED BY <1>2, <1>3, <1>4, <1>5, <1>6, <1>7 DEF V1Next, V1Guest, V1Host

\* The invariant of a generation, whatever the child writes and whenever it exits.
THEOREM V1Holds == V1Spec => []V1Inv
  <1>1. V1Init => V1Inv
    BY V1Starts
  <1>2. V1Inv /\ [V1Next]_v1vars => V1Inv'
    BY V1Steps
  <1> QED BY <1>1, <1>2, PTL DEF V1Spec

\* No call is answered with the result of another, however many ids are drawn, wherever
\* the counter wraps, and in whatever order the child answers.
THEOREM OwnAnswers == V1Spec => []OwnAnswer
  <1>1. V1Inv => OwnAnswer
    BY DEF V1Inv
  <1> QED BY <1>1, V1Holds, PTL

\* The invariant says what is left of a generation.
LEMMA InvLeavesNothing == ASSUME V1Inv PROVE NothingLeft
  <1>1. \A c \in V1Calls : call[c].at = "waiting" =>
          call[c].answer # Unanswered \/ call[c].id \in DOMAIN entries
    BY DEF V1Inv, Held
  <1>2. entries = <<>> => DOMAIN entries = {}
    OBVIOUS
  <1>3. StopSettlesAll
    BY <1>1, <1>2 DEF V1Inv, EndFits, StopSettlesAll, Waiting
  <1>4. StrandedOnlyByBreach
    <2>1. ASSUME NEW c \in V1Calls, Stranded(c), Waiting("idle")
          PROVE  failed /\ faults > 0 /\ ~stopped
      <3>1. failed /\ faults # 0
        BY <2>1 DEF V1Inv, Kept, Stranded
      <3>2. ~stopped
        BY <1>3, <2>1 DEF StopSettlesAll, Stranded
      <3> QED BY <3>1, <3>2 DEF V1Inv, V1TypeOK
    <2> QED BY <2>1 DEF StrandedOnlyByBreach
  <1> QED BY <1>3, <1>4 DEF V1Inv, EndFits, NothingLeft

\* A generation that was stopped, aborted or refused leaves no child, no entry and no
\* waiting call, apart from the refused descriptor; and only a child that broke the
\* protocol can leave a call without its answer.
THEOREM NothingIsLeft == V1Spec => []NothingLeft
  <1>1. V1Inv => NothingLeft
    BY InvLeavesNothing
  <1> QED BY <1>1, V1Holds, PTL

-----------------------------------------------------------------------------
(* Frames in a pipe or a channel                                            *)

\* What may be in a frame, by its kind.
LEMMA SessionFrames ==
  /\ \A f \in HostFrames :
       /\ f.kind \in {"invoke", "cancel", "initialize", "construct", "stop", "outboundresult"}
       /\ f.of \in Work /\ f = Message(f.kind, f.of, f.mark)
       /\ f.kind \in {"invoke", "cancel"} => f.of \in Invocations
       /\ f.kind \in {"initialize", "construct"} => f.of = "construct"
       /\ f.kind = "stop" => f.of = "cleanup"
  /\ \A f \in GuestFrames :
       /\ f.kind \in {"result", "outbound", "settlement", "cancelack", "garbage", "initialized",
                      "constructed", "stopped"}
       /\ f.of \in Work /\ f.mark \in Marks /\ f = Message(f.kind, f.of, f.mark)
       /\ f.kind \in {"initialized", "constructed", "stopped"} =>
            f.of \in Scopes /\ f.mark \in {"ok", "failed"}
  BY DEF HostFrames, GuestFrames, Work, Scopes, Message, Marks

\* The frames the two ends write have their types.
LEMMA SessionWritten ==
  /\ \A c \in Invocations, kind \in {"invoke", "cancel"} : Message(kind, c, "ok") \in HostFrames
  /\ \A kind \in {"initialize", "construct"} : Message(kind, "construct", "ok") \in HostFrames
  /\ Message("stop", "cleanup", "ok") \in HostFrames
  /\ \A w \in Work : Message("outboundresult", w, "outcome") \in HostFrames
  /\ \A w \in Work, kind \in {"result", "outbound", "settlement", "cancelack", "garbage"},
       mark \in Marks : Message(kind, w, mark) \in GuestFrames
  /\ \A w \in Scopes, kind \in {"initialized", "constructed", "stopped"},
       mark \in {"ok", "failed"} : Message(kind, w, mark) \in GuestFrames
  BY DEF HostFrames, GuestFrames, Work, Scopes, Message, Marks

\* The fields of a frame.
LEMMA MessageFields ==
  \A kind, of, mark : LET f == Message(kind, of, mark)
                      IN  f.kind = kind /\ f.of = of /\ f.mark = mark
  BY DEF Message

\* A frame is written at the end ...
LEMMA SessionAppend ==
  ASSUME NEW S, NEW s \in Seq(S), NEW f \in S
  PROVE  /\ Append(s, f) \in Seq(S) /\ Len(Append(s, f)) = Len(s) + 1 /\ Len(s) \in Nat
         /\ \A i \in 1..Len(s) : Append(s, f)[i] = s[i] /\ s[i] \in S
         /\ Append(s, f)[Len(s) + 1] = f
  OBVIOUS

\* ... and read at the head.
LEMMA SessionTail ==
  ASSUME NEW S, NEW s \in Seq(S), s # <<>>
  PROVE  /\ Head(s) \in S /\ Tail(s) \in Seq(S) /\ Len(Tail(s)) = Len(s) - 1
         /\ Len(s) \in Nat \ {0} /\ Head(s) = s[1]
         /\ \A i \in 1..Len(Tail(s)) : Tail(s)[i] = s[i + 1] /\ Tail(s)[i] \in S
  OBVIOUS

\* What a new frame about another piece of work leaves as it was.
LEMMA AppendOther ==
  ASSUME NEW S, NEW s \in Seq(S), NEW f \in S, NEW w, f.of # w
  PROVE  /\ NoneOf(Append(s, f), w) <=> NoneOf(s, w)
         /\ \A kind : OnlyOf(s, w, kind) => OnlyOf(Append(s, f), w, kind)
         /\ ResultsOf(s, w) => ResultsOf(Append(s, f), w)
         /\ SettlesOf(s, w) => SettlesOf(Append(s, f), w)
  <1> DEFINE t == Append(s, f)
  <1>1. /\ Len(t) = Len(s) + 1 /\ Len(s) \in Nat /\ \A i \in 1..Len(s) : t[i] = s[i]
        /\ t[Len(s) + 1] = f
    BY ONLY SessionAppend, f \in S, s \in Seq(S)
  <1> HIDE DEF t
  <1>2. NoneOf(t, w) <=> NoneOf(s, w)
    BY <1>1 DEF NoneOf
  <1>3. ASSUME NEW kind, OnlyOf(s, w, kind) PROVE OnlyOf(t, w, kind)
    BY <1>1, <1>3 DEF OnlyOf
  <1>4. ResultsOf(s, w) => ResultsOf(t, w)
    BY <1>1 DEF ResultsOf
  <1>5. SettlesOf(s, w) => SettlesOf(t, w)
    BY <1>1 DEF SettlesOf
  <1> QED BY <1>2, <1>3, <1>4, <1>5 DEF t

\* What a frame about w adds.
LEMMA AppendOwn ==
  ASSUME NEW S, NEW s \in Seq(S), NEW f \in S, NEW w, f.of = w
  PROVE  /\ NoneOf(s, w) => OnlyOf(Append(s, f), w, f.kind)
         /\ ResultsOf(s, w) /\ f.kind = "result" => ResultsOf(Append(s, f), w)
         /\ ResultsOf(s, w) /\ f.kind = "settlement" => SettlesOf(Append(s, f), w)
  <1> DEFINE t == Append(s, f)
  <1>1. /\ Len(t) = Len(s) + 1 /\ Len(s) \in Nat /\ \A i \in 1..Len(s) : t[i] = s[i]
        /\ t[Len(s) + 1] = f
    BY ONLY SessionAppend, f \in S, s \in Seq(S)
  <1> HIDE DEF t
  <1>2. NoneOf(s, w) => OnlyOf(t, w, f.kind)
    BY <1>1 DEF OnlyOf, NoneOf
  <1>3. ResultsOf(s, w) /\ f.kind = "result" => ResultsOf(t, w)
    BY <1>1 DEF ResultsOf
  <1>4. ResultsOf(s, w) /\ f.kind = "settlement" => SettlesOf(t, w)
    BY <1>1 DEF SettlesOf, ResultsOf
  <1> QED BY <1>2, <1>3, <1>4 DEF t

\* What reading a frame about another piece of work leaves as it was.
LEMMA TailOther ==
  ASSUME NEW S, NEW s \in Seq(S), s # <<>>, NEW w, Head(s).of # w
  PROVE  /\ NoneOf(Tail(s), w) <=> NoneOf(s, w)
         /\ \A kind : OnlyOf(s, w, kind) => OnlyOf(Tail(s), w, kind)
         /\ ResultsOf(s, w) => ResultsOf(Tail(s), w)
         /\ SettlesOf(s, w) => SettlesOf(Tail(s), w)
  <1> DEFINE t == Tail(s)
  <1>0. Head(s) = s[1]
    OBVIOUS
  <1>1. /\ Len(t) = Len(s) - 1 /\ Len(s) \in Nat \ {0} /\ \A i \in 1..Len(t) : t[i] = s[i + 1]
        /\ s[1].of # w
    <2>1. /\ Len(t) = Len(s) - 1 /\ Len(s) \in Nat \ {0}
          /\ \A i \in 1..Len(t) : t[i] = s[i + 1]
      BY SessionTail
    <2> QED BY <1>0, <2>1
  <1> HIDE DEF t
  <1>2. \A i \in 1..Len(s) : s[i].of = w => i - 1 \in 1..Len(t) /\ t[i - 1] = s[i]
    BY <1>1
  <1>3. NoneOf(t, w) <=> NoneOf(s, w)
    <2>1. ASSUME NoneOf(s, w), NEW i \in 1..Len(t) PROVE t[i].of # w
      <3>1. i + 1 \in 1..Len(s) /\ t[i] = s[i + 1]
        BY <1>1
      <3> QED BY <2>1, <3>1 DEF NoneOf
    <2>2. ASSUME NoneOf(t, w), NEW i \in 1..Len(s) PROVE s[i].of # w
      BY <1>2, <2>2 DEF NoneOf
    <2> QED BY <2>1, <2>2 DEF NoneOf
  <1>4. ASSUME NEW kind, OnlyOf(s, w, kind) PROVE OnlyOf(t, w, kind)
    <2>1. PICK i \in 1..Len(s) : /\ s[i].of = w /\ s[i].kind = kind
                                 /\ \A j \in 1..Len(s) : s[j].of = w => j = i
      BY <1>4 DEF OnlyOf
    <2>2. i - 1 \in 1..Len(t) /\ t[i - 1] = s[i]
      BY <1>2, <2>1
    <2>3. \A j \in 1..Len(t) : t[j].of = w => j = i - 1
      BY <1>1, <2>1
    <2> QED BY <2>1, <2>2, <2>3 DEF OnlyOf
  <1>5. ResultsOf(s, w) => ResultsOf(t, w)
    BY <1>1 DEF ResultsOf
  <1>6. SettlesOf(s, w) => SettlesOf(t, w)
    <2> SUFFICES ASSUME SettlesOf(s, w) PROVE SettlesOf(t, w)
      OBVIOUS
    <2>1. PICK i \in 1..Len(s) :
            /\ s[i].of = w /\ s[i].kind = "settlement"
            /\ \A j \in 1..Len(s) : s[j].of = w /\ j # i => j < i /\ s[j].kind = "result"
      BY DEF SettlesOf
    <2>2. i - 1 \in 1..Len(t) /\ t[i - 1] = s[i]
      BY <1>2, <2>1
    <2>3. \A j \in 1..Len(t) : t[j].of = w /\ j # i - 1 => j < i - 1 /\ t[j].kind = "result"
      BY <1>1, <2>1
    <2> QED BY <2>1, <2>2, <2>3 DEF SettlesOf
  <1> QED BY <1>3, <1>4, <1>5, <1>6 DEF t

\* What reading a frame about w means for w.
LEMMA TailOwn ==
  ASSUME NEW S, NEW s \in Seq(S), s # <<>>, NEW w, Head(s).of = w
  PROVE  /\ ~NoneOf(s, w)
         /\ \A kind : OnlyOf(s, w, kind) => Head(s).kind = kind /\ NoneOf(Tail(s), w)
         /\ ResultsOf(s, w) => Head(s).kind = "result" /\ ResultsOf(Tail(s), w)
         /\ SettlesOf(s, w) => \/ Head(s).kind = "settlement" /\ NoneOf(Tail(s), w)
                               \/ Head(s).kind = "result" /\ SettlesOf(Tail(s), w)
  <1> DEFINE t == Tail(s)
  <1>1. /\ Len(t) = Len(s) - 1 /\ Len(s) \in Nat \ {0} /\ \A i \in 1..Len(t) : t[i] = s[i + 1]
        /\ s[1].of = w /\ Head(s) = s[1]
    BY ONLY SessionTail, s \in Seq(S), s # <<>>, Head(s).of = w
  <1> HIDE DEF t
  <1>2. 1 \in 1..Len(s)
    BY <1>1
  <1>3. ~NoneOf(s, w)
    BY <1>1, <1>2 DEF NoneOf
  <1>4. ASSUME NEW kind, OnlyOf(s, w, kind) PROVE Head(s).kind = kind /\ NoneOf(t, w)
    BY <1>1, <1>2, <1>4 DEF OnlyOf, NoneOf
  <1>5. ResultsOf(s, w) => Head(s).kind = "result" /\ ResultsOf(t, w)
    BY <1>1, <1>2 DEF ResultsOf
  <1>6. ASSUME SettlesOf(s, w)
        PROVE  \/ Head(s).kind = "settlement" /\ NoneOf(t, w)
               \/ Head(s).kind = "result" /\ SettlesOf(t, w)
    <2>1. PICK i \in 1..Len(s) :
            /\ s[i].of = w /\ s[i].kind = "settlement"
            /\ \A j \in 1..Len(s) : s[j].of = w /\ j # i => j < i /\ s[j].kind = "result"
      BY <1>6 DEF SettlesOf
    <2>2. CASE i = 1
      BY <1>1, <1>2, <2>1, <2>2 DEF NoneOf
    <2>3. CASE i # 1
      <3>1. i - 1 \in 1..Len(t) /\ t[i - 1] = s[i]
        BY <1>1, <2>3
      <3>2. \A j \in 1..Len(t) : t[j].of = w /\ j # i - 1 => j < i - 1 /\ t[j].kind = "result"
        BY <1>1, <2>1
      <3>3. SettlesOf(t, w)
        BY <2>1, <3>1, <3>2 DEF SettlesOf
      <3> QED BY <1>1, <1>2, <2>1, <2>3, <3>3
    <2> QED BY <2>2, <2>3
  <1> QED BY <1>3, <1>4, <1>5, <1>6 DEF t

\* An empty pipe holds nothing; and two descriptions that exclude one another.
LEMMA FramesApart ==
  /\ \A w : NoneOf(<<>>, w) /\ ResultsOf(<<>>, w)
  /\ \A w, kind : ~OnlyOf(<<>>, w, kind) /\ ~SettlesOf(<<>>, w)
  /\ \A s, w, kind : OnlyOf(s, w, kind) => ~NoneOf(s, w)
  /\ \A s, w : SettlesOf(s, w) => ~NoneOf(s, w)
  /\ \A s, w : NoneOf(s, w) => ResultsOf(s, w)
  <1>1. Len(<<>>) = 0
    OBVIOUS
  <1> QED BY <1>1 DEF NoneOf, OnlyOf, ResultsOf, SettlesOf

-----------------------------------------------------------------------------
(* Types                                                                    *)

\* Work is invocations and scopes, and never both.
LEMMA WorkApart ==
  /\ Work = Invocations \union Scopes /\ Scopes = {"construct", "cleanup"}
  /\ \A c \in Invocations : c \in Work /\ c \notin Scopes /\ c # "construct" /\ c # "cleanup"
  /\ \A w \in Scopes : w \in Work /\ w \notin Invocations
  /\ "construct" \in Scopes /\ "cleanup" \in Scopes
  BY SessionAssumption DEF Work, Scopes

\* A table of pending work that gains no invocation keeps its limit.
LEMMA PendingFits ==
  ASSUME SessionTypeOK, NEW P, P \subseteq pending \union Scopes
  PROVE  /\ P \subseteq Work /\ IsFiniteSet(P)
         /\ Cardinality(P \intersect Invocations) <= MaxPending
  <1>1. IsFiniteSet(pending \union Scopes)
    <2>1. pending \union Scopes = (pending \union {"construct"}) \union {"cleanup"}
      BY DEF Scopes
    <2>2. IsFiniteSet(pending)
      BY DEF SessionTypeOK
    <2>3. IsFiniteSet(pending \union {"construct"})
      BY <2>2, FS_AddElement
    <2>4. IsFiniteSet((pending \union {"construct"}) \union {"cleanup"})
      BY <2>3, FS_AddElement
    <2> QED BY <2>1, <2>4
  <1>2. IsFiniteSet(P)
    BY <1>1, FS_Subset
  <1>3. P \intersect Invocations \subseteq pending \intersect Invocations
    BY WorkApart
  <1>4. IsFiniteSet(pending \intersect Invocations)
    BY FS_Intersection DEF SessionTypeOK
  <1>5. /\ Cardinality(P \intersect Invocations) \in Nat
        /\ Cardinality(pending \intersect Invocations) \in Nat
        /\ Cardinality(P \intersect Invocations) <= Cardinality(pending \intersect Invocations)
    BY <1>2, <1>3, <1>4, FS_Subset, FS_CardinalityType, FS_Intersection
  <1>6. P \subseteq Work
    BY WorkApart DEF SessionTypeOK
  <1> QED BY <1>2, <1>5, <1>6, SessionAssumption DEF SessionTypeOK

\* And so does one that was not full and gains one.
LEMMA PendingGrows ==
  ASSUME SessionTypeOK, NEW c \in Invocations, ~TableFull
  PROVE  /\ pending \union {c} \subseteq Work /\ IsFiniteSet(pending \union {c})
         /\ Cardinality((pending \union {c}) \intersect Invocations) <= MaxPending
  <1> DEFINE P == pending \intersect Invocations
  <1>1. IsFiniteSet(pending) /\ P \subseteq pending
    BY DEF SessionTypeOK
  <1>2. IsFiniteSet(P) /\ Cardinality(P) \in Nat /\ Cardinality(P) <= Cardinality(pending)
        /\ Cardinality(pending) \in Nat
    BY <1>1, FS_Subset, FS_CardinalityType
  <1>3. Cardinality(pending) < MaxPending
    BY <1>2, SessionAssumption DEF TableFull
  <1>4. (pending \union {c}) \intersect Invocations = P \union {c}
    OBVIOUS
  <1>5. Cardinality(P \union {c}) <= Cardinality(P) + 1 /\ Cardinality(P \union {c}) \in Nat
    <2>1. /\ IsFiniteSet(P \union {c})
          /\ Cardinality(P \union {c}) = IF c \in P THEN Cardinality(P) ELSE Cardinality(P) + 1
      BY <1>2, FS_AddElement
    <2> QED BY <1>2, <2>1
  <1>6. IsFiniteSet(pending \union {c})
    BY <1>1, FS_AddElement
  <1>7. pending \union {c} \subseteq Work
    BY WorkApart DEF SessionTypeOK
  <1> QED BY <1>2, <1>3, <1>4, <1>5, <1>6, <1>7, SessionAssumption

\* The frames of a pipe have their types.
LEMMA SessionReads ==
  ASSUME SessionTypeOK
  PROVE  /\ toHost # <<>> => Head(toHost) \in GuestFrames /\ Tail(toHost) \in Seq(GuestFrames)
         /\ toGuest # <<>> => Head(toGuest) \in HostFrames /\ Tail(toGuest) \in Seq(HostFrames)
         /\ \A w \in Work : /\ channel[w] \in Seq(GuestFrames)
                            /\ channel[w] # <<>> => /\ Head(channel[w]) \in GuestFrames
                                                    /\ Tail(channel[w]) \in Seq(GuestFrames)
  BY SessionTail DEF SessionTypeOK

\* The reader keeps the types ...
LEMMA SessionReaderTyped ==
  ASSUME SessionTypeOK, HostReader, UNCHANGED guest PROVE SessionTypeOK'
  <1> USE DEF guest
  <1>1. CASE ReadLifecycle
    <2>1. /\ Head(toHost) \in GuestFrames /\ Tail(toHost) \in Seq(GuestFrames)
          /\ Head(toHost).mark \in {"ok", "failed"}
      BY <1>1, SessionReads, SessionFrames DEF ReadLifecycle
    <2>2. /\ slots' \subseteq {"initialized", "constructed", "stopped"}
          /\ reply' \in {"none", "ok", "failed", "lost"}
          /\ readerAt' \in {"reading", "failing", "stopped", "failed"}
      BY <1>1, <2>1 DEF ReadLifecycle, SessionTypeOK
    <2>3. UNCHANGED <<process, toGuest, pending, channel, isFailed, isStopped, stopStarted,
                      monitor, life, calls, importing, timers, mishaps>>
      BY <1>1 DEF ReadLifecycle
    <2>4. toHost' \in Seq(GuestFrames)
      BY <1>1, <2>1 DEF ReadLifecycle
    <2> QED BY <2>2, <2>3, <2>4 DEF SessionTypeOK
  <1>2. CASE ReadEvent
    <2>1. /\ Head(toHost) \in GuestFrames /\ Tail(toHost) \in Seq(GuestFrames)
          /\ Head(toHost).of \in Work
      BY <1>2, SessionReads, SessionFrames DEF ReadEvent
    <2>2. Append(channel[Head(toHost).of], Head(toHost)) \in Seq(GuestFrames)
      BY <2>1, SessionReads, AppendProperties
    <2>3. channel' \in [Work -> Seq(GuestFrames)]
      BY <1>2, <2>2 DEF ReadEvent, SessionTypeOK
    <2> QED BY <1>2, <2>1, <2>3 DEF ReadEvent, SessionTypeOK
  <1>3. CASE ReadFailure
    <2>1. toHost' \in Seq(GuestFrames)
      BY <1>3, SessionReads DEF ReadFailure, SessionTypeOK
    <2> QED BY <1>3, <2>1 DEF ReadFailure, SessionTypeOK
  <1>4. CASE ReaderGivesUp
    <2>1. pending' = {}
      BY <1>4 DEF ReaderGivesUp, RetireAll
    <2>2. /\ pending' \subseteq Work /\ IsFiniteSet(pending')
          /\ Cardinality(pending' \intersect Invocations) <= MaxPending
      BY <2>1, PendingFits
    <2> QED BY <1>4, <2>2 DEF ReaderGivesUp, RetireAll, SessionTypeOK
  <1> QED BY <1>1, <1>2, <1>3, <1>4 DEF HostReader

\* ... and so does an abort.
LEMMA AbortTyped ==
  ASSUME SessionTypeOK, Abort \/ Untouched
  PROVE  /\ isStopped' \in BOOLEAN /\ isFailed' \in BOOLEAN /\ process' \in {"running", "dead"}
         /\ toGuest' \in Seq(HostFrames) /\ reply' \in {"none", "ok", "failed", "lost"}
         /\ slots' \subseteq {"initialized", "constructed", "stopped"}
         /\ pending' \subseteq Work /\ IsFiniteSet(pending')
         /\ Cardinality(pending' \intersect Invocations) <= MaxPending
  <1>1. pending' = pending \/ pending' = {}
    BY DEF Abort, Untouched, RetireAll
  <1>2. /\ pending' \subseteq Work /\ IsFiniteSet(pending')
        /\ Cardinality(pending' \intersect Invocations) <= MaxPending
    BY <1>1, PendingFits
  <1>3. CASE UNCHANGED <<isStopped, isFailed, process, toGuest, reply, slots, pending>>
    BY <1>2, <1>3 DEF SessionTypeOK
  <1>4. CASE isStopped' = TRUE /\ isFailed' = TRUE /\ Kill /\ RetireAll
    BY <1>2, <1>4, EmptySeq DEF Kill, RetireAll, SessionTypeOK
  <1> QED BY <1>3, <1>4 DEF Abort, Untouched

\* What a step of the Host writes fits the pipe.
LEMMA SendTyped ==
  ASSUME SessionTypeOK, NEW f \in HostFrames, Send(f) \/ UNCHANGED toGuest
  PROVE  toGuest' \in Seq(HostFrames)
  <1>1. toGuest \in Seq(HostFrames)
    BY DEF SessionTypeOK
  <1>2. CASE Send(f)
    BY <1>1, <1>2, SessionAppend DEF Send
  <1>3. CASE UNCHANGED toGuest
    BY <1>1, <1>3
  <1> QED BY <1>2, <1>3

\* A call that changes stays a call.
LEMMA CallTypedV2 ==
  ASSUME SessionTypeOK, NEW c \in Invocations
  PROVE  /\ \A at \in {"sending", "waiting", "done"} :
              [calls EXCEPT ![c].at = at] \in [Invocations -> CallStates]
         /\ Ends(c) \in [Invocations -> CallStates]
         /\ [calls EXCEPT ![c].cancelSent = TRUE] \in [Invocations -> CallStates]
         /\ [calls EXCEPT ![c].outcome = "outcome"] \in [Invocations -> CallStates]
  <1>1. calls[c] \in CallStates /\ calls \in [Invocations -> CallStates]
    BY DEF SessionTypeOK
  <1>2. /\ \A at \in {"sending", "waiting", "done"} : [calls[c] EXCEPT !.at = at] \in CallStates
        /\ [calls[c] EXCEPT !.cancelSent = TRUE] \in CallStates
        /\ [calls[c] EXCEPT !.outcome = "outcome"] \in CallStates
    BY <1>1 DEF CallStates
  <1>3. \A r \in CallStates : [calls EXCEPT ![c] = r] \in [Invocations -> CallStates]
    BY <1>1
  <1>4. \A at : [calls EXCEPT ![c].at = at] = [calls EXCEPT ![c] = [calls[c] EXCEPT !.at = at]]
    OBVIOUS
  <1> QED BY <1>2, <1>3, <1>4 DEF Ends

\* A channel that is emptied, or read, stays a channel.
LEMMA ChannelTyped ==
  ASSUME SessionTypeOK, NEW w \in Work
  PROVE  /\ [channel EXCEPT ![w] = <<>>] \in [Work -> Seq(GuestFrames)]
         /\ channel[w] # <<>> => [channel EXCEPT ![w] = Tail(@)] \in [Work -> Seq(GuestFrames)]
  <1>1. <<>> \in Seq(GuestFrames) /\ (channel[w] # <<>> => Tail(channel[w]) \in Seq(GuestFrames))
    BY SessionReads, EmptySeq
  <1> QED BY <1>1 DEF SessionTypeOK

\* The lifecycle keeps the types.
LEMMA SessionConstructTyped ==
  ASSUME SessionTypeOK, UNCHANGED guest,
         BeginConstruct \/ BeginFactory \/ EndFactory \/ Activate \/ Monitor
  PROVE  SessionTypeOK'
  <1> USE DEF guest
  <1>1. CASE BeginConstruct
    <2>1. toGuest' \in Seq(HostFrames)
      BY <1>1, SendTyped, SessionWritten DEF BeginConstruct
    <2>2. life' \in {"initializing", "refused"}
      BY <1>1 DEF BeginConstruct
    <2> QED BY <1>1, <2>1, <2>2 DEF BeginConstruct, SessionTypeOK
  <1>2. CASE BeginFactory
    <2>1. toGuest' \in Seq(HostFrames)
      BY <1>2, SendTyped, SessionWritten DEF BeginFactory
    <2>2. life' \in {"construct", "refused"}
      BY <1>2 DEF BeginFactory
    <2>3. pending' \subseteq pending \union Scopes
      BY <1>2, WorkApart DEF BeginFactory
    <2>4. /\ pending' \subseteq Work /\ IsFiniteSet(pending')
          /\ Cardinality(pending' \intersect Invocations) <= MaxPending
      BY <2>3, PendingFits
    <2>5. slots' \subseteq {"initialized", "constructed", "stopped"}
      BY <1>2 DEF BeginFactory, SessionTypeOK
    <2> QED BY <1>2, <2>1, <2>2, <2>4, <2>5, WorkApart DEF BeginFactory, SessionTypeOK
  <1>3. CASE EndFactory
    <2>1. /\ pending' \subseteq Work /\ IsFiniteSet(pending')
          /\ Cardinality(pending' \intersect Invocations) <= MaxPending
      BY <1>3, PendingFits DEF EndFactory
    <2>2. channel' \in [Work -> Seq(GuestFrames)]
      BY <1>3, ChannelTyped, WorkApart DEF EndFactory
    <2> QED BY <1>3, <2>1, <2>2 DEF EndFactory, SessionTypeOK, wire
  <1>4. CASE Activate
    BY <1>4 DEF Activate, SessionTypeOK, wire
  <1>5. CASE Monitor
    BY <1>5 DEF Monitor, Verdict, SessionTypeOK, wire
  <1> QED BY <1>1, <1>2, <1>3, <1>4, <1>5

\* So do its stop ...
LEMMA SessionStopTyped ==
  ASSUME SessionTypeOK, UNCHANGED guest,
         Deactivate \/ SendStop \/ EndStop \/ Reap
  PROVE  SessionTypeOK'
  <1> USE DEF guest
  <1>1. CASE Deactivate
    <2>1. CASE isFailed
      <3>1. Abort
        BY <1>1, <2>1 DEF Deactivate
      <3>2. /\ life' = "ended" /\ stopStarted' = TRUE
            /\ UNCHANGED <<toHost, channel, readerAt, monitor, calls, importing, timers, mishaps>>
        BY <1>1, <2>1 DEF Deactivate
      <3> QED BY <3>1, <3>2, AbortTyped DEF SessionTypeOK
    <2>2. CASE ~isFailed
      <3>1. pending' \subseteq pending \union Scopes
        BY <1>1, <2>2, WorkApart DEF Deactivate
      <3>2. /\ pending' \subseteq Work /\ IsFiniteSet(pending')
            /\ Cardinality(pending' \intersect Invocations) <= MaxPending
        BY <3>1, PendingFits
      <3>3. /\ slots' \subseteq {"initialized", "constructed", "stopped"} /\ reply' = "none"
            /\ life' = "stopping" /\ stopStarted' = TRUE
        BY <1>1, <2>2 DEF Deactivate, SessionTypeOK
      <3>4. UNCHANGED <<process, toGuest, toHost, channel, isFailed, isStopped, readerAt, monitor,
                        calls, importing, timers, mishaps>>
        BY <1>1, <2>2 DEF Deactivate
      <3> QED BY <3>2, <3>3, <3>4 DEF SessionTypeOK
    <2> QED BY <2>1, <2>2
  <1>2. CASE SendStop
    <2>1. toGuest' \in Seq(HostFrames)
      BY <1>2, SendTyped, SessionWritten DEF SendStop
    <2>2. life' \in {"cleanup", "refused"}
      BY <1>2 DEF SendStop
    <2> QED BY <1>2, <2>1, <2>2, WorkApart DEF SendStop, SessionTypeOK
  <1>3. CASE EndStop
    <2>1. /\ pending' \subseteq Work /\ IsFiniteSet(pending')
          /\ Cardinality(pending' \intersect Invocations) <= MaxPending
      BY <1>3, PendingFits DEF EndStop
    <2>2. channel' \in [Work -> Seq(GuestFrames)]
      BY <1>3, ChannelTyped, WorkApart DEF EndStop
    <2> QED BY <1>3, <2>1, <2>2 DEF EndStop, SessionTypeOK, wire
  <1>4. CASE Reap
    BY <1>4 DEF Reap, SessionTypeOK, wire
  <1> QED BY <1>1, <1>2, <1>3, <1>4

\* ... and the steps that abort it.
LEMMA SessionAbortTyped ==
  ASSUME SessionTypeOK, UNCHANGED guest,
         LifecycleCancelled \/ LifecycleEvent \/ DropGeneration
  PROVE  SessionTypeOK'
  <1> USE DEF guest
  <1>1. CASE LifecycleCancelled
    BY <1>1, AbortTyped DEF LifecycleCancelled, Mishap, SessionTypeOK
  <1>2. CASE LifecycleEvent
    <2>1. channel' \in [Work -> Seq(GuestFrames)]
      BY <1>2, ChannelTyped, WorkApart DEF LifecycleEvent
    <2>2. Abort \/ Untouched
      BY <1>2 DEF LifecycleEvent
    <2>3. importing' \subseteq Work /\ life' \in {life, "refused"}
      BY <1>2, WorkApart DEF LifecycleEvent, SessionTypeOK
    <2>4. UNCHANGED <<toHost, stopStarted, readerAt, monitor, calls, timers, mishaps>>
      BY <1>2 DEF LifecycleEvent
    <2> QED BY <2>1, <2>2, <2>3, <2>4, AbortTyped DEF SessionTypeOK
  <1>3. CASE DropGeneration
    BY <1>3, AbortTyped DEF DropGeneration, SessionTypeOK
  <1> QED BY <1>1, <1>2, <1>3

\* So do the invocations ...
LEMMA SessionCallTyped ==
  ASSUME SessionTypeOK, UNCHANGED guest, NEW c \in Invocations,
         BeginInvocation(c) \/ SendInvocation(c) \/ TakeResult(c) \/ TakeAck(c) \/ Lost(c)
           \/ TakeSettlement(c)
  PROVE  SessionTypeOK'
  <1> USE DEF guest
  <1>0. c \in Work
    BY WorkApart
  <1>1. CASE BeginInvocation(c)
    <2>1. /\ pending' \subseteq Work /\ IsFiniteSet(pending')
          /\ Cardinality(pending' \intersect Invocations) <= MaxPending
      BY <1>1, PendingFits, PendingGrows DEF BeginInvocation
    <2>2. calls' \in [Invocations -> CallStates]
      BY <1>1, CallTypedV2 DEF BeginInvocation
    <2>3. UNCHANGED <<process, toGuest, toHost, channel, slots, reply, isFailed, isStopped,
                      stopStarted, readerAt, monitor, life, importing, timers, mishaps>>
      BY <1>1 DEF BeginInvocation, wire, HostOnly
    <2> QED BY <2>1, <2>2, <2>3 DEF SessionTypeOK
  <1>2. CASE SendInvocation(c)
    <2>1. toGuest' \in Seq(HostFrames)
      BY <1>2, SendTyped, SessionWritten DEF SendInvocation
    <2>2. pending' \subseteq pending
      BY <1>2 DEF SendInvocation, Withdrawn
    <2>3. /\ pending' \subseteq Work /\ IsFiniteSet(pending')
          /\ Cardinality(pending' \intersect Invocations) <= MaxPending
      BY <2>2, PendingFits
    <2>4. mishaps' \in Nat
      BY <1>2 DEF SendInvocation, Mishap, SessionTypeOK
    <2>5. calls' \in [Invocations -> CallStates]
      BY <1>2, CallTypedV2 DEF SendInvocation
    <2>6. UNCHANGED <<process, toHost, channel, slots, reply, isFailed, isStopped,
                      stopStarted, readerAt, monitor, life, importing, timers>>
      BY <1>2 DEF SendInvocation, HostOnly
    <2> QED BY <2>1, <2>2, <2>3, <2>4, <2>5, <2>6 DEF SessionTypeOK
  <1>3. CASE TakeResult(c)
    <2>1. calls' \in [Invocations -> CallStates]
      BY <1>3, CallTypedV2 DEF TakeResult, ReturnsEarly
    <2>2. channel' \in [Work -> Seq(GuestFrames)]
      BY <1>0, <1>3, ChannelTyped DEF TakeResult, Event, ReturnsEarly, Dropped, Popped
    <2>3. UNCHANGED <<process, toGuest, toHost, pending, slots, reply, isFailed, isStopped,
                      stopStarted, readerAt, monitor, life, importing, timers, mishaps>>
      BY <1>3 DEF TakeResult, wire, HostOnly
    <2> QED BY <2>1, <2>2, <2>3 DEF SessionTypeOK
  <1>4. CASE TakeAck(c)
    <2>1. calls' \in [Invocations -> CallStates]
      BY <1>4, CallTypedV2 DEF TakeAck, ReturnsEarly, SessionTypeOK
    <2>2. channel' \in [Work -> Seq(GuestFrames)]
      BY <1>0, <1>4, ChannelTyped DEF TakeAck, Event, ReturnsEarly, Dropped, Popped
    <2>3. UNCHANGED <<process, toGuest, toHost, pending, slots, reply, isFailed, isStopped,
                      stopStarted, readerAt, monitor, life, importing, timers, mishaps>>
      BY <1>4 DEF TakeAck, wire, HostOnly
    <2> QED BY <2>1, <2>2, <2>3 DEF SessionTypeOK
  <1>5. CASE Lost(c)
    <2>1. calls' \in [Invocations -> CallStates]
      BY <1>5, CallTypedV2 DEF Lost
    <2>2. UNCHANGED <<process, toGuest, toHost, pending, channel, slots, reply, isFailed,
                      isStopped, stopStarted, readerAt, monitor, life, importing, timers,
                      mishaps>>
      BY <1>5 DEF Lost, wire, HostOnly
    <2> QED BY <2>1, <2>2 DEF SessionTypeOK
  <1>6. CASE TakeSettlement(c)
    <2>1. calls' \in [Invocations -> CallStates]
      BY <1>6, CallTypedV2 DEF TakeSettlement, ReturnsEarly
    <2>2. channel' \in [Work -> Seq(GuestFrames)]
      BY <1>0, <1>6, ChannelTyped DEF TakeSettlement, ReturnsEarly, Dropped
    <2>3. pending' \subseteq pending
      BY <1>6 DEF TakeSettlement, Withdrawn
    <2>4. /\ pending' \subseteq Work /\ IsFiniteSet(pending')
          /\ Cardinality(pending' \intersect Invocations) <= MaxPending
      BY <2>3, PendingFits
    <2>5. UNCHANGED <<process, toGuest, toHost, slots, reply, isFailed, isStopped,
                      stopStarted, readerAt, monitor, life, importing, timers, mishaps>>
      BY <1>6 DEF TakeSettlement, wire, HostOnly
    <2> QED BY <2>1, <2>2, <2>3, <2>4, <2>5 DEF SessionTypeOK
  <1> QED BY <1>1, <1>2, <1>3, <1>4, <1>5, <1>6

\* ... whatever happens to them.
LEMMA SessionTroubleTyped ==
  ASSUME SessionTypeOK, UNCHANGED guest, NEW c \in Invocations,
         TakeOutbound(c) \/ Cancel(c) \/ DropCall(c) \/ TimerFires(c)
  PROVE  SessionTypeOK'
  <1> USE DEF guest
  <1>0. c \in Work
    BY WorkApart
  <1>1. CASE TakeOutbound(c)
    <2>1. channel' \in [Work -> Seq(GuestFrames)]
      BY <1>0, <1>1, ChannelTyped DEF TakeOutbound, Event, ReturnsEarly, Dropped, Popped
    <2>2. Abort \/ Untouched
      BY <1>1 DEF TakeOutbound
    <2>3. importing' \subseteq Work
      BY <1>0, <1>1 DEF TakeOutbound, SessionTypeOK
    <2>4. calls' \in [Invocations -> CallStates]
      BY <1>1, CallTypedV2 DEF TakeOutbound, ReturnsEarly, SessionTypeOK
    <2>5. UNCHANGED <<toHost, stopStarted, readerAt, monitor, life, timers, mishaps>>
      BY <1>1 DEF TakeOutbound
    <2> QED BY <2>1, <2>2, <2>3, <2>4, <2>5, AbortTyped DEF SessionTypeOK
  <1>2. CASE Cancel(c)
    <2>1. toGuest' \in Seq(HostFrames)
      BY <1>2, SendTyped, SessionWritten DEF Cancel
    <2>2. channel' \in [Work -> Seq(GuestFrames)]
      <3>1. channel' = channel \/ channel' = [channel EXCEPT ![c] = <<>>]
        BY <1>2 DEF Cancel, ReturnsEarly, Dropped
      <3>2. CASE channel' = channel
        BY <3>2 DEF SessionTypeOK
      <3>3. CASE channel' = [channel EXCEPT ![c] = <<>>]
        BY <1>0, <3>3, ChannelTyped
      <3> QED BY <3>1, <3>2, <3>3
    <2>3. calls' \in [Invocations -> CallStates]
      BY <1>2, CallTypedV2 DEF Cancel, ReturnsEarly
    <2>4. timers' \subseteq Invocations /\ mishaps' \in Nat
      BY <1>2 DEF Cancel, Mishap, SessionTypeOK
    <2>5. UNCHANGED <<process, toHost, pending, slots, reply, isFailed, isStopped,
                      stopStarted, readerAt, monitor, life, importing>>
      BY <1>2 DEF Cancel, HostOnly
    <2> QED BY <2>1, <2>2, <2>3, <2>4, <2>5 DEF SessionTypeOK
  <1>3. CASE DropCall(c)
    <2>1. channel' \in [Work -> Seq(GuestFrames)]
      BY <1>0, <1>3, ChannelTyped DEF DropCall, ReturnsEarly, Dropped
    <2>2. calls' \in [Invocations -> CallStates]
      BY <1>3, CallTypedV2 DEF DropCall, ReturnsEarly
    <2>3. importing' \subseteq Work /\ mishaps' \in Nat
      BY <1>3 DEF DropCall, Mishap, SessionTypeOK
    <2>4. UNCHANGED <<process, toGuest, toHost, pending, slots, reply, isFailed, isStopped,
                      stopStarted, readerAt, monitor, life, timers>>
      BY <1>3 DEF DropCall, wire, HostOnly
    <2> QED BY <2>1, <2>2, <2>3, <2>4 DEF SessionTypeOK
  <1>4. CASE TimerFires(c)
    <2>1. toGuest' \in Seq(HostFrames) /\ process' \in {"running", "dead"}
      BY <1>4, EmptySeq DEF TimerFires, Kill, SessionTypeOK
    <2>2. isFailed' \in BOOLEAN /\ timers' \subseteq Invocations
      BY <1>4 DEF TimerFires, SessionTypeOK
    <2>3. UNCHANGED <<toHost, pending, channel, slots, reply, isStopped, stopStarted,
                      readerAt, monitor, life, calls, importing, mishaps>>
      BY <1>4 DEF TimerFires, HostOnly
    <2> QED BY <2>1, <2>2, <2>3 DEF SessionTypeOK
  <1> QED BY <1>1, <1>2, <1>3, <1>4

\* And so do the calls to their dependencies.
LEMMA SessionImportTyped ==
  ASSUME SessionTypeOK, UNCHANGED guest, NEW w \in Work, FinishImport(w)
  PROVE  SessionTypeOK'
  <1> USE DEF guest
  <1>1. toGuest' \in Seq(HostFrames)
    BY SendTyped, SessionWritten DEF FinishImport
  <1>2. pending' \subseteq pending
    BY DEF FinishImport
  <1>3. /\ pending' \subseteq Work /\ IsFiniteSet(pending')
        /\ Cardinality(pending' \intersect Invocations) <= MaxPending
    BY <1>2, PendingFits
  <1>4. channel' \in [Work -> Seq(GuestFrames)]
    <2>1. channel' = channel \/ channel' = [channel EXCEPT ![w] = <<>>]
      BY DEF FinishImport, ReturnsEarly, Dropped
    <2>2. CASE channel' = channel
      BY <2>2 DEF SessionTypeOK
    <2>3. CASE channel' = [channel EXCEPT ![w] = <<>>]
      BY <2>3, ChannelTyped
    <2> QED BY <2>1, <2>2, <2>3
  <1>5. calls' \in [Invocations -> CallStates]
    <2>1. calls' = calls \/ (w \in Invocations /\ calls' = Ends(w))
      BY WorkApart DEF FinishImport, ReturnsEarly
    <2> QED BY <2>1, CallTypedV2 DEF SessionTypeOK
  <1>7. mishaps' \in Nat /\ life' \in {life, "refused"}
    BY DEF FinishImport, Mishap, SessionTypeOK
  <1>6. /\ importing' \subseteq importing
        /\ UNCHANGED <<process, toHost, slots, reply, stopStarted, readerAt, monitor, isFailed,
                       isStopped, timers>>
    BY DEF FinishImport
  <1> QED BY <1>1, <1>3, <1>4, <1>5, <1>6, <1>7 DEF SessionTypeOK

\* The frames the guest writes fit the pipe.
LEMMA WriteTyped ==
  ASSUME SessionTypeOK, NEW f \in GuestFrames, Writes(f)
  PROVE  toHost' \in Seq(GuestFrames)
  BY AppendProperties DEF Writes, SessionTypeOK

\* So does a breach of the protocol, whatever it writes; and an exit.
LEMMA SessionFaultTyped ==
  ASSUME SessionTypeOK, (Breach /\ UNCHANGED guest) \/ Exit PROVE SessionTypeOK'
  <1>1. CASE Breach /\ UNCHANGED guest
    <2>1. PICK c \in Invocations, kind \in {"result", "outbound", "settlement", "garbage"} :
            toHost' = Append(toHost, Message(kind, c, Invalid))
      BY <1>1 DEF Breach
    <2>2. Message(kind, c, Invalid) \in GuestFrames
      BY SessionWritten, WorkApart DEF Marks
    <2>3. toHost' \in Seq(GuestFrames)
      BY <2>1, <2>2, AppendProperties DEF SessionTypeOK
    <2> QED BY <1>1, <2>3 DEF Breach, Mishap, SessionTypeOK, guest
  <1>2. CASE Exit
    BY <1>2 DEF Exit, Mishap, SessionTypeOK, guest
  <1> QED BY <1>1, <1>2

\* The main loop of the guest keeps the types ...
LEMMA SessionMainTyped ==
  ASSUME SessionTypeOK, UNCHANGED session, GuestMain PROVE SessionTypeOK'
  <1> USE DEF session
  <1>0. toGuest # <<>> => Head(toGuest) \in HostFrames /\ Tail(toGuest) \in Seq(HostFrames)
    BY SessionReads
  <1>1. CASE Initialize
    <2>1. toGuest' \in Seq(HostFrames)
      BY <1>0, <1>1 DEF Initialize, Taken
    <2>2. toHost' \in Seq(GuestFrames)
      <3>1. toHost' = toHost \/ Writes(Message("initialized", "construct", "ok"))
        BY <1>1 DEF Initialize
      <3> QED BY <3>1, WriteTyped, SessionWritten, WorkApart DEF SessionTypeOK
    <2>3. process' \in {"running", "dead"} /\ main' \in {main, <<"loop">>}
      BY <1>1 DEF Initialize, Leaves, guest, SessionTypeOK
    <2>4. UNCHANGED <<attempted, object, lifecycle, active, flagged, retired, thread, loopback,
                      outbounds>>
      BY <1>1 DEF Initialize, Leaves, guest
    <2> QED BY <2>1, <2>2, <2>3, <2>4 DEF SessionTypeOK
  <1>2. CASE Construct
    <2>1. toGuest' \in Seq(HostFrames)
      BY <1>0, <1>2 DEF Construct, Receives, Taken
    <2>2. /\ process' \in {"running", "dead"} /\ attempted' \in BOOLEAN
          /\ lifecycle' \in {"none"} \union Scopes
      BY <1>2, WorkApart DEF Construct, Leaves, guest, SessionTypeOK
    <2>3. thread' \in [Work -> {"none", "running", "calling", "written", "retired"}]
      BY <1>2 DEF Construct, Leaves, guest, SessionTypeOK
    <2>4. UNCHANGED <<toHost, main, object, active, flagged, retired, loopback, outbounds>>
      BY <1>2 DEF Construct, Leaves, guest
    <2> QED BY <2>1, <2>2, <2>3, <2>4 DEF SessionTypeOK
  <1>3. CASE Accept
    <2> DEFINE c == Head(toGuest).of
    <2>1. toGuest' \in Seq(HostFrames) /\ c \in Invocations /\ c \in Work
      BY <1>0, <1>3, SessionFrames, WorkApart DEF Accept, Receives, Taken
    <2>2. toHost' \in Seq(GuestFrames)
      <3>1. \/ toHost' = toHost
            \/ toHost' = toHost \o <<Message("result", c, "refused"),
                                     Message("settlement", c, "completed")>>
        BY <1>3 DEF Accept
      <3>2. <<Message("result", c, "refused"), Message("settlement", c, "completed")>>
              \in Seq(GuestFrames)
        BY <2>1, SessionWritten DEF Marks
      <3> HIDE DEF c
      <3>3. toHost \in Seq(GuestFrames)
        BY DEF SessionTypeOK
      <3>4. toHost \o <<Message("result", c, "refused"), Message("settlement", c, "completed")>>
              \in Seq(GuestFrames)
        BY <3>2, <3>3, ConcatProperties
      <3> QED BY <3>1, <3>3, <3>4
    <2>3. process' \in {"running", "dead"} /\ active' \subseteq Invocations
      BY <1>3, <2>1 DEF Accept, Leaves, guest, SessionTypeOK
    <2>4. thread' = thread \/ thread' = [thread EXCEPT ![c] = "running"]
      BY <1>3 DEF Accept, Leaves, guest
    <2>5. thread' \in [Work -> {"none", "running", "calling", "written", "retired"}]
      BY <2>1, <2>4 DEF SessionTypeOK
    <2>6. UNCHANGED <<main, attempted, object, lifecycle, flagged, retired, loopback, outbounds>>
      BY <1>3 DEF Accept, Leaves, guest
    <2> QED BY <2>1, <2>2, <2>3, <2>5, <2>6 DEF SessionTypeOK
  <1>4. CASE OutboundResult
    <2> DEFINE w == Head(toGuest).of
    <2>1. toGuest' \in Seq(HostFrames) /\ w \in Work
      BY <1>0, <1>4, SessionFrames DEF OutboundResult, Receives, Taken
    <2>2. thread' = thread \/ thread' = [thread EXCEPT ![w] = "running"]
      BY <1>4 DEF OutboundResult, Leaves, guest
    <2>3. thread' \in [Work -> {"none", "running", "calling", "written", "retired"}]
      BY <2>1, <2>2 DEF SessionTypeOK
    <2>4. process' \in {"running", "dead"}
      BY <1>4 DEF OutboundResult, Leaves, SessionTypeOK
    <2>5. UNCHANGED <<toHost, main, attempted, object, lifecycle, active, flagged, retired,
                      loopback, outbounds>>
      BY <1>4 DEF OutboundResult, Leaves, guest
    <2> QED BY <2>1, <2>3, <2>4, <2>5 DEF SessionTypeOK
  <1>5. CASE CancelArrives
    <2> DEFINE w == Head(toGuest).of
    <2>1. toGuest' \in Seq(HostFrames) /\ w \in Work
      BY <1>0, <1>5, SessionFrames DEF CancelArrives, Receives, Taken
    <2>2. /\ flagged' \subseteq Work
          /\ main' \in {<<"ack", w, "accepted">>, <<"ack", w, "rejected">>}
      BY <1>5, <2>1 DEF CancelArrives, SessionTypeOK
    <2>3. main' \in {"ack"} \X Work \X {"accepted", "rejected"}
      BY <2>1, <2>2
    <2>4. UNCHANGED <<process, toHost, attempted, object, lifecycle, active, retired, thread,
                      loopback, outbounds>>
      BY <1>5 DEF CancelArrives
    <2> QED BY <2>1, <2>2, <2>3, <2>4 DEF SessionTypeOK
  <1>6. CASE Acknowledge
    <2>1. main[2] \in Work /\ main[3] \in Marks
      BY <1>6 DEF Acknowledge, SessionTypeOK, Marks
    <2>2. toHost' \in Seq(GuestFrames)
      BY <1>6, <2>1, WriteTyped, SessionWritten DEF Acknowledge
    <2>3. main' = <<"loop">>
      BY <1>6 DEF Acknowledge
    <2> QED BY <1>6, <2>2, <2>3 DEF Acknowledge, SessionTypeOK
  <1>7. CASE StopArrives
    <2>1. toGuest' \in Seq(HostFrames)
      BY <1>0, <1>7 DEF StopArrives, Receives, Taken
    <2>2. process' \in {"running", "dead"} /\ lifecycle' \in {"none"} \union Scopes
      BY <1>7, WorkApart DEF StopArrives, Leaves, guest, SessionTypeOK
    <2>3. thread' \in [Work -> {"none", "running", "calling", "written", "retired"}]
      BY <1>7 DEF StopArrives, Leaves, guest, SessionTypeOK
    <2>4. UNCHANGED <<toHost, main, attempted, object, active, flagged, retired, loopback,
                      outbounds>>
      BY <1>7 DEF StopArrives, Leaves, guest
    <2> QED BY <2>1, <2>2, <2>3, <2>4 DEF SessionTypeOK
  <1>8. CASE ReportConstruct
    <2>1. PICK outcome \in {"ok", "failed"} :
            object' = (outcome = "ok") /\ Writes(Message("constructed", "construct", outcome))
      BY <1>8 DEF ReportConstruct
    <2>2. toHost' \in Seq(GuestFrames)
      BY <2>1, WriteTyped, SessionWritten, WorkApart
    <2>3. object' \in BOOLEAN
      BY <2>1
    <2> QED BY <1>8, <2>2, <2>3 DEF ReportConstruct, LifecycleOver, SessionTypeOK
  <1>9. CASE ReportStop
    <2>1. PICK hook \in {"ok", "failed"} : Writes(Message("stopped", "cleanup", hook))
      BY <1>9 DEF ReportStop
    <2>2. toHost' \in Seq(GuestFrames)
      BY <2>1, WriteTyped, SessionWritten, WorkApart
    <2> QED BY <1>9, <2>2 DEF ReportStop, Leaves, guest, SessionTypeOK
  <1> QED BY <1>1, <1>2, <1>3, <1>4, <1>5, <1>6, <1>7, <1>8, <1>9 DEF GuestMain

\* ... and so do its threads.
LEMMA SessionThreadTyped ==
  ASSUME SessionTypeOK, UNCHANGED session, NEW w \in Work, GuestThread(w) PROVE SessionTypeOK'
  <1> USE DEF session
  <1>0. \A at \in {"none", "running", "calling", "written", "retired"} :
          [thread EXCEPT ![w] = at] \in
            [Work -> {"none", "running", "calling", "written", "retired"}]
    BY DEF SessionTypeOK
  <1>1. CASE CallOut(w)
    <2>1. toHost' \in Seq(GuestFrames)
      BY <1>1, WriteTyped, SessionWritten DEF CallOut, Marks
    <2>2. outbounds' \in Nat
      BY <1>1 DEF CallOut, SessionTypeOK
    <2> QED BY <1>0, <1>1, <2>1, <2>2 DEF CallOut, SessionTypeOK
  <1>2. CASE LifecycleEnds(w)
    BY <1>0, <1>2 DEF LifecycleEnds, SessionTypeOK
  <1>3. CASE WriteResult(w)
    <2>1. toHost' \in Seq(GuestFrames)
      BY <1>3, WriteTyped, SessionWritten DEF WriteResult, Marks, SessionTypeOK
    <2> QED BY <1>0, <1>3, <2>1 DEF WriteResult, SessionTypeOK
  <1>4. CASE w \in Invocations /\ RetireId(w)
    <2>1. IsFiniteSet(retired')
      BY <1>4, FS_AddElement DEF RetireId, SessionTypeOK
    <2>2. retired' \subseteq Invocations /\ active' \subseteq Invocations
      BY <1>4 DEF RetireId, SessionTypeOK
    <2> QED BY <1>0, <1>4, <2>1, <2>2 DEF RetireId, SessionTypeOK
  <1>5. CASE Settle(w)
    <2>1. PICK state \in {SettledAs(w), "abandoned"} : Writes(Message("settlement", w, state))
      BY <1>5 DEF Settle
    <2>2. state \in Marks
      BY <2>1 DEF SettledAs, Marks
    <2>3. toHost' \in Seq(GuestFrames)
      BY <2>1, <2>2, WriteTyped, SessionWritten
    <2> QED BY <1>0, <1>5, <2>3 DEF Settle, SessionTypeOK
  <1> QED BY <1>1, <1>2, <1>3, <1>4, <1>5 DEF GuestThread

\* Every step keeps the types.
LEMMA SessionStepTyped == ASSUME SessionTypeOK, [V2Next]_v2vars PROVE SessionTypeOK'
  <1>1. CASE HostNext /\ UNCHANGED guest
    BY <1>1, SessionReaderTyped, SessionConstructTyped, SessionStopTyped, SessionAbortTyped,
       SessionCallTyped, SessionTroubleTyped, SessionImportTyped, SessionFaultTyped
       DEF HostNext, HostLife, HostMay, HostImport, HostCall
  <1>2. CASE GuestNext /\ UNCHANGED session
    BY <1>2, SessionMainTyped, SessionThreadTyped DEF GuestNext
  <1>3. CASE Exit
    BY <1>3, SessionFaultTyped
  <1>4. CASE UNCHANGED v2vars
    BY <1>4 DEF v2vars, wire, session, guest, SessionTypeOK
  <1> QED BY <1>1, <1>2, <1>3, <1>4 DEF V2Next

-----------------------------------------------------------------------------
(* Where the tasks are                                                      *)

\* What a step of the lifecycle or of a call does not look at.
LEMMA AbortTasks ==
  ASSUME TasksFit, Abort
  PROVE  /\ isStopped' = TRUE /\ process' = "dead" /\ pending' \subseteq pending
         /\ isFailed => isFailed'
  BY DEF Abort, Kill, RetireAll, TasksFit, NoChildLeft

\* The reader leaves the tasks where they fit ...
LEMMA ReaderTasks ==
  ASSUME SessionTypeOK, TasksFit, UNCHANGED guest, HostReader PROVE TasksFit'
  <1>1. CASE ReadLifecycle
    BY <1>1 DEF ReadLifecycle, TasksFit, NoChildLeft
  <1>2. CASE ReadEvent
    BY <1>2 DEF ReadEvent, TasksFit, NoChildLeft
  <1>3. CASE ReadFailure
    BY <1>3 DEF ReadFailure, TasksFit, NoChildLeft
  <1>4. CASE ReaderGivesUp
    BY <1>4 DEF ReaderGivesUp, RetireAll, TasksFit, NoChildLeft
  <1> QED BY <1>1, <1>2, <1>3, <1>4 DEF HostReader

\* ... the lifecycle does ...
LEMMA LifeTasks ==
  ASSUME SessionTypeOK, TasksFit, UNCHANGED guest,
         HostLife \/ (HostFree /\ (Deactivate \/ LifecycleCancelled))
  PROVE  TasksFit'
  <1> USE DEF TasksFit, NoChildLeft, wire
  <1>0. /\ \A w \in importing : w \in Scopes \/ w \in Invocations
        /\ \A c \in Invocations : c \notin Scopes /\ c # "construct" /\ c # "cleanup"
        /\ Scopes = {"construct", "cleanup"}
    BY WorkApart DEF SessionTypeOK
  <1>1. CASE SendStop
    BY <1>0, <1>1 DEF SendStop
  <1>a. CASE HostFree
    <2> USE <1>0, <1>a DEF HostFree
    <2>1. CASE BeginConstruct
      BY <2>1 DEF BeginConstruct
    <2>2. CASE BeginFactory
      <3>1. pending' \intersect Invocations = pending \intersect Invocations
        BY <2>2 DEF BeginFactory
      <3> QED BY <2>2, <3>1 DEF BeginFactory
    <2>3. CASE EndFactory
      BY <2>3 DEF EndFactory
    <2>4. CASE Activate
      BY <2>4 DEF Activate
    <2>5. CASE Monitor
      BY <2>5 DEF Monitor
    <2>6. CASE EndStop
      BY <2>6 DEF EndStop
    <2>7. CASE Reap
      BY <2>7 DEF Reap
    <2>8. CASE LifecycleEvent
      <3>1. CASE Abort /\ life' = "refused" /\ UNCHANGED importing
        <4>1. UNCHANGED <<stopStarted, readerAt, calls>> /\ life \notin importing
          BY <2>8 DEF LifecycleEvent
        <4> QED BY <3>1, <4>1, AbortTasks
      <3>2. CASE importing' = importing \union {life} /\ UNCHANGED life /\ Untouched
        BY <2>8, <3>2 DEF LifecycleEvent, Untouched
      <3> QED BY <2>8, <3>1, <3>2 DEF LifecycleEvent
    <2>9. CASE DropGeneration
      <3>1. Abort /\ UNCHANGED <<stopStarted, readerAt, life, calls, importing>>
        BY <2>9 DEF DropGeneration
      <3> QED BY <3>1, AbortTasks
    <2>10. CASE Deactivate
      <3>1. CASE isFailed
        <4>1. /\ Abort /\ life' = "ended" /\ stopStarted' = TRUE /\ life = "active"
              /\ UNCHANGED <<readerAt, calls, importing>>
          BY <2>10, <3>1 DEF Deactivate
        <4> QED BY <4>1, AbortTasks
      <3>2. CASE ~isFailed
        <4>1. pending' \intersect Invocations = pending \intersect Invocations
          BY <2>10, <3>2 DEF Deactivate
        <4> QED BY <2>10, <3>2, <4>1 DEF Deactivate
      <3> QED BY <3>1, <3>2
    <2>11. CASE LifecycleCancelled
      <3>1. /\ Abort /\ life' = "refused" /\ life \notin importing
            /\ UNCHANGED <<stopStarted, readerAt, calls, importing>>
        BY <2>11 DEF LifecycleCancelled
      <3> QED BY <3>1, AbortTasks
    <2> QED BY <1>1, <2>1, <2>2, <2>3, <2>4, <2>5, <2>6, <2>7, <2>8, <2>9, <2>10, <2>11
            DEF HostLife
  <1> QED BY <1>1, <1>a DEF HostLife

\* What becomes of one call leaves the others alone.
LEMMA OneCall ==
  ASSUME SessionTypeOK, NEW c \in Invocations,
         \/ calls' = Ends(c) \/ calls' = [calls EXCEPT ![c].at = "waiting"]
         \/ calls' = [calls EXCEPT ![c].at = "sending"]
         \/ calls' = [calls EXCEPT ![c].cancelSent = TRUE]
         \/ calls' = [calls EXCEPT ![c].outcome = "outcome"] \/ calls' = calls
  PROVE  /\ calls' = Ends(c) => calls'[c].at = "done"
         /\ calls' = [calls EXCEPT ![c].at = "waiting"] => calls'[c].at = "waiting"
         /\ calls' = [calls EXCEPT ![c].at = "sending"] => calls'[c].at = "sending"
         /\ calls' = [calls EXCEPT ![c].cancelSent = TRUE] => calls'[c].at = calls[c].at
         /\ calls' = [calls EXCEPT ![c].outcome = "outcome"] => calls'[c].at = calls[c].at
         /\ \A d \in Invocations : d # c => calls'[d] = calls[d]
  <1>1. calls[c] \in CallStates /\ calls \in [Invocations -> CallStates]
    BY DEF SessionTypeOK
  <1>2. CASE calls' = Ends(c)
    BY <1>1, <1>2 DEF Ends, CallStates
  <1>3. CASE calls' = [calls EXCEPT ![c].at = "waiting"]
    BY <1>1, <1>3 DEF Ends, CallStates
  <1>4. CASE calls' = [calls EXCEPT ![c].at = "sending"]
    BY <1>1, <1>4 DEF Ends, CallStates
  <1>5. CASE calls' = [calls EXCEPT ![c].cancelSent = TRUE]
    BY <1>1, <1>5 DEF Ends, CallStates
  <1>6. CASE calls' = [calls EXCEPT ![c].outcome = "outcome"]
    BY <1>1, <1>6 DEF Ends, CallStates
  <1>7. CASE calls' = calls
    BY <1>1, <1>7 DEF Ends, CallStates
  <1> QED BY <1>2, <1>3, <1>4, <1>5, <1>6, <1>7

\* A call that moves leaves the tasks where they may be.
LEMMA CallMoves ==
  ASSUME SessionTypeOK, TasksFit, NEW c \in Invocations,
         \A d \in Invocations : d # c => calls'[d] = calls[d],
         UNCHANGED <<life, stopStarted, readerAt>>, isFailed => isFailed', NoChildLeft',
         pending' \subseteq pending \union {c}, importing' \subseteq importing \union {c},
         c \in importing' => calls'[c].at = "waiting",
         calls'[c].at = "sending" => life = "active",
         c \in pending' /\ readerAt = "failed" => calls'[c].at = "sending"
  PROVE  TasksFit'
  <1>1. \A d \in Invocations : calls'[d].at = "sending" => life' = "active"
    BY DEF TasksFit
  <1>2. \A w \in importing' : IF w \in Scopes THEN life' = w ELSE calls'[w].at = "waiting"
    <2> SUFFICES ASSUME NEW w \in importing'
                 PROVE  IF w \in Scopes THEN life' = w ELSE calls'[w].at = "waiting"
      OBVIOUS
    <2>1. CASE w = c
      BY <2>1, WorkApart
    <2>2. CASE w # c
      <3>1. w \in importing /\ (w \in Scopes \/ w \in Invocations)
        BY <2>2, WorkApart DEF SessionTypeOK
      <3> QED BY <2>2, <3>1 DEF TasksFit
    <2> QED BY <2>1, <2>2
  <1>3. readerAt' = "failed" =>
          \A d \in pending' \intersect Invocations : calls'[d].at = "sending"
    BY DEF TasksFit
  <1> QED BY <1>1, <1>2, <1>3 DEF TasksFit

\* ... every invocation does ...
LEMMA CallTasks ==
  ASSUME SessionTypeOK, TasksFit, UNCHANGED guest, NEW c \in Invocations,
         \/ HostCall(c)
         \/ HostFree /\ (BeginInvocation(c) \/ Cancel(c) \/ DropCall(c))
  PROVE  TasksFit'
  <1> USE DEF wire, HostOnly
  <1>0. /\ c \notin Scopes /\ c \in Work /\ NoChildLeft
        /\ c \in importing => calls[c].at = "waiting"
        /\ calls[c].at = "sending" => life = "active"
        /\ c \in pending /\ readerAt = "failed" => calls[c].at = "sending"
        /\ readerAt = "failed" => isFailed
    BY WorkApart DEF TasksFit
  <1>1. CASE SendInvocation(c)
    <2>1. /\ UNCHANGED <<process, life, readerAt, isFailed, isStopped, stopStarted, importing>>
          /\ calls[c].at = "sending"
      BY <1>1 DEF SendInvocation
    <2>2. CASE /\ calls' = [calls EXCEPT ![c].at = "waiting"] /\ UNCHANGED pending /\ CanSend
      <3>1. readerAt # "failed"
        BY <1>0, <2>2 DEF CanSend
      <3> QED BY <1>0, <2>1, <2>2, <3>1, OneCall, CallMoves DEF NoChildLeft
    <2>3. CASE calls' = Ends(c) /\ pending' = Withdrawn(c)
      BY <1>0, <2>1, <2>3, OneCall, CallMoves DEF Withdrawn, NoChildLeft
    <2> QED BY <1>1, <2>2, <2>3 DEF SendInvocation
  <1>2. CASE TimerFires(c)
    BY <1>2 DEF TimerFires, Kill, TasksFit, NoChildLeft
  <1>3. CASE BeginInvocation(c)
    <2>1. /\ life = "active" /\ calls[c].at = "new"
          /\ UNCHANGED <<process, life, readerAt, isFailed, isStopped, stopStarted, importing>>
      BY <1>3 DEF BeginInvocation
    <2>2. CASE calls' = Ends(c) /\ UNCHANGED pending
      BY <1>0, <2>1, <2>2, OneCall, CallMoves DEF NoChildLeft
    <2>3. CASE calls' = [calls EXCEPT ![c].at = "sending"] /\ pending' = pending \union {c}
      BY <1>0, <2>1, <2>3, OneCall, CallMoves DEF NoChildLeft
    <2> QED BY <1>3, <2>2, <2>3 DEF BeginInvocation
  <1>4. CASE Cancel(c)
    <2>1. /\ UNCHANGED <<process, life, readerAt, isFailed, isStopped, stopStarted, importing,
                         pending>>
          /\ calls[c].at = "waiting" /\ c \notin importing
      BY <1>4 DEF Cancel
    <2>2. calls' = [calls EXCEPT ![c].cancelSent = TRUE] \/ calls' = Ends(c)
      BY <1>4 DEF Cancel, ReturnsEarly
    <2>3. /\ calls'[c].at \in {"waiting", "done"}
          /\ \A d \in Invocations : d # c => calls'[d] = calls[d]
      BY <2>1, <2>2, OneCall
    <2> QED BY <1>0, <2>1, <2>3, CallMoves DEF NoChildLeft
  <1>5. CASE DropCall(c)
    <2>1. /\ UNCHANGED <<process, life, readerAt, isFailed, isStopped, stopStarted, pending>>
          /\ importing' = importing \ {c} /\ calls' = Ends(c) /\ calls[c].at = "waiting"
      BY <1>5 DEF DropCall, ReturnsEarly
    <2> QED BY <1>0, <2>1, OneCall, CallMoves DEF NoChildLeft
  <1>6. CASE TakeResult(c) \/ TakeAck(c) \/ TakeSettlement(c) \/ Lost(c)
    <2>1. /\ UNCHANGED <<process, life, readerAt, isFailed, isStopped, stopStarted, importing>>
          /\ pending' \subseteq pending
      BY <1>6 DEF TakeResult, TakeAck, TakeSettlement, Lost, Withdrawn
    <2>2. calls[c].at = "waiting" /\ c \notin importing
      BY <1>6 DEF TakeResult, TakeAck, TakeSettlement, Lost, Event
    <2>3. \/ calls' = Ends(c) \/ calls' = [calls EXCEPT ![c].outcome = "outcome"]
          \/ calls' = calls
      BY <1>6 DEF TakeResult, TakeAck, TakeSettlement, Lost, ReturnsEarly
    <2>4. /\ calls'[c].at \in {"waiting", "done"}
          /\ \A d \in Invocations : d # c => calls'[d] = calls[d]
      BY <2>2, <2>3, OneCall
    <2> QED BY <1>0, <2>1, <2>2, <2>4, CallMoves DEF NoChildLeft
  <1>7. CASE TakeOutbound(c)
    <2>1. calls[c].at = "waiting" /\ c \notin importing /\ UNCHANGED <<stopStarted, readerAt, life>>
      BY <1>7 DEF TakeOutbound, Event
    <2>2. CASE ReturnsEarly(c) /\ Abort /\ UNCHANGED importing
      <3>1. /\ \A d \in Invocations : d # c => calls'[d] = calls[d]
            /\ calls'[c].at = "done"
        BY <2>2, OneCall DEF ReturnsEarly
      <3>2. NoChildLeft' /\ (isFailed => isFailed') /\ pending' \subseteq pending
        BY <2>2, AbortTasks DEF NoChildLeft
      <3> QED BY <1>0, <2>1, <2>2, <3>1, <3>2, CallMoves
    <2>3. CASE importing' = importing \union {c} /\ UNCHANGED calls /\ Untouched
      BY <1>0, <2>1, <2>3, CallMoves DEF Untouched, NoChildLeft
    <2> QED BY <1>7, <2>2, <2>3 DEF TakeOutbound
  <1> QED BY <1>1, <1>2, <1>3, <1>4, <1>5, <1>6, <1>7 DEF HostCall

\* ... the end of an outbound call does ...
LEMMA ImportTasks ==
  ASSUME SessionTypeOK, TasksFit, UNCHANGED guest, NEW w \in Work, HostImport(w)
  PROVE  TasksFit'
  <1>1. /\ importing' = importing \ {w} /\ w \in importing /\ pending' \subseteq pending
        /\ UNCHANGED <<process, stopStarted, readerAt, isFailed, isStopped>>
        /\ \A d \in Invocations : calls[d].at # "sending"
    BY DEF HostImport, FinishImport, HostFree
  <1>2. CASE w \in Scopes
    <2>1. UNCHANGED calls /\ life = w /\ life' \in {life, "refused"}
      BY <1>1, <1>2 DEF HostImport, FinishImport, TasksFit
    <2> QED BY <1>1, <1>2, <2>1 DEF TasksFit, NoChildLeft
  <1>3. CASE w \in Invocations
    <2>1. w \notin Scopes /\ calls[w].at = "waiting"
      BY <1>1, <1>3, WorkApart DEF TasksFit
    <2>2. UNCHANGED life /\ (calls' = calls \/ calls' = Ends(w))
      BY <2>1 DEF HostImport, FinishImport, ReturnsEarly
    <2>3. /\ \A d \in Invocations : d # w => calls'[d] = calls[d]
          /\ calls'[w].at \in {"waiting", "done"}
      BY <1>3, <2>1, <2>2, OneCall
    <2>4. NoChildLeft' /\ (w \in pending' /\ readerAt = "failed" => calls[w].at = "sending")
      BY <1>1, <1>3, <2>2 DEF TasksFit, NoChildLeft
    <2> QED BY <1>1, <1>3, <2>1, <2>2, <2>3, <2>4, CallMoves
  <1> QED BY <1>2, <1>3, WorkApart

\* ... and so do the guest, and what goes wrong.
LEMMA GuestTasks ==
  ASSUME TasksFit, \/ UNCHANGED session /\ GuestNext
                   \/ Breach \/ Exit
  PROVE  TasksFit'
  <1>1. /\ UNCHANGED <<calls, life, importing, stopStarted, readerAt, isFailed, pending, isStopped>>
        /\ process = "dead" => process' = "dead"
    BY DEF session, GuestNext, GuestMain, GuestThread, Initialize, Construct, Accept, OutboundResult,
           CancelArrives, Acknowledge, StopArrives, ReportConstruct, ReportStop, CallOut, LifecycleEnds,
           WriteResult, RetireId, Settle, Breach, Exit, Running, Receives
  <1> QED BY <1>1 DEF TasksFit, NoChildLeft

\* Every step leaves the tasks where they may be.
LEMMA SessionTasks == ASSUME SessionTypeOK, TasksFit, [V2Next]_v2vars PROVE TasksFit'
  <1>1. CASE HostNext /\ UNCHANGED guest
    BY <1>1, ReaderTasks, LifeTasks, CallTasks, ImportTasks, GuestTasks
       DEF HostNext, HostMay
  <1>2. CASE (GuestNext /\ UNCHANGED session) \/ Exit
    BY <1>2, GuestTasks
  <1>3. CASE UNCHANGED v2vars
    BY <1>3 DEF v2vars, wire, session, TasksFit, NoChildLeft
  <1> QED BY <1>1, <1>2, <1>3 DEF V2Next

-----------------------------------------------------------------------------
(* The lifecycle of the guest                                               *)

\* The main loop takes on one scope at a time, and ends it when it reports it.
LEMMA SessionScopes ==
  ASSUME SessionTypeOK, LifecycleFits, [V2Next]_v2vars PROVE LifecycleFits'
  <1> USE DEF LifecycleFits
  <1>0. /\ Scopes = {"construct", "cleanup"} /\ \A c \in Invocations : c \notin Scopes
        /\ thread \in [Work -> {"none", "running", "calling", "written", "retired"}]
        /\ \A w \in Scopes : w \in Work
    BY WorkApart DEF SessionTypeOK
  <1>1. CASE UNCHANGED guest
    BY <1>1 DEF guest
  <1>2. CASE /\ UNCHANGED <<lifecycle, loopback>>
             /\ \A w \in Scopes : thread'[w] # "none" => thread[w] # "none"
    BY <1>2
  <1>3. CASE Construct
    <2>1. CASE Leaves
      BY <1>1, <2>1 DEF Leaves
    <2>2. CASE /\ lifecycle = "none" /\ lifecycle' = "construct" /\ UNCHANGED loopback
               /\ thread' = [thread EXCEPT !["construct"] = "running"]
      BY <1>0, <2>2
    <2> QED BY <1>3, <2>1, <2>2 DEF Construct
  <1>4. CASE StopArrives
    <2>1. CASE Leaves
      BY <1>1, <2>1 DEF Leaves
    <2>2. CASE /\ lifecycle = "none" /\ lifecycle' = "cleanup" /\ UNCHANGED loopback
               /\ thread' = [thread EXCEPT !["cleanup"] = "running"]
      BY <1>0, <2>2
    <2> QED BY <1>4, <2>1, <2>2 DEF StopArrives
  <1>5. CASE ReportConstruct
    BY <1>0, <1>5 DEF ReportConstruct, LifecycleOver
  <1>6. CASE Accept
    <2>1. CASE UNCHANGED guest
      BY <1>1, <2>1
    <2>2. CASE /\ thread' = [thread EXCEPT ![Head(toGuest).of] = "running"]
               /\ UNCHANGED <<lifecycle, loopback>> /\ Head(toGuest).of \in Invocations
      BY <1>0, <1>2, <2>2
    <2>3. Head(toGuest).of \in Invocations
      BY <1>6, SessionReads, SessionFrames DEF Accept, Receives
    <2> QED BY <1>6, <2>1, <2>2, <2>3 DEF Accept, Leaves
  <1>7. CASE OutboundResult
    BY <1>0, <1>1, <1>2, <1>7 DEF OutboundResult, Leaves
  <1>8. CASE Initialize \/ CancelArrives \/ Acknowledge \/ ReportStop
    BY <1>1, <1>2, <1>8 DEF Initialize, CancelArrives, Acknowledge, ReportStop, Leaves
  <1>9. ASSUME NEW w \in Work, GuestThread(w) PROVE LifecycleFits'
    <2>1. CASE CallOut(w)
      BY <1>0, <1>2, <2>1 DEF CallOut
    <2>2. CASE LifecycleEnds(w)
      BY <1>0, <2>2 DEF LifecycleEnds
    <2>3. CASE w \in Invocations /\ (WriteResult(w) \/ RetireId(w) \/ Settle(w))
      BY <1>0, <1>2, <2>3 DEF WriteResult, RetireId, Settle
    <2> QED BY <1>9, <2>1, <2>2, <2>3 DEF GuestThread
  <1> QED BY <1>1, <1>3, <1>4, <1>5, <1>6, <1>7, <1>8, <1>9
          DEF V2Next, GuestNext, GuestMain, Exit, v2vars, guest

-----------------------------------------------------------------------------
(* A stop                                                                   *)

\* What a new frame adds to a pipe.
LEMMA AppendHolds ==
  ASSUME NEW S, NEW s \in Seq(S), NEW f \in S
  PROVE  /\ \A kind : Holds(Append(s, f), kind) <=> Holds(s, kind) \/ f.kind = kind
         /\ \A w, kind : Carries(Append(s, f), w, kind) <=>
                           Carries(s, w, kind) \/ (f.of = w /\ f.kind = kind)
         /\ NoneAfterStop(s) /\ (f.kind # "invoke" \/ ~Holds(s, "stop")) =>
              NoneAfterStop(Append(s, f))
         /\ ~Holds(s, "stopped") => StoppedIsLast(Append(s, f))
  <1> DEFINE t == Append(s, f)
  <1>1. /\ Len(t) = Len(s) + 1 /\ Len(s) \in Nat /\ \A i \in 1..Len(s) : t[i] = s[i]
        /\ t[Len(s) + 1] = f
    BY ONLY SessionAppend, f \in S, s \in Seq(S)
  <1> HIDE DEF t
  <1>2. \A kind : Holds(t, kind) <=> Holds(s, kind) \/ f.kind = kind
    BY <1>1 DEF Holds
  <1>3. \A w, kind : Carries(t, w, kind) <=> Carries(s, w, kind) \/ (f.of = w /\ f.kind = kind)
    BY <1>1 DEF Carries
  <1>4. NoneAfterStop(s) /\ (f.kind # "invoke" \/ ~Holds(s, "stop")) => NoneAfterStop(t)
    BY <1>1 DEF NoneAfterStop, Holds
  <1>5. ~Holds(s, "stopped") => StoppedIsLast(t)
    BY <1>1 DEF StoppedIsLast, Holds
  <1> QED BY <1>2, <1>3, <1>4, <1>5 DEF t

\* What reading a frame takes from it.
LEMMA TailHolds ==
  ASSUME NEW S, NEW s \in Seq(S), s # <<>>
  PROVE  /\ \A kind : Holds(s, kind) <=> Holds(Tail(s), kind) \/ Head(s).kind = kind
         /\ \A w, kind : Carries(s, w, kind) <=>
                           Carries(Tail(s), w, kind) \/ (Head(s).of = w /\ Head(s).kind = kind)
         /\ NoneAfterStop(s) => /\ NoneAfterStop(Tail(s))
                                /\ Head(s).kind = "stop" => ~Holds(Tail(s), "invoke")
         /\ StoppedIsLast(s) => /\ StoppedIsLast(Tail(s))
                                /\ Head(s).kind = "stopped" => Tail(s) = <<>>
  <1> DEFINE t == Tail(s)
  <1>1. /\ Len(t) = Len(s) - 1 /\ Len(s) \in Nat \ {0} /\ \A i \in 1..Len(t) : t[i] = s[i + 1]
        /\ Head(s) = s[1] /\ t \in Seq(S)
    BY SessionTail
  <1> HIDE DEF t
  <1>2. \A i \in 1..Len(s) : i = 1 \/ (i - 1 \in 1..Len(t) /\ t[i - 1] = s[i])
    BY <1>1
  <1>3. \A i \in 1..Len(t) : i + 1 \in 1..Len(s) /\ t[i] = s[i + 1]
    BY <1>1
  <1>4. 1 \in 1..Len(s)
    BY <1>1
  <1>5. \A kind : Holds(s, kind) <=> Holds(t, kind) \/ Head(s).kind = kind
    BY <1>1, <1>2, <1>3, <1>4 DEF Holds
  <1>6. \A w, kind : Carries(s, w, kind) <=>
                       Carries(t, w, kind) \/ (Head(s).of = w /\ Head(s).kind = kind)
    BY <1>1, <1>2, <1>3, <1>4 DEF Carries
  <1>7. NoneAfterStop(s) => NoneAfterStop(t) /\ (Head(s).kind = "stop" => ~Holds(t, "invoke"))
    BY <1>1, <1>3, <1>4 DEF NoneAfterStop, Holds
  <1>8. StoppedIsLast(s) => StoppedIsLast(t)
    BY <1>1, <1>3, <1>4 DEF StoppedIsLast
  <1>9. StoppedIsLast(s) /\ Head(s).kind = "stopped" => t = <<>>
    BY <1>1, <1>4 DEF StoppedIsLast
  <1> QED BY <1>5, <1>6, <1>7, <1>8, <1>9 DEF t

\* An empty pipe holds nothing.
LEMMA EmptyHolds ==
  /\ \A kind : ~Holds(<<>>, kind) /\ \A w : ~Carries(<<>>, w, kind)
  /\ NoneAfterStop(<<>>) /\ StoppedIsLast(<<>>)
  <1>1. Len(<<>>) = 0
    OBVIOUS
  <1> QED BY <1>1 DEF Holds, Carries, NoneAfterStop, StoppedIsLast

\* A child that died stays dead, and a stop that was sent stays sent.
LEMMA SessionStays ==
  ASSUME SessionTypeOK, TasksFit, [V2Next]_v2vars
  PROVE  (process = "dead" => process' = "dead") /\ (StopSent => StopSent')
  <1>1. ASSUME HostNext, UNCHANGED guest PROVE process = "dead" => process' = "dead"
    BY <1>1 DEF HostNext, HostReader, HostLife, HostMay, HostImport, HostCall, ReadLifecycle,
       ReadEvent, ReadFailure, ReaderGivesUp, BeginConstruct, BeginFactory, EndFactory, Activate,
       Monitor, Deactivate, SendStop, EndStop, Reap, LifecycleCancelled, LifecycleEvent,
       DropGeneration, Abort, Kill, Untouched, BeginInvocation, SendInvocation, TakeResult,
       TakeOutbound, FinishImport, TakeAck, TakeSettlement, Lost, Cancel, DropCall, TimerFires, Breach,
       wire
  <1>2. ASSUME HostNext, UNCHANGED guest, StopSent PROVE StopSent'
    <2>1. HostReader \/ (\E c \in Invocations : HostCall(c)) \/ HostMay => StopSent'
      BY <1>2, WorkApart DEF HostReader, HostMay, HostCall, ReadLifecycle,
         ReadEvent, ReadFailure, ReaderGivesUp, Deactivate, LifecycleCancelled,
         BeginInvocation, SendInvocation, TakeResult,
         TakeOutbound, TakeAck, TakeSettlement, Lost, Cancel, DropCall, TimerFires, Breach,
         HostOnly, StopSent
    <2>2. HostLife => StopSent'
      BY <1>2, WorkApart DEF HostLife, BeginConstruct, BeginFactory, EndFactory, Activate,
       Monitor, SendStop, EndStop, Reap, LifecycleEvent, DropGeneration, StopSent
    <2>3. (\E w \in Work : HostImport(w)) => StopSent'
      BY <1>2 DEF HostImport, FinishImport, StopSent
    <2> QED BY <1>2, <2>1, <2>2, <2>3 DEF HostNext
  <1>3. CASE GuestNext /\ UNCHANGED session
    BY <1>3 DEF session, GuestNext, GuestMain, GuestThread, Initialize, Construct, Accept,
       OutboundResult, CancelArrives, Acknowledge, StopArrives, ReportConstruct, ReportStop, CallOut,
       LifecycleEnds, WriteResult, RetireId, Settle, Running, Receives, Leaves, StopSent
  <1>4. CASE Exit
    BY <1>4 DEF Exit, StopSent
  <1>5. CASE UNCHANGED v2vars
    BY <1>5 DEF v2vars, wire, session, StopSent
  <1> QED BY <1>1, <1>2, <1>3, <1>4, <1>5 DEF V2Next

\* What the Host does to the pipes: it writes one frame, reads one, or loses them with the
\* child; it invokes only while it is active, and a stop it writes has been sent.
LEMMA HostPipes ==
  ASSUME SessionTypeOK, TasksFit, HostNext
  PROVE  /\ \/ toGuest' = toGuest \/ (toGuest' = <<>> /\ process' = "dead")
            \/ \E f \in HostFrames : /\ toGuest' = Append(toGuest, f)
                                     /\ f.kind = "invoke" => life = "active"
                                     /\ f.kind = "stop" => StopSent'
         /\ \/ toHost' = toHost \/ toHost' = <<>> \/ (toHost # <<>> /\ toHost' = Tail(toHost))
            \/ Running /\ \E f \in GuestFrames : f.kind # "stopped" /\ toHost' = Append(toHost, f)
         /\ readerAt' = "stopped" =>
              \/ readerAt = "stopped" /\ toHost' = toHost
              \/ /\ toHost # <<>> /\ Head(toHost).kind = "stopped" /\ toHost' = Tail(toHost)
  <1>1. CASE HostReader
    BY <1>1 DEF HostReader, ReadLifecycle, ReadEvent, ReadFailure, ReaderGivesUp
  <1>2. CASE BeginConstruct
    <2>1. toGuest' = toGuest \/ toGuest' = Append(toGuest, Message("initialize", "construct", "ok"))
      BY <1>2 DEF BeginConstruct, Send
    <2>2. UNCHANGED <<toHost, readerAt>>
      BY <1>2 DEF BeginConstruct
    <2> QED BY <2>1, <2>2, SessionWritten, MessageFields
  <1>3. CASE BeginFactory
    <2>1. toGuest' = toGuest \/ toGuest' = Append(toGuest, Message("construct", "construct", "ok"))
      BY <1>3 DEF BeginFactory, Send
    <2>2. UNCHANGED <<toHost, readerAt>>
      BY <1>3 DEF BeginFactory
    <2> QED BY <2>1, <2>2, SessionWritten, MessageFields
  <1>4. CASE SendStop
    <2>1. \/ toGuest' = toGuest
          \/ toGuest' = Append(toGuest, Message("stop", "cleanup", "ok")) /\ life' = "cleanup"
      BY <1>4 DEF SendStop, Send
    <2>2. UNCHANGED <<toHost, readerAt>> /\ stopStarted'
      BY <1>4 DEF SendStop, TasksFit
    <2> QED BY <2>1, <2>2, SessionWritten, MessageFields DEF StopSent
  <1>5. CASE EndFactory \/ Activate \/ Monitor \/ EndStop \/ Reap \/ LifecycleEvent \/ DropGeneration
               \/ Deactivate \/ LifecycleCancelled
    BY <1>5 DEF EndFactory, Activate, Monitor, EndStop, Reap, LifecycleEvent, DropGeneration,
       Deactivate, LifecycleCancelled, Abort, Kill, Untouched, wire
  <1>6. ASSUME NEW c \in Invocations, SendInvocation(c) PROVE toGuest' = toGuest \/
           (toGuest' = Append(toGuest, Message("invoke", c, "ok")) /\ life = "active")
    BY <1>6 DEF SendInvocation, Send, TasksFit
  <1>7. ASSUME NEW c \in Invocations, Cancel(c) PROVE toGuest' = toGuest \/
           toGuest' = Append(toGuest, Message("cancel", c, "ok"))
    BY <1>7 DEF Cancel, Send
  <1>8. ASSUME NEW w \in Work, FinishImport(w) PROVE toGuest' = toGuest \/
           toGuest' = Append(toGuest, Message("outboundresult", w, "outcome"))
    BY <1>8 DEF FinishImport, Send
  <1>9. ASSUME NEW c \in Invocations, SendInvocation(c) \/ Cancel(c)
        PROVE  UNCHANGED <<toHost, readerAt>>
    BY <1>9 DEF SendInvocation, Cancel, HostOnly
  <1>10. ASSUME NEW w \in Work, FinishImport(w) PROVE UNCHANGED <<toHost, readerAt>>
    BY <1>10 DEF FinishImport
  <1>11. ASSUME NEW c \in Invocations, \/ TimerFires(c) \/ TakeResult(c) \/ TakeOutbound(c)
                                       \/ TakeAck(c) \/ TakeSettlement(c) \/ Lost(c)
                                       \/ BeginInvocation(c) \/ DropCall(c)
         PROVE  /\ toGuest' = toGuest \/ (toGuest' = <<>> /\ process' = "dead")
                /\ UNCHANGED <<toHost, readerAt>>
    BY <1>11 DEF TimerFires, TakeResult, TakeOutbound, TakeAck, TakeSettlement, Lost,
       BeginInvocation, DropCall, Abort, Kill, Untouched, wire, HostOnly
  <1>12. CASE Breach
    <2>1. PICK c \in Invocations, kind \in {"result", "outbound", "settlement", "garbage"} :
            toHost' = Append(toHost, Message(kind, c, Invalid))
      BY <1>12 DEF Breach
    <2>2. Message(kind, c, Invalid) \in GuestFrames /\ Message(kind, c, Invalid).kind # "stopped"
      BY SessionWritten, WorkApart, MessageFields DEF Marks
    <2>3. Running /\ UNCHANGED <<toGuest, readerAt>> /\ readerAt = "reading"
      BY <1>12 DEF Breach, Running
    <2> QED BY <2>1, <2>2, <2>3
  <1>13. ASSUME NEW c \in Invocations, SendInvocation(c) \/ Cancel(c)
         PROVE  \/ toGuest' = toGuest
                \/ \E f \in HostFrames : /\ toGuest' = Append(toGuest, f)
                                         /\ f.kind = "invoke" => life = "active"
                                         /\ f.kind = "stop" => StopSent'
    BY <1>6, <1>7, <1>13, SessionWritten, MessageFields
  <1>14. ASSUME NEW w \in Work, FinishImport(w)
         PROVE  \/ toGuest' = toGuest
                \/ \E f \in HostFrames : /\ toGuest' = Append(toGuest, f)
                                         /\ f.kind = "invoke" => life = "active"
                                         /\ f.kind = "stop" => StopSent'
    BY <1>8, <1>14, SessionWritten, MessageFields
  <1>15. CASE \E c \in Invocations : SendInvocation(c) \/ Cancel(c)
    BY <1>9, <1>13, <1>15
  <1>16. CASE \E w \in Work : FinishImport(w)
    BY <1>10, <1>14, <1>16
  <1>17. CASE \E c \in Invocations : \/ TimerFires(c) \/ TakeResult(c) \/ TakeOutbound(c)
                                     \/ TakeAck(c) \/ TakeSettlement(c) \/ Lost(c)
                                     \/ BeginInvocation(c) \/ DropCall(c)
    BY <1>11, <1>17
  <1> QED BY <1>1, <1>2, <1>3, <1>4, <1>5, <1>12, <1>15, <1>16, <1>17
          DEF HostNext, HostLife, HostMay, HostImport, HostCall

\* What the guest does to them: it reads at most one frame, and writes while it runs; its report
\* of a stop is the last thing it writes.
LEMMA GuestPipes ==
  ASSUME SessionTypeOK, GuestNext
  PROVE  /\ Running
         /\ toGuest' = toGuest \/ (toGuest # <<>> /\ toGuest' = Tail(toGuest))
         /\ \/ toHost' = toHost
            \/ \E f \in GuestFrames :
                 /\ toHost' = Append(toHost, f)
                 /\ f.kind = "stopped" => /\ "cleanup" \in loopback /\ process' = "dead"
                                          /\ UNCHANGED guest /\ toGuest' = toGuest
            \/ \E c \in Invocations :
                 toHost' = Append(Append(toHost, Message("result", c, "refused")),
                                  Message("settlement", c, "completed"))
  <1>1. Running /\ (toGuest' = toGuest \/ (toGuest # <<>> /\ toGuest' = Tail(toGuest)))
    BY DEF GuestNext, GuestMain, GuestThread, Initialize, Construct, Accept, OutboundResult,
       CancelArrives, Acknowledge, StopArrives, ReportConstruct, ReportStop, CallOut, LifecycleEnds,
       WriteResult, RetireId, Settle, Receives, Taken
  <1>2. ASSUME NEW f \in GuestFrames, Writes(f), f.kind # "stopped"
        PROVE  \E g \in GuestFrames : toHost' = Append(toHost, g) /\ g.kind # "stopped"
    BY <1>2 DEF Writes
  <1>3. CASE Initialize
    BY <1>1, <1>2, <1>3, SessionWritten, MessageFields, WorkApart DEF Initialize
  <1>4. CASE Accept
    <2> DEFINE c == Head(toGuest).of
    <2>1. c \in Invocations /\ c \in Work
      BY <1>4, SessionReads, SessionFrames, WorkApart DEF Accept, Receives
    <2>2. \/ toHost' = toHost
          \/ toHost' = toHost \o <<Message("result", c, "refused"),
                                   Message("settlement", c, "completed")>>
      BY <1>4 DEF Accept
    <2>3. \A f, g \in GuestFrames : \A s \in Seq(GuestFrames) : s \o <<f, g>> = Append(Append(s, f), g)
      OBVIOUS
    <2>4. /\ Message("result", c, "refused") \in GuestFrames
          /\ Message("settlement", c, "completed") \in GuestFrames
      BY <2>1, SessionWritten DEF Marks
    <2>5. toHost \in Seq(GuestFrames)
      BY DEF SessionTypeOK
    <2> HIDE DEF c
    <2> QED BY <1>1, <2>1, <2>2, <2>3, <2>4, <2>5
  <1>5. CASE Construct \/ OutboundResult \/ CancelArrives \/ StopArrives
    BY <1>1, <1>5 DEF Construct, OutboundResult, CancelArrives, StopArrives
  <1>6. CASE Acknowledge
    <2>1. main[2] \in Work /\ main[3] \in Marks
      BY <1>6 DEF Acknowledge, SessionTypeOK, Marks
    <2> QED BY <1>1, <1>2, <1>6, <2>1, SessionWritten, MessageFields DEF Acknowledge
  <1>7. CASE ReportConstruct
    BY <1>1, <1>2, <1>7, SessionWritten, MessageFields, WorkApart DEF ReportConstruct
  <1>8. CASE ReportStop
    BY <1>1, <1>8, SessionWritten, MessageFields, WorkApart DEF ReportStop, Leaves, Writes
  <1>9. ASSUME NEW w \in Work, CallOut(w) \/ LifecycleEnds(w)
        PROVE  \/ toHost' = toHost
               \/ \E g \in GuestFrames : toHost' = Append(toHost, g) /\ g.kind # "stopped"
    BY <1>2, <1>9, SessionWritten, MessageFields DEF CallOut, LifecycleEnds, Marks
  <1>10. ASSUME NEW w \in Invocations, WriteResult(w) \/ RetireId(w)
         PROVE  \/ toHost' = toHost
                \/ \E g \in GuestFrames : toHost' = Append(toHost, g) /\ g.kind # "stopped"
    BY <1>2, <1>10, SessionWritten, MessageFields, WorkApart DEF WriteResult, RetireId, Marks
  <1>11. ASSUME NEW w \in Invocations, Settle(w)
         PROVE  \/ toHost' = toHost
                \/ \E g \in GuestFrames : toHost' = Append(toHost, g) /\ g.kind # "stopped"
    BY <1>2, <1>11, SessionWritten, MessageFields, WorkApart DEF Settle, SettledAs, Marks
  <1>12. CASE \E w \in Work : GuestThread(w)
    BY <1>1, <1>9, <1>10, <1>11, <1>12 DEF GuestThread
  <1> QED BY <1>3, <1>4, <1>5, <1>6, <1>7, <1>8, <1>12 DEF GuestNext, GuestMain

\* A stop stays in order, whatever the Host does ...
LEMMA HostObeys ==
  ASSUME SessionTypeOK, TasksFit, StopObeyed, HostNext, UNCHANGED guest PROVE StopObeyed'
  <1>0. (process = "dead" => process' = "dead") /\ (StopSent => StopSent')
    BY SessionStays DEF V2Next
  <1>1. toGuest \in Seq(HostFrames) /\ toHost \in Seq(GuestFrames)
    BY DEF SessionTypeOK
  <1>2. StopSent => life # "active"
    BY DEF StopSent
  <1>3. /\ Holds(toGuest', "stop") => StopSent'
        /\ NoneAfterStop(toGuest')
        /\ StopSent /\ ~Holds(toGuest, "invoke") => ~Holds(toGuest', "invoke")
    <2>1. CASE toGuest' = toGuest \/ toGuest' = <<>>
      BY <1>0, <2>1, EmptyHolds DEF StopObeyed
    <2>2. ASSUME NEW f \in HostFrames, toGuest' = Append(toGuest, f),
                 f.kind = "invoke" => life = "active", f.kind = "stop" => StopSent'
          PROVE  <1>3!1 /\ <1>3!2 /\ <1>3!3
      BY <1>0, <1>1, <1>2, <2>2, AppendHolds DEF StopObeyed
    <2> QED BY <2>1, <2>2, HostPipes
  <1>4. lifecycle' = "cleanup" => StopSent' /\ active' = {} /\ ~Holds(toGuest', "invoke")
    BY <1>0, <1>3 DEF StopObeyed, guest
  <1>5. /\ Holds(toHost', "stopped") => StopSent' /\ process' = "dead"
        /\ StoppedIsLast(toHost')
    <2>1. CASE toHost' = toHost \/ toHost' = <<>> \/ (toHost # <<>> /\ toHost' = Tail(toHost))
      BY <1>0, <1>1, <2>1, EmptyHolds, TailHolds DEF StopObeyed
    <2>2. ASSUME Running, NEW f \in GuestFrames, f.kind # "stopped", toHost' = Append(toHost, f)
          PROVE  <1>5!1 /\ <1>5!2
      BY <1>1, <2>2, AppendHolds DEF StopObeyed, Running
    <2> QED BY <2>1, <2>2, HostPipes
  <1>6. readerAt' = "stopped" => StopSent' /\ process' = "dead" /\ toHost' = <<>>
    <2>1. CASE readerAt = "stopped" /\ toHost' = toHost
      BY <1>0, <2>1 DEF StopObeyed
    <2>2. CASE toHost # <<>> /\ Head(toHost).kind = "stopped" /\ toHost' = Tail(toHost)
      BY <1>0, <1>1, <2>2, TailHolds DEF StopObeyed
    <2> QED BY <2>1, <2>2, HostPipes
  <1> QED BY <1>3, <1>4, <1>5, <1>6 DEF StopObeyed

\* ... or the guest.
LEMMA GuestObeys ==
  ASSUME SessionTypeOK, TasksFit, LifecycleFits, StopObeyed, GuestNext, UNCHANGED session
  PROVE  StopObeyed'
  <1>0. (process = "dead" => process' = "dead") /\ (StopSent => StopSent') /\ readerAt' = readerAt
        /\ readerAt # "stopped" /\ ~Holds(toHost, "stopped")
    BY SessionStays, GuestPipes DEF V2Next, session, StopObeyed, Running
  <1>1. toGuest \in Seq(HostFrames) /\ toHost \in Seq(GuestFrames)
    BY DEF SessionTypeOK
  <1>2. /\ Holds(toGuest', "stop") => StopSent'
        /\ NoneAfterStop(toGuest') /\ (~Holds(toGuest, "invoke") => ~Holds(toGuest', "invoke"))
    BY <1>0, <1>1, GuestPipes, TailHolds DEF StopObeyed
  <1>3. /\ Holds(toHost', "stopped") => StopSent' /\ process' = "dead"
        /\ StoppedIsLast(toHost')
    <2>1. CASE toHost' = toHost
      BY <1>0, <2>1 DEF StopObeyed
    <2>2. ASSUME NEW f \in GuestFrames, toHost' = Append(toHost, f),
                 f.kind = "stopped" => "cleanup" \in loopback /\ process' = "dead"
          PROVE  <1>3!1 /\ <1>3!2
      <3>1. "cleanup" \in loopback => StopSent
        BY WorkApart DEF LifecycleFits, StopObeyed
      <3> QED BY <1>0, <1>1, <2>2, <3>1, AppendHolds
    <2>3. ASSUME NEW c \in Invocations,
                 toHost' = Append(Append(toHost, Message("result", c, "refused")),
                                  Message("settlement", c, "completed"))
          PROVE  <1>3!1 /\ <1>3!2
      <3> DEFINE f == Message("result", c, "refused")
                 g == Message("settlement", c, "completed")
      <3>1. f \in GuestFrames /\ g \in GuestFrames /\ f.kind = "result" /\ g.kind = "settlement"
        BY SessionWritten, WorkApart, MessageFields DEF Marks
      <3> HIDE DEF f, g
      <3>2. /\ Append(toHost, f) \in Seq(GuestFrames) /\ ~Holds(Append(toHost, f), "stopped")
        BY <1>0, <1>1, <3>1, AppendHolds, AppendProperties
      <3>3. toHost' = Append(Append(toHost, f), g)
        BY <2>3 DEF f, g
      <3> QED BY <3>1, <3>2, <3>3, AppendHolds
    <2> QED BY <2>1, <2>2, <2>3, GuestPipes
  <1>4. lifecycle' = "cleanup" => StopSent' /\ active' = {} /\ ~Holds(toGuest', "invoke")
    <2>1. CASE lifecycle = "cleanup" /\ active' \subseteq active
      BY <1>0, <1>2, <2>1 DEF StopObeyed
    <2>2. CASE StopArrives
      <3>1. toGuest # <<>> /\ Head(toGuest).kind = "stop" /\ toGuest' = Tail(toGuest)
        BY <2>2 DEF StopArrives, Receives, Taken
      <3>2. StopSent' /\ ~Holds(toGuest', "invoke")
        BY <1>0, <1>1, <3>1, TailHolds DEF StopObeyed
      <3>3. lifecycle' = "cleanup" => active' = {}
        BY <2>2 DEF StopArrives, StopObeyed, Leaves, guest
      <3> QED BY <3>2, <3>3
    <2>3. CASE Accept
      <3>1. lifecycle # "cleanup"
        BY <1>1, <2>3, TailHolds DEF Accept, Receives, StopObeyed
      <3> QED BY <2>3, <3>1 DEF Accept, Leaves, guest
    <2>4. ~StopArrives /\ ~Accept /\ lifecycle' = "cleanup" =>
            lifecycle = "cleanup" /\ active' \subseteq active
      BY WorkApart DEF GuestNext, GuestMain, GuestThread, Initialize, Construct, OutboundResult,
         CancelArrives, Acknowledge, ReportConstruct, ReportStop, CallOut, LifecycleEnds,
         WriteResult, RetireId, Settle, Leaves, guest, LifecycleOver
    <2> QED BY <2>1, <2>2, <2>3, <2>4
  <1> QED BY <1>0, <1>2, <1>3, <1>4 DEF StopObeyed

\* Every step keeps what is said of a stop.
LEMMA SessionObeys ==
  ASSUME SessionTypeOK, TasksFit, LifecycleFits, StopObeyed, [V2Next]_v2vars PROVE StopObeyed'
  <1>1. CASE Exit \/ UNCHANGED v2vars
    <2>1. UNCHANGED <<toGuest, toHost, lifecycle, active, readerAt>>
      BY <1>1 DEF Exit, v2vars, wire, session, guest
    <2>2. (process = "dead" => process' = "dead") /\ (StopSent => StopSent')
      BY SessionStays
    <2> QED BY <2>1, <2>2 DEF StopObeyed
  <1> QED BY <1>1, HostObeys, GuestObeys DEF V2Next

-----------------------------------------------------------------------------
(* Where the calls are                                                      *)

\* A call that waits after a step of the Host had waited before it, or was just sent.
LEMMA HostWaits ==
  ASSUME SessionTypeOK, HostNext, NEW c \in Invocations, c \in pending', calls'[c].at = "waiting"
  PROVE  \/ SendInvocation(c) /\ CanSend /\ Send(Message("invoke", c, "ok"))
         \/ c \in pending /\ calls[c].at = "waiting"
  <1> DEFINE Waited == \/ SendInvocation(c) /\ CanSend /\ Send(Message("invoke", c, "ok"))
                       \/ c \in pending /\ calls[c].at = "waiting"
  <1>0. c \notin Scopes /\ Scopes = {"construct", "cleanup"} /\ c # "construct" /\ c # "cleanup"
    BY WorkApart
  <1>1. CASE HostReader \/ Breach
    BY <1>1 DEF HostReader, ReadLifecycle, ReadEvent, ReadFailure, ReaderGivesUp, RetireAll, Breach
  <1>2. CASE HostLife \/ Deactivate \/ LifecycleCancelled
    <2>1. UNCHANGED calls
      BY <1>2 DEF HostLife, BeginConstruct, BeginFactory, EndFactory, Activate, Monitor, SendStop,
         EndStop, Reap, LifecycleEvent, DropGeneration, Deactivate, LifecycleCancelled
    <2>2. pending' \subseteq pending \union {"construct", "cleanup"}
      BY <1>2 DEF HostLife, BeginConstruct, BeginFactory, EndFactory, Activate, Monitor, SendStop,
         EndStop, Reap, LifecycleEvent, DropGeneration, Deactivate, LifecycleCancelled, Abort,
         Untouched, RetireAll
    <2> QED BY <1>0, <2>1, <2>2
  <1>3. ASSUME NEW d \in Invocations, SendInvocation(d) PROVE Waited
    <2>1. CASE /\ calls' = [calls EXCEPT ![d].at = "waiting"] /\ UNCHANGED pending
               /\ CanSend /\ Send(Message("invoke", d, "ok"))
      BY <1>3, <2>1, OneCall
    <2>2. CASE calls' = Ends(d) /\ pending' = Withdrawn(d)
      BY <2>2, OneCall DEF Withdrawn
    <2> QED BY <1>3, <2>1, <2>2 DEF SendInvocation
  <1>4. ASSUME NEW d \in Invocations, BeginInvocation(d) PROVE Waited
    <2>1. CASE calls' = Ends(d) /\ UNCHANGED pending
      BY <2>1, OneCall
    <2>2. CASE calls' = [calls EXCEPT ![d].at = "sending"] /\ pending' = pending \union {d}
      BY <2>2, OneCall
    <2> QED BY <1>4, <2>1, <2>2 DEF BeginInvocation
  <1>5. ASSUME NEW d \in Invocations,
               \/ TakeResult(d) \/ TakeAck(d) \/ TakeSettlement(d) \/ Lost(d) \/ TakeOutbound(d)
               \/ Cancel(d) \/ DropCall(d) \/ TimerFires(d)
        PROVE  Waited
    <2>1. pending' \subseteq pending
      BY <1>5 DEF TakeResult, TakeAck, TakeSettlement, Lost, TakeOutbound, Cancel, DropCall,
         TimerFires, HostOnly, Withdrawn, Abort, Untouched, RetireAll
    <2>2. \/ calls' = Ends(d) \/ calls' = calls
          \/ calls' = [calls EXCEPT ![d].cancelSent = TRUE]
          \/ calls' = [calls EXCEPT ![d].outcome = "outcome"]
      BY <1>5 DEF TakeResult, TakeAck, TakeSettlement, Lost, TakeOutbound, Cancel, DropCall,
         TimerFires, ReturnsEarly
    <2> QED BY <2>1, <2>2, OneCall
  <1>6. ASSUME NEW w \in Work, FinishImport(w) PROVE Waited
    <2>1. pending' \subseteq pending
      BY <1>6 DEF FinishImport
    <2>2. calls' = calls \/ (w \in Invocations /\ calls' = Ends(w))
      BY <1>6, WorkApart DEF FinishImport, ReturnsEarly
    <2> QED BY <2>1, <2>2, OneCall
  <1> QED BY <1>1, <1>2, <1>3, <1>4, <1>5, <1>6 DEF HostNext, HostMay, HostCall, HostImport

\* A settlement that was on its way to a call that still waits is so after a step of the Host.
LEMMA HostSettles ==
  ASSUME SessionTypeOK, HostNext, UNCHANGED guest, NEW c \in Invocations,
         c \in pending, calls[c].at = "waiting", c \in pending', calls'[c].at = "waiting",
         Settling(c)
  PROVE  Settling(c)'
  <1>0. /\ retired' = retired /\ c \in Work /\ c \notin Scopes
        /\ toHost \in Seq(GuestFrames) /\ channel[c] \in Seq(GuestFrames)
        /\ DOMAIN channel = Work
    BY WorkApart, SessionReads DEF guest, SessionTypeOK
  <1>a. CASE c \in retired
    BY <1>0, <1>a DEF Settling
  <1>b. ASSUME Carries(toHost, c, "settlement") => Carries(toHost', c, "settlement"),
               Carries(channel[c], c, "settlement") => Carries(channel'[c], c, "settlement")
        PROVE  Settling(c)'
    BY <1>0, <1>b DEF Settling
  <1>1. CASE ReadLifecycle
    BY <1>0, <1>1, <1>b, TailHolds DEF ReadLifecycle
  <1>2. CASE ReadEvent
    <2>1. /\ toHost # <<>> /\ toHost' = Tail(toHost) /\ Head(toHost) \in GuestFrames
          /\ Head(toHost).of \in Work
          /\ channel' = [channel EXCEPT ![Head(toHost).of] = Append(@, Head(toHost))]
      BY <1>2, SessionReads, SessionFrames DEF ReadEvent
    <2>2. CASE Head(toHost).of = c
      <3>1. channel'[c] = Append(channel[c], Head(toHost))
        BY <1>0, <2>1, <2>2
      <3> QED BY <1>0, <2>1, <2>2, <3>1, TailHolds, AppendHolds DEF Settling
    <2>3. CASE Head(toHost).of # c
      <3>1. channel'[c] = channel[c]
        BY <1>0, <2>1, <2>3
      <3> QED BY <1>0, <1>b, <2>1, <2>3, <3>1, TailHolds
    <2> QED BY <2>2, <2>3
  <1>3. CASE ReadFailure
    <2>1. UNCHANGED channel
      BY <1>3 DEF ReadFailure
    <2>2. CASE toHost = <<>>
      BY <1>3, <1>b, <2>1, <2>2 DEF ReadFailure
    <2>3. CASE toHost # <<>>
      <3>1. ~Delivered(Head(toHost)) /\ toHost' = Tail(toHost)
        BY <1>3, <2>3 DEF ReadFailure
      <3>2. ~(Head(toHost).of = c /\ Head(toHost).kind = "settlement")
        BY <1>0, <3>1 DEF Delivered, Listening
      <3> QED BY <1>0, <1>b, <2>1, <2>3, <3>1, <3>2, TailHolds
    <2> QED BY <2>2, <2>3
  <1>4. CASE ReaderGivesUp
    BY <1>4 DEF ReaderGivesUp, RetireAll
  <1>5. CASE Breach
    <2>1. PICK d \in Invocations, kind \in {"result", "outbound", "settlement", "garbage"} :
            toHost' = Append(toHost, Message(kind, d, Invalid))
      BY <1>5 DEF Breach
    <2>2. Message(kind, d, Invalid) \in GuestFrames /\ UNCHANGED channel
      BY <1>5, SessionWritten, WorkApart DEF Marks, Breach
    <2> QED BY <1>0, <1>b, <2>1, <2>2, AppendHolds
  <1>6. CASE UNCHANGED toHost /\ channel'[c] = channel[c]
    BY <1>b, <1>6
  <1>7. CASE HostLife \/ Deactivate \/ LifecycleCancelled
    <2>1. UNCHANGED toHost
      BY <1>7 DEF HostLife, BeginConstruct, BeginFactory, EndFactory, Activate, Monitor, SendStop,
         EndStop, Reap, LifecycleEvent, DropGeneration, Deactivate, LifecycleCancelled, wire
    <2>2. \/ channel' = channel
          \/ \E w \in Scopes : \/ channel' = [channel EXCEPT ![w] = <<>>]
                               \/ channel' = [channel EXCEPT ![w] = Tail(@)]
      BY <1>7, WorkApart DEF HostLife, BeginConstruct, BeginFactory, EndFactory, Activate, Monitor,
         SendStop, EndStop, Reap, LifecycleEvent, DropGeneration, Deactivate, LifecycleCancelled
    <2>3. channel'[c] = channel[c]
      BY <1>0, <2>2
    <2> QED BY <1>6, <2>1, <2>3
  <1>8. ASSUME NEW d \in Invocations, HostCall(d) \/ BeginInvocation(d) \/ Cancel(d) \/ DropCall(d)
        PROVE  Settling(c)'
    <2>1. UNCHANGED toHost
      BY <1>8 DEF HostCall, SendInvocation, TimerFires, TakeResult, TakeOutbound, TakeAck, Lost,
         TakeSettlement, BeginInvocation, Cancel, DropCall, wire
    <2>2. d \in Work /\ channel \in [Work -> Seq(GuestFrames)]
      BY WorkApart DEF SessionTypeOK
    <2>3. \/ channel' = channel \/ ReturnsEarly(d)
          \/ (Event(d, "result") /\ Popped(d)) \/ (Event(d, "outbound") /\ Popped(d))
          \/ Event(d, "cancelack") /\ Popped(d)
      BY <1>8 DEF HostCall, SendInvocation, TimerFires, TakeResult, TakeOutbound, TakeAck, Lost,
         TakeSettlement, BeginInvocation, Cancel, DropCall
    <2>4. CASE channel' = channel
      BY <1>6, <2>1, <2>4
    <2>5. CASE ReturnsEarly(d)
      <3>1. d # c
        BY <2>5, OneCall DEF ReturnsEarly
      <3>2. channel'[c] = channel[c]
        BY <1>0, <2>2, <2>5, <3>1 DEF ReturnsEarly, Dropped
      <3> QED BY <1>6, <2>1, <3>2
    <2>6. CASE /\ channel[d] # <<>> /\ Head(channel[d]).kind \in {"result", "outbound", "cancelack"}
               /\ channel' = [channel EXCEPT ![d] = Tail(@)]
      <3>1. CASE d # c
        BY <1>0, <1>6, <2>1, <2>2, <2>6, <3>1
      <3>2. CASE d = c
        <4>1. channel'[c] = Tail(channel[c])
          BY <1>0, <2>2, <2>6, <3>2
        <4> QED BY <1>0, <1>b, <2>1, <2>6, <3>2, <4>1, TailHolds
      <3> QED BY <3>1, <3>2
    <2> QED BY <2>3, <2>4, <2>5, <2>6 DEF Event, Popped
  <1>9. ASSUME NEW w \in Work, FinishImport(w) PROVE Settling(c)'
    <2>1. UNCHANGED toHost
      BY <1>9 DEF FinishImport
    <2>2. channel' = channel \/ (w \in Invocations /\ ReturnsEarly(w))
      BY <1>9, WorkApart DEF FinishImport
    <2>3. CASE channel' = channel
      BY <1>6, <2>1, <2>3
    <2>4. CASE w \in Invocations /\ ReturnsEarly(w)
      <3>1. w # c
        BY <2>4, OneCall DEF ReturnsEarly
      <3>2. channel'[c] = channel[c]
        BY <1>0, <2>4, <3>1 DEF ReturnsEarly, Dropped
      <3> QED BY <1>6, <2>1, <3>2
    <2> QED BY <2>2, <2>3, <2>4
  <1> QED BY <1>1, <1>2, <1>3, <1>4, <1>5, <1>7, <1>8, <1>9
          DEF HostNext, HostReader, HostMay, HostImport

\* A call that waits is accounted for, whatever the Host does ...
LEMMA HostAccounts ==
  ASSUME SessionTypeOK, TasksFit, StopObeyed, Accounted, HostNext, UNCHANGED guest
  PROVE  Accounted'
  <1> SUFFICES ASSUME NEW c \in Invocations, c \in pending', calls'[c].at = "waiting"
               PROVE  /\ Running' => \/ Settling(c)' \/ c \in active'
                                     \/ Carries(toGuest', c, "invoke")
                      /\ StopReported' => Settling(c)'
    BY DEF Accounted
  <1>0. /\ toGuest \in Seq(HostFrames) /\ toHost \in Seq(GuestFrames)
        /\ process = "dead" => process' = "dead"
    BY SessionStays DEF SessionTypeOK, V2Next
  <1>1. StopReported' => StopReported
    <2>1. Holds(toHost', "stopped") => Holds(toHost, "stopped")
      <3>1. CASE toHost' = toHost \/ toHost' = <<>> \/ (toHost # <<>> /\ toHost' = Tail(toHost))
        BY <1>0, <3>1, EmptyHolds, TailHolds
      <3>2. CASE \E f \in GuestFrames : f.kind # "stopped" /\ toHost' = Append(toHost, f)
        BY <1>0, <3>2, AppendHolds
      <3> QED BY <3>1, <3>2, HostPipes
    <2>2. readerAt' = "stopped" => StopReported
      BY <1>0, HostPipes, TailHolds DEF StopReported
    <2> QED BY <2>1, <2>2 DEF StopReported
  <1>2. CASE SendInvocation(c) /\ CanSend /\ Send(Message("invoke", c, "ok"))
    <2>1. Carries(toGuest', c, "invoke")
      BY <1>0, <1>2, AppendHolds, SessionWritten, MessageFields DEF Send
    <2>2. ~StopReported
      BY <1>2 DEF CanSend, StopReported, StopObeyed
    <2> QED BY <1>1, <2>1, <2>2
  <1>3. CASE c \in pending /\ calls[c].at = "waiting"
    <2>1. Settling(c) => Settling(c)'
      BY <1>3, HostSettles
    <2>2. Running' => Running /\ (Carries(toGuest, c, "invoke") => Carries(toGuest', c, "invoke"))
      <3>1. Running' => \/ toGuest' = toGuest
                        \/ \E f \in HostFrames : toGuest' = Append(toGuest, f)
        BY HostPipes DEF Running
      <3>2. ASSUME NEW f \in HostFrames, toGuest' = Append(toGuest, f)
            PROVE  Carries(toGuest, c, "invoke") => Carries(toGuest', c, "invoke")
        BY <1>0, <3>2, AppendHolds
      <3>3. Running' => Running
        BY <1>0 DEF Running, SessionTypeOK
      <3> QED BY <3>1, <3>2, <3>3
    <2>3. active' = active
      BY DEF guest
    <2> QED BY <1>1, <1>3, <2>1, <2>2, <2>3 DEF Accounted
  <1> QED BY <1>2, <1>3, HostWaits

\* ... or the guest.
LEMMA GuestAccounts ==
  ASSUME SessionTypeOK, TasksFit, LifecycleFits, StopObeyed, Accounted, GuestNext, UNCHANGED session
  PROVE  Accounted'
  <1> SUFFICES ASSUME NEW c \in Invocations, c \in pending, calls[c].at = "waiting"
               PROVE  /\ Running' => \/ Settling(c)' \/ c \in active'
                                     \/ Carries(toGuest', c, "invoke")
                      /\ StopReported' => Settling(c)'
    BY DEF Accounted, session
  <1>0. /\ toGuest \in Seq(HostFrames) /\ toHost \in Seq(GuestFrames) /\ Running
        /\ UNCHANGED <<channel, readerAt>> /\ readerAt # "stopped"
    BY GuestPipes DEF SessionTypeOK, session, StopObeyed, Running
  <1>1. Settling(c) \/ c \in active \/ Carries(toGuest, c, "invoke")
    BY <1>0 DEF Accounted
  <1>2. /\ Carries(toHost, c, "settlement") => Carries(toHost', c, "settlement")
        /\ Holds(toHost', "stopped") => \/ Holds(toHost, "stopped")
                                        \/ "cleanup" \in loopback
    <2>1. CASE toHost' = toHost
      BY <2>1
    <2>2. ASSUME NEW f \in GuestFrames, toHost' = Append(toHost, f),
                 f.kind = "stopped" => "cleanup" \in loopback
          PROVE  <1>2!1 /\ <1>2!2
      BY <1>0, <2>2, AppendHolds
    <2>3. ASSUME NEW d \in Invocations,
                 toHost' = Append(Append(toHost, Message("result", d, "refused")),
                                  Message("settlement", d, "completed"))
          PROVE  <1>2!1 /\ <1>2!2
      <3> DEFINE f == Message("result", d, "refused")
                 g == Message("settlement", d, "completed")
      <3>1. f \in GuestFrames /\ g \in GuestFrames /\ f.kind = "result" /\ g.kind = "settlement"
        BY SessionWritten, WorkApart, MessageFields DEF Marks
      <3>2. toHost' = Append(Append(toHost, f), g)
        BY <2>3
      <3> HIDE DEF f, g
      <3>3. Append(toHost, f) \in Seq(GuestFrames)
        BY <1>0, <3>1, AppendProperties
      <3> QED BY <1>0, <3>1, <3>2, <3>3, AppendHolds
    <2> QED BY <2>1, <2>2, <2>3, GuestPipes
  <1>3. retired \subseteq retired' /\ (c \in active => c \in active' \/ c \in retired')
    BY DEF GuestNext, GuestMain, GuestThread, Initialize, Construct, Accept, OutboundResult,
       CancelArrives, Acknowledge, StopArrives, ReportConstruct, ReportStop, CallOut, LifecycleEnds,
       WriteResult, RetireId, Settle, Leaves, guest
  <1>4. Settling(c) => Settling(c)'
    BY <1>0, <1>2, <1>3 DEF Settling
  <1>5. Running' /\ Carries(toGuest, c, "invoke") =>
          \/ Carries(toGuest', c, "invoke") \/ c \in active' \/ Settling(c)'
    <2>1. CASE Accept
      <3>1. /\ toGuest # <<>> /\ Head(toGuest).kind = "invoke" /\ toGuest' = Tail(toGuest)
        BY <2>1 DEF Accept, Receives, Taken
      <3>2. CASE Head(toGuest).of # c
        BY <1>0, <3>1, <3>2, TailHolds
      <3>3. CASE Head(toGuest).of = c
        <4>1. \/ process' = "dead" \/ c \in active'
              \/ toHost' = toHost \o <<Message("result", c, "refused"),
                                       Message("settlement", c, "completed")>>
          BY <2>1, <3>3 DEF Accept, Leaves
        <4>2. ASSUME toHost' = toHost \o <<Message("result", c, "refused"),
                                           Message("settlement", c, "completed")>>
              PROVE  Carries(toHost', c, "settlement")
          <5> DEFINE f == Message("result", c, "refused")
                     g == Message("settlement", c, "completed")
          <5>1. f \in GuestFrames /\ g \in GuestFrames /\ g.kind = "settlement" /\ g.of = c
            BY SessionWritten, WorkApart, MessageFields DEF Marks
          <5>2. toHost' = toHost \o <<f, g>>
            BY <4>2
          <5>3. \A a, b \in GuestFrames : \A s \in Seq(GuestFrames) :
                  s \o <<a, b>> = Append(Append(s, a), b) /\ Append(s, a) \in Seq(GuestFrames)
            OBVIOUS
          <5> HIDE DEF f, g
          <5>4. toHost' = Append(Append(toHost, f), g) /\ Append(toHost, f) \in Seq(GuestFrames)
            BY <1>0, <5>1, <5>2, <5>3
          <5> QED BY <5>1, <5>4, AppendHolds
        <4> QED BY <4>1, <4>2 DEF Running, Settling
      <3> QED BY <3>2, <3>3
    <2>2. CASE Initialize
      <3>1. /\ toGuest # <<>> /\ toGuest' = Tail(toGuest)
            /\ process' = "dead" \/ Head(toGuest).kind = "initialize"
        BY <2>2 DEF Initialize, Taken, Leaves
      <3> QED BY <1>0, <3>1, TailHolds DEF Running
    <2>3. CASE Construct \/ OutboundResult \/ CancelArrives \/ StopArrives
      <3>1. /\ toGuest # <<>> /\ toGuest' = Tail(toGuest)
            /\ Head(toGuest).kind # "invoke"
        BY <2>3 DEF Construct, OutboundResult, CancelArrives, StopArrives, Receives, Taken
      <3> QED BY <1>0, <3>1, TailHolds
    <2>4. CASE Acknowledge \/ ReportConstruct \/ ReportStop \/ \E w \in Work : GuestThread(w)
      BY <2>4 DEF Acknowledge, ReportConstruct, ReportStop, GuestThread, CallOut, LifecycleEnds,
         WriteResult, RetireId, Settle
    <2> QED BY <2>1, <2>2, <2>3, <2>4 DEF GuestNext, GuestMain
  <1>6. Running' => Settling(c)' \/ c \in active' \/ Carries(toGuest', c, "invoke")
    BY <1>1, <1>3, <1>4, <1>5 DEF Settling
  <1>7. StopReported' => Settling(c)'
    <2>1. CASE Holds(toHost, "stopped")
      BY <1>0, <2>1 DEF StopObeyed, Running
    <2>2. CASE "cleanup" \in loopback
      <3>1. lifecycle = "cleanup"
        BY <2>2, WorkApart DEF LifecycleFits
      <3>2. active = {} /\ ~Carries(toGuest, c, "invoke")
        BY <3>1 DEF StopObeyed, Holds, Carries
      <3> QED BY <1>1, <1>4, <3>2
    <2> QED BY <1>0, <1>2, <2>1, <2>2 DEF StopReported
  <1> QED BY <1>6, <1>7

\* Every step keeps what accounts for the calls.
LEMMA SessionAccounts ==
  ASSUME SessionTypeOK, TasksFit, LifecycleFits, StopObeyed, Accounted, [V2Next]_v2vars
  PROVE  Accounted'
  <1>1. CASE Exit \/ UNCHANGED v2vars
    <2>1. UNCHANGED <<toGuest, toHost, active, retired, readerAt, channel, pending, calls>>
      BY <1>1 DEF Exit, v2vars, wire, session, guest
    <2>2. Running' => Running
      BY <1>1, SessionStays DEF Running, SessionTypeOK
    <2> QED BY <2>1, <2>2 DEF Accounted, Settling, StopReported
  <1> QED BY <1>1, HostAccounts, GuestAccounts DEF V2Next

-----------------------------------------------------------------------------
(* Two ends that keep to the protocol                                       *)

\* What is said of w in a pipe that becomes another is still so.
KeepsOf(s, t, w) ==
  /\ NoneOf(s, w) <=> NoneOf(t, w)
  /\ \A kind \in {"initialize", "construct", "stop", "invoke", "outboundresult", "outbound",
                  "constructed"} : OnlyOf(s, w, kind) => OnlyOf(t, w, kind)
  /\ ResultsOf(s, w) => ResultsOf(t, w)
  /\ SettlesOf(s, w) => SettlesOf(t, w)

\* A pipe keeps what is said of w when a frame about other work comes or goes.
LEMMA PipeKeeps ==
  /\ \A s, w : KeepsOf(s, s, w)
  /\ \A S, w : \A s \in Seq(S), f \in S : f.of # w => KeepsOf(s, Append(s, f), w)
  /\ \A S, w : \A s \in Seq(S) : s # <<>> /\ Head(s).of # w => KeepsOf(s, Tail(s), w)
  <1>1. \A s, w : KeepsOf(s, s, w)
    BY DEF KeepsOf
  <1>2. ASSUME NEW S, NEW s \in Seq(S), NEW f \in S, NEW w, f.of # w
        PROVE  KeepsOf(s, Append(s, f), w)
    BY <1>2, AppendOther DEF KeepsOf
  <1>3. ASSUME NEW S, NEW s \in Seq(S), NEW w, s # <<>>, Head(s).of # w
        PROVE  KeepsOf(s, Tail(s), w)
    BY <1>3, TailOther DEF KeepsOf
  <1> QED BY <1>1, <1>2, <1>3

\* Nothing of w is touched: neither in the pipes nor in its channel, its thread or its call out.
Apart(w) ==
  /\ KeepsOf(toGuest, toGuest', w) /\ KeepsOf(toHost, toHost', w)
  /\ channel'[w] = channel[w] /\ thread'[w] = thread[w] /\ (w \in importing <=> w \in importing')

\* Then it is where it was.
LEMMA ApartKeeps ==
  ASSUME NEW w, Apart(w)
  PROVE  /\ Nowhere(w) <=> Nowhere(w)'
         /\ \A kind \in {"construct", "stop", "invoke"} : Asked(w, kind) => Asked(w, kind)'
         /\ (CallsOut(w) => CallsOut(w)') /\ (Works(w) => Works(w)') /\ (Rests(w) => Rests(w)')
         /\ Ending(w) /\ (w \in active <=> w \in active') /\ (w \in retired <=> w \in retired') =>
              Ending(w)'
         /\ Settled(w) /\ (w \in active <=> w \in active') => Settled(w)'
  <1>1. Nowhere(w) <=> Nowhere(w)'
    BY DEF Apart, KeepsOf, Nowhere, HostKnows
  <1>2. HostKnows(w) <=> HostKnows(w)'
    BY DEF Apart, KeepsOf, HostKnows
  <1>3. ASSUME NEW kind \in {"construct", "stop", "invoke"}, Asked(w, kind) PROVE Asked(w, kind)'
    BY <1>2, <1>3 DEF Apart, KeepsOf, Asked
  <1>4. CallsOut(w) => CallsOut(w)'
    BY <1>2 DEF Apart, KeepsOf, CallsOut
  <1>5. (Works(w) => Works(w)') /\ (Rests(w) => Rests(w)')
    BY <1>1, <1>4 DEF Works, Rests, Apart
  <1>6. Ending(w) /\ (w \in active <=> w \in active') /\ (w \in retired <=> w \in retired') =>
          Ending(w)'
    BY DEF Apart, KeepsOf, Ending
  <1>7. Settled(w) /\ (w \in active <=> w \in active') => Settled(w)'
    BY DEF Apart, KeepsOf, Settled
  <1> QED BY <1>1, <1>3, <1>4, <1>5, <1>6, <1>7

\* And an invocation is served as it was.
LEMMA ServedKeeps ==
  ASSUME NEW c \in Invocations, Served(c), Apart(c), calls'[c].at = calls[c].at,
         c \in pending <=> c \in pending', c \in active <=> c \in active',
         c \in retired <=> c \in retired'
  PROVE  Served(c)'
  <1>1. c \notin Scopes
    BY WorkApart
  <1>2. Listening(c) <=> Listening(c)'
    BY <1>1 DEF Listening
  <1>3. (c \in pending <=> Listening(c)) <=> (c \in pending' <=> Listening(c)')
    BY <1>2
  <1>4. Rests(c) => Rests(c)'
    BY ApartKeeps
  <1>5. Asked(c, "invoke") => Asked(c, "invoke")'
    BY ApartKeeps
  <1>6. Works(c) => Works(c)'
    BY ApartKeeps
  <1>7. (Ending(c) => Ending(c)') /\ (Settled(c) => Settled(c)')
    BY ApartKeeps
  <1> QED BY <1>3, <1>4, <1>5, <1>6, <1>7 DEF Served

\* The lifecycle is left alone; everything but w is; and what is said of all frames stays true.
LifecycleAlone ==
  UNCHANGED <<main, object, attempted, lifecycle, loopback, slots, reply, life, stopStarted>>
OthersAlone(w) ==
  \A v \in Work : v # w =>
    /\ Apart(v) /\ (v \in pending <=> v \in pending')
    /\ v \in Invocations => /\ calls'[v].at = calls[v].at /\ (v \in active <=> v \in active')
                            /\ v \in retired <=> v \in retired'
Soundly == /\ ~isFailed' /\ ~isStopped' /\ readerAt' = "reading" /\ Undisturbed'

\* The other invocations are served as they were.
LEMMA OthersServed ==
  ASSUME NEW w, OthersAlone(w), \A c \in Invocations : Served(c)
  PROVE  \A c \in Invocations : c # w => Served(c)'
  BY ServedKeeps, WorkApart DEF OthersAlone

\* A step of one invocation keeps the order when it leaves that invocation in order.
LEMMA CallInOrder ==
  ASSUME NEW c \in Invocations, InOrder, Serves, OthersAlone(c), LifecycleAlone, Soundly, Served(c)'
  PROVE  InOrder'
  <1>1. \A d \in Invocations : Served(d)'
    BY OthersServed DEF InOrder
  <1>2. \A w \in Scopes : /\ w # c /\ w \in Work /\ Apart(w) /\ (w \in pending <=> w \in pending')
    BY WorkApart DEF OthersAlone
  <1>3. \A w \in Scopes : /\ (Rests(w) => Rests(w)') /\ (Works(w) => Works(w)')
                          /\ \A kind \in {"construct", "stop", "invoke"} :
                               Asked(w, kind) => Asked(w, kind)'
    BY <1>2, ApartKeeps
  <1>4. "construct" \in Scopes /\ "cleanup" \in Scopes
    BY WorkApart
  <1>5. Stops => Stops'
    BY <1>2, <1>3, <1>4 DEF Stops, LifecycleAlone
  <1>6. Serves'
    BY <1>2, <1>3, <1>4, <1>5 DEF Serves, LifecycleAlone
  <1>7. ~Starts' /\ ~Constructs'
    BY DEF Serves, Stops, LifecycleAlone, Starts, Constructs
  <1> QED BY <1>1, <1>6, <1>7 DEF InOrder, Soundly

\* Frames that come and go leave the others valid and in their place.
LEMMA FramesSound ==
  /\ Valid(<<>>) /\ \A w : About(<<>>, w)
  /\ \A S : \A s \in Seq(S), f \in S :
       /\ Valid(s) /\ f.mark # Invalid => Valid(Append(s, f))
       /\ \A w : About(s, w) /\ f.of = w => About(Append(s, f), w)
  /\ \A S : \A s \in Seq(S) : s # <<>> =>
       /\ Valid(s) => Valid(Tail(s)) /\ Head(s).mark # Invalid
       /\ \A w : About(s, w) => About(Tail(s), w) /\ Head(s).of = w
  <1>1. Len(<<>>) = 0
    OBVIOUS
  <1>2. ASSUME NEW S, NEW s \in Seq(S), NEW f \in S
        PROVE  /\ Valid(s) /\ f.mark # Invalid => Valid(Append(s, f))
               /\ \A w : About(s, w) /\ f.of = w => About(Append(s, f), w)
    <2> DEFINE t == Append(s, f)
    <2>1. /\ Len(t) = Len(s) + 1 /\ Len(s) \in Nat /\ \A i \in 1..Len(s) : t[i] = s[i]
          /\ t[Len(s) + 1] = f
      BY ONLY SessionAppend, f \in S, s \in Seq(S)
    <2> HIDE DEF t
    <2>2. \A i \in 1..Len(t) : t[i] = f \/ (i \in 1..Len(s) /\ t[i] = s[i])
      BY <2>1
    <2>3. Valid(s) /\ f.mark # Invalid => Valid(t)
      BY <2>2 DEF Valid
    <2>4. \A w : About(s, w) /\ f.of = w => About(t, w)
      BY <2>2 DEF About
    <2> QED BY <2>3, <2>4 DEF t
  <1>3. ASSUME NEW S, NEW s \in Seq(S), s # <<>>
        PROVE  /\ Valid(s) => Valid(Tail(s)) /\ Head(s).mark # Invalid
               /\ \A w : About(s, w) => About(Tail(s), w) /\ Head(s).of = w
    <2> DEFINE t == Tail(s)
    <2>1. /\ Len(t) = Len(s) - 1 /\ Len(s) \in Nat \ {0} /\ \A i \in 1..Len(t) : t[i] = s[i + 1]
          /\ Head(s) = s[1]
      BY <1>3, SessionTail
    <2> HIDE DEF t
    <2>2. 1 \in 1..Len(s) /\ \A i \in 1..Len(t) : i + 1 \in 1..Len(s) /\ t[i] = s[i + 1]
      BY <2>1
    <2>3. Valid(s) => Valid(t) /\ Head(s).mark # Invalid
      BY <2>1, <2>2 DEF Valid
    <2>4. \A w : About(s, w) => About(t, w) /\ Head(s).of = w
      BY <2>1, <2>2 DEF About
    <2> QED BY <2>3, <2>4 DEF t
  <1> QED BY <1>1, <1>2, <1>3 DEF Valid, About

\* A channel about which nothing can be said of its own work is empty, and so is a pipe about
\* which nothing can be said of any work.
LEMMA NothingInside ==
  ASSUME SessionTypeOK
  PROVE  /\ \A w \in Work : About(channel[w], w) /\ NoneOf(channel[w], w) => channel[w] = <<>>
         /\ (\A w \in Work : NoneOf(toHost, w)) => toHost = <<>>
         /\ (\A w \in Work : NoneOf(toGuest, w)) => toGuest = <<>>
  <1>1. ASSUME NEW w \in Work, About(channel[w], w), NoneOf(channel[w], w) PROVE channel[w] = <<>>
    <2>1. CASE channel[w] # <<>>
      BY <1>1, <2>1, TailOwn, FramesSound, SessionReads
    <2> QED BY <2>1
  <1>2. ASSUME \A w \in Work : NoneOf(toHost, w) PROVE toHost = <<>>
    <2>1. CASE toHost # <<>>
      <3>1. Head(toHost).of \in Work /\ toHost \in Seq(GuestFrames)
        BY <2>1, SessionReads, SessionFrames DEF SessionTypeOK
      <3> QED BY <1>2, <2>1, <3>1, TailOwn
    <2> QED BY <2>1
  <1>3. ASSUME \A w \in Work : NoneOf(toGuest, w) PROVE toGuest = <<>>
    <2>1. CASE toGuest # <<>>
      <3>1. Head(toGuest).of \in Work /\ toGuest \in Seq(HostFrames)
        BY <2>1, SessionReads, SessionFrames DEF SessionTypeOK
      <3> QED BY <1>3, <2>1, <3>1, TailOwn
    <2> QED BY <2>1
  <1> QED BY <1>1, <1>2, <1>3

\* Where each piece of work is, in a session in order.
LEMMA WorkInOrder ==
  ASSUME SessionTypeOK, InOrder
  PROVE  /\ \A c \in Invocations : calls[c].at # "new" => Serves
         /\ \A c \in Invocations : \/ Rests(c) /\ calls[c].at # "waiting"
                                   \/ /\ calls[c].at = "waiting"
                                      /\ Asked(c, "invoke") \/ Works(c) \/ Ending(c) \/ Settled(c)
         /\ \/ Starts
            \/ Constructs /\ Rests("cleanup")
            \/ Serves /\ Rests("construct")
  <1>1. \A c \in Invocations : calls[c].at # "new" => Serves
    BY DEF InOrder
  <1>2. ASSUME NEW c \in Invocations
        PROVE  \/ Rests(c) /\ calls[c].at # "waiting"
               \/ /\ calls[c].at = "waiting"
                  /\ Asked(c, "invoke") \/ Works(c) \/ Ending(c) \/ Settled(c)
    <2>1. calls[c].at \in {"new", "sending", "waiting", "done"}
      BY DEF SessionTypeOK, CallStates
    <2> QED BY <2>1 DEF InOrder, Served
  <1> QED BY <1>1, <1>2 DEF InOrder, Serves

\* A thread that runs, or waits for a dependency, works.
LEMMA ThreadWorks ==
  ASSUME SessionTypeOK, InOrder, NEW w \in Work, thread[w] \in {"running", "calling"}
  PROVE  Works(w) /\ ~Starts /\ (w \in Invocations => calls[w].at = "waiting")
  <1>1. ~Starts
    BY DEF Starts
  <1>2. CASE w \in Invocations
    BY <1>1, <1>2, WorkInOrder DEF Rests, Asked, Ending, Settled
  <1>3. CASE w = "construct"
    BY <1>1, <1>3, WorkApart, WorkInOrder DEF Rests, Asked, Constructs
  <1>4. CASE w = "cleanup"
    BY <1>1, <1>4, WorkApart, WorkInOrder DEF Rests, Asked, Serves, Stops
  <1> QED BY <1>1, <1>2, <1>3, <1>4, WorkApart

\* What works is left to: an invocation waits and is active; a scope is the one in progress.
LEMMA WorksWhere ==
  ASSUME SessionTypeOK, InOrder, NEW w \in Work, Works(w)
  PROVE  /\ w \in Invocations => calls[w].at = "waiting" /\ w \in active \ retired /\ Serves
         /\ w = "construct" => /\ Constructs /\ lifecycle = "construct" /\ loopback = {}
                               /\ slots = {"constructed"} /\ reply = "none" /\ life = "construct"
         /\ w = "cleanup" => /\ Serves /\ Stops /\ lifecycle = "cleanup" /\ loopback = {}
                             /\ life = "cleanup"
  <1>1. thread[w] \in {"running", "calling"}
    BY DEF Works, CallsOut
  <1>2. ASSUME w \in Invocations
        PROVE  calls[w].at = "waiting" /\ w \in active \ retired /\ Serves
    <2>1. calls[w].at = "waiting"
      BY <1>1, <1>2, ThreadWorks
    <2> QED BY <1>1, <1>2, <2>1, WorkInOrder DEF InOrder, Served, Asked, Ending, Settled
  <1>3. ASSUME w = "construct"
        PROVE  /\ Constructs /\ lifecycle = "construct" /\ loopback = {}
               /\ slots = {"constructed"} /\ reply = "none" /\ life = "construct"
    <2>1. Constructs
      BY <1>1, <1>3, ThreadWorks, WorkInOrder DEF Rests
    <2> QED BY <1>1, <1>3, <2>1 DEF Constructs, Asked, Rests
  <1>4. ASSUME w = "cleanup"
        PROVE  /\ Serves /\ Stops /\ lifecycle = "cleanup" /\ loopback = {} /\ life = "cleanup"
    <2>1. Serves
      BY <1>1, <1>4, ThreadWorks, WorkInOrder DEF Rests
    <2> QED BY <1>1, <1>4, <2>1 DEF Serves, Stops, Asked, Rests
  <1> QED BY <1>2, <1>3, <1>4

\* A step of one piece of work that works on keeps the order.
LEMMA WorksInOrder ==
  ASSUME SessionTypeOK, InOrder, NEW w \in Work, Works(w), Works(w)', OthersAlone(w),
         LifecycleAlone, Soundly, UNCHANGED <<pending, active, retired>>,
         w \in Invocations => calls'[w].at = calls[w].at
  PROVE  InOrder'
  <1>1. CASE w \in Invocations
    <2>1. calls[w].at = "waiting" /\ w \in active \ retired /\ Serves /\ w \notin Scopes
      BY <1>1, WorksWhere, WorkApart
    <2>2. Served(w)'
      BY <1>1, <2>1 DEF InOrder, Served, Listening
    <2> QED BY <1>1, <2>1, <2>2, CallInOrder
  <1>2. CASE w \in Scopes
    <2>1. \A c \in Invocations : Served(c)' /\ c # w /\ calls'[c].at = calls[c].at
      BY <1>2, OthersServed, WorkApart DEF InOrder, OthersAlone
    <2>2. CASE w = "construct"
      <3>1. /\ Constructs /\ lifecycle = "construct" /\ loopback = {}
            /\ slots = {"constructed"} /\ reply = "none" /\ Rests("cleanup")
        BY <2>2, WorksWhere DEF InOrder
      <3>2. Rests("cleanup")'
        BY <2>2, <3>1, ApartKeeps, WorkApart DEF OthersAlone
      <3>3. Constructs'
        BY <2>2, <3>1 DEF Constructs, LifecycleAlone
      <3>4. \A c \in Invocations : calls'[c].at = "new"
        BY <2>1, <3>1 DEF InOrder
      <3> QED BY <2>1, <3>2, <3>3, <3>4 DEF InOrder, Soundly
    <2>3. CASE w = "cleanup"
      <3>1. Serves /\ Stops /\ lifecycle = "cleanup" /\ loopback = {} /\ Rests("construct")
            /\ life = "cleanup"
        BY <2>3, WorksWhere DEF Serves
      <3>2. Rests("construct")'
        BY <2>3, <3>1, ApartKeeps, WorkApart DEF OthersAlone
      <3>3. Stops'
        BY <2>3, <3>1 DEF Stops, LifecycleAlone
      <3>4. Serves'
        BY <3>1, <3>2, <3>3 DEF Serves, LifecycleAlone
      <3>5. ~Starts' /\ ~Constructs'
        BY <3>1 DEF Starts, Constructs, LifecycleAlone
      <3> QED BY <2>1, <3>4, <3>5 DEF InOrder, Soundly
    <2> QED BY <1>2, <2>2, <2>3, WorkApart
  <1> QED BY <1>1, <1>2, WorkApart

\* What the next frame of each pipe, and of each channel, may be about work that works.
LEMMA WorksHeads ==
  ASSUME SessionTypeOK, NEW w \in Work, Works(w)
  PROVE  /\ toGuest # <<>> /\ Head(toGuest).of = w =>
              /\ Head(toGuest).kind = "outboundresult" /\ NoneOf(Tail(toGuest), w)
              /\ thread[w] = "calling" /\ ~HostKnows(w)
         /\ toHost # <<>> /\ Head(toHost).of = w =>
              /\ Head(toHost).kind = "outbound" /\ NoneOf(Tail(toHost), w) /\ NoneOf(toGuest, w)
              /\ thread[w] = "calling" /\ w \notin importing /\ NoneOf(channel[w], w)
         /\ channel[w] # <<>> /\ Head(channel[w]).of = w =>
              /\ Head(channel[w]).kind = "outbound" /\ NoneOf(Tail(channel[w]), w)
              /\ thread[w] = "calling" /\ w \notin importing /\ NoneOf(toHost, w)
              /\ NoneOf(toGuest, w)
  <1>0. toGuest \in Seq(HostFrames) /\ toHost \in Seq(GuestFrames) /\ channel[w] \in Seq(GuestFrames)
    BY SessionReads DEF SessionTypeOK
  <1>1. ASSUME toGuest # <<>>, Head(toGuest).of = w
        PROVE  /\ Head(toGuest).kind = "outboundresult" /\ NoneOf(Tail(toGuest), w)
               /\ thread[w] = "calling" /\ ~HostKnows(w)
    <2>1. ~NoneOf(toGuest, w)
      BY <1>0, <1>1, TailOwn
    <2>2. thread[w] = "calling" /\ OnlyOf(toGuest, w, "outboundresult") /\ ~HostKnows(w)
      BY <2>1 DEF Works, CallsOut, Nowhere
    <2> QED BY <1>0, <1>1, <2>2, TailOwn
  <1>2. ASSUME toHost # <<>>, Head(toHost).of = w
        PROVE  /\ Head(toHost).kind = "outbound" /\ NoneOf(Tail(toHost), w) /\ NoneOf(toGuest, w)
               /\ thread[w] = "calling" /\ w \notin importing /\ NoneOf(channel[w], w)
    <2>1. ~NoneOf(toHost, w)
      BY <1>0, <1>2, TailOwn
    <2>2. /\ thread[w] = "calling" /\ OnlyOf(toHost, w, "outbound") /\ w \notin importing
          /\ NoneOf(channel[w], w) /\ NoneOf(toGuest, w)
      BY <2>1 DEF Works, CallsOut, Nowhere, HostKnows
    <2> QED BY <1>0, <1>2, <2>2, TailOwn
  <1>3. ASSUME channel[w] # <<>>, Head(channel[w]).of = w
        PROVE  /\ Head(channel[w]).kind = "outbound" /\ NoneOf(Tail(channel[w]), w)
               /\ thread[w] = "calling" /\ w \notin importing /\ NoneOf(toHost, w)
               /\ NoneOf(toGuest, w)
    <2>1. ~NoneOf(channel[w], w)
      BY <1>0, <1>3, TailOwn
    <2>2. /\ thread[w] = "calling" /\ OnlyOf(channel[w], w, "outbound") /\ w \notin importing
          /\ NoneOf(toHost, w) /\ NoneOf(toGuest, w)
      BY <2>1 DEF Works, CallsOut, Nowhere, HostKnows
    <2> QED BY <1>0, <1>3, <2>2, TailOwn
  <1> QED BY <1>1, <1>2, <1>3

\* What the guest reads next, in a session in order.
LEMMA GuestReads ==
  ASSUME SessionTypeOK, InOrder, ~Starts, toGuest # <<>>, NEW w, w = Head(toGuest).of
  PROVE  /\ w \in Work /\ ~NoneOf(toGuest, w)
         /\ \/ Head(toGuest).kind = "outboundresult" /\ Works(w)
            \/ /\ Head(toGuest).kind = "invoke" /\ w \in Invocations /\ calls[w].at = "waiting"
               /\ Asked(w, "invoke")
            \/ /\ Head(toGuest).kind = "construct" /\ w = "construct" /\ Constructs
               /\ Asked(w, "construct")
            \/ /\ Head(toGuest).kind = "stop" /\ w = "cleanup" /\ Serves /\ Stops
               /\ Asked(w, "stop")
  <1>1. w \in Work /\ toGuest \in Seq(HostFrames) /\ ~NoneOf(toGuest, w)
    BY SessionReads, SessionFrames, TailOwn DEF SessionTypeOK
  <1>2. ASSUME NEW kind, Asked(w, kind) PROVE Head(toGuest).kind = kind
    BY <1>1, <1>2, TailOwn DEF Asked
  <1>3. ~Rests(w) /\ (Works(w) => Head(toGuest).kind = "outboundresult")
    BY <1>1, WorksHeads DEF Rests, Nowhere
  <1>4. CASE w \in Invocations
    <2>1. ~Ending(w) /\ ~Settled(w)
      BY <1>1 DEF Ending, Settled
    <2> QED BY <1>1, <1>2, <1>3, <1>4, <2>1, WorkInOrder
  <1>5. CASE w = "construct"
    <2>1. Constructs
      BY <1>3, <1>5, WorkInOrder
    <2>2. Asked(w, "construct") \/ Works(w)
      BY <1>1, <1>3, <1>5, <2>1 DEF Constructs
    <2> QED BY <1>1, <1>2, <1>3, <1>5, <2>1, <2>2
  <1>6. CASE w = "cleanup"
    <2>1. Serves
      BY <1>3, <1>6, WorkInOrder
    <2>2. Stops /\ (Asked(w, "stop") \/ Works(w))
      BY <1>1, <1>3, <1>6, <2>1 DEF Serves, Stops
    <2> QED BY <1>1, <1>2, <1>3, <1>6, <2>1, <2>2
  <1> QED BY <1>1, <1>4, <1>5, <1>6, WorkApart

\* What the reader reads next.
LEMMA HostReads ==
  ASSUME SessionTypeOK, InOrder, ~Starts, toHost # <<>>, NEW w, w = Head(toHost).of
  PROVE  /\ w \in Work /\ ~NoneOf(toHost, w)
         /\ \/ Head(toHost).kind = "outbound" /\ Works(w)
            \/ /\ Head(toHost).kind \in {"result", "settlement"} /\ w \in Invocations
               /\ calls[w].at = "waiting" /\ (Ending(w) \/ Settled(w))
            \/ /\ Head(toHost).kind = "constructed" /\ w = "construct" /\ Constructs
               /\ OnlyOf(toHost, w, "constructed") /\ ~Works(w)
  <1>1. w \in Work /\ toHost \in Seq(GuestFrames) /\ ~NoneOf(toHost, w)
    BY SessionReads, SessionFrames, TailOwn DEF SessionTypeOK
  <1>2. ASSUME NEW kind, OnlyOf(toHost, w, kind) PROVE Head(toHost).kind = kind
    BY <1>1, <1>2, TailOwn
  <1>3. /\ ~Rests(w) /\ ~Asked(w, "invoke") /\ ~Asked(w, "stop") /\ ~Asked(w, "construct")
        /\ Works(w) => Head(toHost).kind = "outbound"
    BY <1>1, WorksHeads DEF Rests, Nowhere, Asked, HostKnows
  <1>4. CASE w \in Invocations
    <2>1. Ending(w) \/ Settled(w) => Head(toHost).kind \in {"result", "settlement"}
      BY <1>1, TailOwn DEF Ending, Settled
    <2> QED BY <1>1, <1>3, <1>4, <2>1, WorkInOrder
  <1>5. CASE w = "construct"
    <2>1. Constructs
      BY <1>3, <1>5, WorkInOrder
    <2>2. OnlyOf(toHost, w, "constructed") \/ Works(w)
      BY <1>1, <1>3, <1>5, <2>1 DEF Constructs
    <2> QED BY <1>1, <1>2, <1>3, <1>5, <2>1, <2>2
  <1>6. CASE w = "cleanup"
    <2>1. Serves
      BY <1>3, <1>6, WorkInOrder
    <2>2. Works(w)
      BY <1>1, <1>3, <1>6, <2>1 DEF Serves, Stops
    <2> QED BY <1>1, <1>3, <1>6, <2>1, <2>2
  <1> QED BY <1>1, <1>4, <1>5, <1>6, WorkApart

\* What a task takes next from its channel.
LEMMA TaskTakes ==
  ASSUME SessionTypeOK, InOrder, NEW w \in Work, channel[w] # <<>>
  PROVE  /\ Head(channel[w]).of = w /\ Head(channel[w]).mark # Invalid /\ ~NoneOf(channel[w], w)
         /\ \/ Head(channel[w]).kind = "outbound" /\ Works(w)
            \/ /\ Head(channel[w]).kind \in {"result", "settlement"} /\ w \in Invocations
               /\ calls[w].at = "waiting" /\ (Ending(w) \/ Settled(w))
  <1>1. /\ channel[w] \in Seq(GuestFrames) /\ Head(channel[w]).of = w
        /\ Head(channel[w]).mark # Invalid
    BY SessionReads, FramesSound DEF InOrder, Undisturbed
  <1>2. ~NoneOf(channel[w], w)
    BY <1>1, TailOwn
  <1>3. /\ ~Rests(w) /\ ~Asked(w, "invoke") /\ ~Asked(w, "stop") /\ ~Asked(w, "construct")
        /\ Works(w) => Head(channel[w]).kind = "outbound"
    BY <1>1, <1>2, WorksHeads DEF Rests, Nowhere, Asked, HostKnows
  <1>4. CASE w \in Invocations
    <2>1. Ending(w) \/ Settled(w) => Head(channel[w]).kind \in {"result", "settlement"}
      BY <1>1, <1>2, TailOwn DEF Ending, Settled
    <2> QED BY <1>1, <1>2, <1>3, <1>4, <2>1, WorkInOrder
  <1>5. ~Starts
    BY DEF Starts
  <1>6. CASE w = "construct"
    <2>1. Constructs
      BY <1>3, <1>5, <1>6, WorkInOrder
    <2> QED BY <1>1, <1>2, <1>3, <1>6, <2>1 DEF Constructs
  <1>7. CASE w = "cleanup"
    <2>1. Serves
      BY <1>3, <1>5, <1>7, WorkInOrder
    <2> QED BY <1>1, <1>2, <1>3, <1>7, <2>1 DEF Serves, Stops
  <1> QED BY <1>4, <1>6, <1>7, WorkApart

\* A pipe stays, or a frame about w comes or goes.
PipeMoves(s, t, w, Alphabet) ==
  \/ t = s \/ (s # <<>> /\ Head(s).of = w /\ t = Tail(s))
  \/ \E f \in Alphabet : f.of = w /\ t = Append(s, f)

\* It keeps what is said of other work.
LEMMA PipeMovesKeep ==
  ASSUME NEW Alphabet, NEW s \in Seq(Alphabet), NEW t, NEW w, NEW v, v # w,
         PipeMoves(s, t, w, Alphabet)
  PROVE  KeepsOf(s, t, v)
  <1>1. CASE t = s
    BY <1>1, PipeKeeps
  <1>2. CASE s # <<>> /\ Head(s).of = w /\ t = Tail(s)
    BY <1>2, PipeKeeps
  <1>3. ASSUME NEW f \in Alphabet, f.of = w, t = Append(s, f) PROVE KeepsOf(s, t, v)
    BY <1>3, PipeKeeps
  <1> QED BY <1>1, <1>2, <1>3 DEF PipeMoves

\* A step that moves frames about w, and touches the state of w alone, leaves the others alone.
LEMMA AloneWhen ==
  ASSUME SessionTypeOK, NEW w \in Work,
         PipeMoves(toGuest, toGuest', w, HostFrames), PipeMoves(toHost, toHost', w, GuestFrames),
         \A v \in Work : v # w =>
           /\ channel'[v] = channel[v] /\ thread'[v] = thread[v]
           /\ (v \in importing <=> v \in importing') /\ (v \in pending <=> v \in pending'),
         \A v \in Invocations : v # w =>
           /\ calls'[v].at = calls[v].at /\ (v \in active <=> v \in active')
           /\ v \in retired <=> v \in retired'
  PROVE  OthersAlone(w)
  <1> SUFFICES ASSUME NEW v \in Work, v # w PROVE Apart(v)
    BY DEF OthersAlone
  <1>1. toGuest \in Seq(HostFrames) /\ toHost \in Seq(GuestFrames)
    BY DEF SessionTypeOK
  <1>2. KeepsOf(toGuest, toGuest', v)
    BY <1>1, PipeMovesKeep
  <1>3. KeepsOf(toHost, toHost', v)
    BY <1>1, PipeMovesKeep
  <1> QED BY <1>2, <1>3 DEF Apart

\* The frames stay sound.
LEMMA StaysSound ==
  ASSUME SessionTypeOK, InOrder, NEW w \in Work,
         UNCHANGED <<isFailed, isStopped, readerAt, timers, flagged>>,
         \/ toHost' = toHost \/ (toHost # <<>> /\ toHost' = Tail(toHost))
         \/ \E f \in GuestFrames : f.mark # Invalid /\ toHost' = Append(toHost, f),
         \A v \in Work : v # w => channel'[v] = channel[v],
         \/ channel'[w] = channel[w] \/ (channel[w] # <<>> /\ channel'[w] = Tail(channel[w]))
         \/ channel'[w] = <<>>
         \/ \E f \in GuestFrames : /\ f.mark # Invalid /\ f.of = w
                                   /\ channel'[w] = Append(channel[w], f)
  PROVE  Soundly
  <1>1. toHost \in Seq(GuestFrames) /\ channel[w] \in Seq(GuestFrames)
    BY SessionReads DEF SessionTypeOK
  <1>2. Valid(toHost')
    <2>1. CASE toHost' = toHost
      BY <2>1 DEF InOrder, Undisturbed
    <2>2. CASE toHost # <<>> /\ toHost' = Tail(toHost)
      BY <1>1, <2>2, FramesSound DEF InOrder, Undisturbed
    <2>3. CASE \E f \in GuestFrames : f.mark # Invalid /\ toHost' = Append(toHost, f)
      BY <1>1, <2>3, FramesSound DEF InOrder, Undisturbed
    <2> QED BY <2>1, <2>2, <2>3
  <1>3. Valid(channel[w]) /\ About(channel[w], w)
    BY DEF InOrder, Undisturbed
  <1>4. Valid(channel'[w]) /\ About(channel'[w], w)
    <2>1. CASE channel'[w] = channel[w] \/ channel'[w] = <<>>
      BY <1>3, <2>1, FramesSound
    <2>2. CASE channel[w] # <<>> /\ channel'[w] = Tail(channel[w])
      BY <1>1, <1>3, <2>2, FramesSound
    <2>3. CASE \E f \in GuestFrames : /\ f.mark # Invalid /\ f.of = w
                                      /\ channel'[w] = Append(channel[w], f)
      BY <1>1, <1>3, <2>3, FramesSound
    <2> QED BY <2>1, <2>2, <2>3
  <1>5. \A v \in Work : Valid(channel'[v]) /\ About(channel'[v], v)
    BY <1>4 DEF InOrder, Undisturbed
  <1> QED BY <1>2, <1>5 DEF InOrder, Undisturbed, Soundly

\* A thread that calls out leaves a frame about its call.
LEMMA CallOutInOrder ==
  ASSUME SessionTypeOK, InOrder, UNCHANGED session, NEW w \in Work, CallOut(w) PROVE InOrder'
  <1>1. Works(w) /\ Nowhere(w)
    BY ThreadWorks DEF CallOut, Works, CallsOut
  <1>2. /\ Message("outbound", w, "call") \in GuestFrames
        /\ Message("outbound", w, "call").of = w /\ Message("outbound", w, "call").kind = "outbound"
        /\ Message("outbound", w, "call").mark # Invalid
    BY SessionWritten, MessageFields DEF Marks, Invalid
  <1>3. /\ toHost' = Append(toHost, Message("outbound", w, "call"))
        /\ thread' = [thread EXCEPT ![w] = "calling"]
        /\ UNCHANGED <<process, toGuest, main, attempted, object, lifecycle, active, flagged,
                       retired, loopback>>
    BY DEF CallOut, Writes
  <1>4. OnlyOf(toHost', w, "outbound")
    <2>1. NoneOf(toHost, w) /\ toHost \in Seq(GuestFrames)
      BY <1>1 DEF SessionTypeOK, Nowhere, HostKnows
    <2> QED BY <1>2, <1>3, <2>1, AppendOwn
  <1>5. Works(w)'
    BY <1>1, <1>3, <1>4 DEF Works, CallsOut, Nowhere, HostKnows, session, SessionTypeOK
  <1>6. OthersAlone(w)
    BY <1>2, <1>3, AloneWhen DEF PipeMoves, session, SessionTypeOK
  <1>7. Soundly
    BY <1>2, <1>3, StaysSound DEF session
  <1> QED BY <1>1, <1>3, <1>5, <1>6, <1>7, WorksInOrder DEF LifecycleAlone, session

\* The reader hands a call to the Host, a result or a settlement to its invocation.
LEMMA EventInOrder ==
  ASSUME SessionTypeOK, InOrder, UNCHANGED guest, ReadEvent PROVE InOrder'
  <1>0. PICK w : w = Head(toHost).of
    OBVIOUS
  <1>1. /\ toHost # <<>> /\ toHost' = Tail(toHost) /\ Head(toHost) \in GuestFrames
        /\ channel' = [channel EXCEPT ![w] = Append(@, Head(toHost))]
        /\ Head(toHost).kind \in {"result", "outbound", "cancelack", "settlement"}
        /\ UNCHANGED <<process, toGuest, pending, slots, reply, isFailed, isStopped, stopStarted,
                       readerAt, monitor, life, calls, importing, timers, mishaps>>
    BY <1>0, SessionReads DEF ReadEvent
  <1>2. ~Starts
    BY <1>1, MessageFields DEF Starts
  <1>3. w \in Work /\ channel \in [Work -> Seq(GuestFrames)] /\ toHost \in Seq(GuestFrames)
        /\ Head(toHost).mark # Invalid
    BY <1>0, <1>1, SessionFrames, FramesSound DEF SessionTypeOK, InOrder, Undisturbed
  <1>4. /\ channel'[w] = Append(channel[w], Head(toHost)) /\ channel[w] \in Seq(GuestFrames)
        /\ \A v \in Work : v # w => channel'[v] = channel[v]
    BY <1>1, <1>3
  <1>5. OthersAlone(w)
    BY <1>0, <1>1, <1>3, <1>4, AloneWhen DEF PipeMoves, guest
  <1>6. Soundly
    BY <1>0, <1>1, <1>3, <1>4, StaysSound DEF guest
  <1>7. LifecycleAlone
    BY <1>1 DEF LifecycleAlone, guest
  <1>8. CASE Head(toHost).kind = "outbound" /\ Works(w)
    <2>1. /\ NoneOf(toHost', w) /\ NoneOf(toGuest, w) /\ thread[w] = "calling"
          /\ w \notin importing /\ NoneOf(channel[w], w)
      BY <1>0, <1>1, <1>3, <1>8, WorksHeads
    <2>2. OnlyOf(channel'[w], w, "outbound")
      BY <1>0, <1>1, <1>4, <1>8, <2>1, AppendOwn
    <2>3. Works(w)'
      BY <1>1, <2>1, <2>2 DEF Works, CallsOut, guest
    <2> QED BY <1>1, <1>3, <1>5, <1>6, <1>7, <1>8, <2>3, WorksInOrder DEF guest
  <1>9. CASE /\ Head(toHost).kind \in {"result", "settlement"} /\ w \in Invocations
             /\ calls[w].at = "waiting" /\ (Ending(w) \/ Settled(w))
    <2>0. ~NoneOf(toHost, w)
      BY <1>0, <1>1, <1>3, TailOwn
    <2>1. Ending(w) => Ending(w)'
      <3>1. ASSUME Ending(w) PROVE ResultsOf(toHost', w) /\ ResultsOf(channel'[w], w)
        <4>1. ResultsOf(toHost, w) /\ ResultsOf(channel[w], w)
          BY <3>1 DEF Ending
        <4>2. Head(toHost).kind = "result" /\ ResultsOf(toHost', w)
          BY <1>0, <1>1, <1>3, <4>1, TailOwn
        <4> QED BY <1>0, <1>1, <1>4, <4>1, <4>2, AppendOwn
      <3> QED BY <1>1, <3>1 DEF Ending, guest
    <2>2. Settled(w) => Settled(w)'
      <3>1. ASSUME Settled(w)
            PROVE  \/ NoneOf(toHost', w) /\ SettlesOf(channel'[w], w)
                   \/ SettlesOf(toHost', w) /\ ResultsOf(channel'[w], w)
        <4>1. SettlesOf(toHost, w) /\ ResultsOf(channel[w], w)
          BY <2>0, <3>1 DEF Settled
        <4>2. \/ Head(toHost).kind = "settlement" /\ NoneOf(toHost', w)
              \/ Head(toHost).kind = "result" /\ SettlesOf(toHost', w)
          BY <1>0, <1>1, <1>3, <4>1, TailOwn
        <4> QED BY <1>0, <1>1, <1>4, <4>1, <4>2, AppendOwn
      <3> QED BY <1>1, <3>1 DEF Settled, guest
    <2>3. Served(w)'
      <3>1. w \in pending' /\ Listening(w)'
        BY <1>1, <1>9, WorkApart DEF InOrder, Served, Listening
      <3> QED BY <1>1, <1>9, <2>1, <2>2, <3>1 DEF Served
    <2>4. Serves
      BY <1>9, WorkInOrder
    <2> QED BY <1>5, <1>6, <1>7, <1>9, <2>3, <2>4, CallInOrder
  <1> QED BY <1>0, <1>1, <1>2, <1>8, <1>9, HostReads

\* A step in which nothing goes wrong is none of the mishaps.
LEMMA NoMishap ==
  ASSUME SessionTypeOK, mishaps' = 0, NEW fault PROVE ~Mishap(fault)
  BY DEF SessionTypeOK, Mishap

\* The Host takes a call of the child, for an invocation or for a lifecycle step.
LEMMA TakeOutboundInOrder ==
  ASSUME SessionTypeOK, InOrder, UNCHANGED guest, NEW w \in Work,
         channel[w] # <<>>, Head(channel[w]).kind = "outbound",
         channel' = [channel EXCEPT ![w] = Tail(@)], importing' = importing \union {w},
         UNCHANGED <<process, toGuest, toHost, pending, slots, reply, isFailed, isStopped,
                     stopStarted, readerAt, life, calls, timers>>
  PROVE  InOrder'
  <1>1. Works(w) /\ Head(channel[w]).of = w
    BY TaskTakes
  <1>2. /\ NoneOf(Tail(channel[w]), w) /\ thread[w] = "calling" /\ NoneOf(toHost, w)
        /\ NoneOf(toGuest, w)
    BY <1>1, WorksHeads
  <1>3. channel'[w] = Tail(channel[w]) /\ \A v \in Work : v # w => channel'[v] = channel[v]
    BY DEF SessionTypeOK
  <1>4. Works(w)'
    BY <1>2, <1>3 DEF Works, CallsOut, guest
  <1>5. OthersAlone(w)
    BY <1>3, AloneWhen DEF PipeMoves, guest
  <1>6. Soundly
    BY <1>3, StaysSound DEF guest
  <1> QED BY <1>1, <1>4, <1>5, <1>6, WorksInOrder DEF LifecycleAlone, guest

\* The answer of the dependency is sent to the child ...
LEMMA FinishImportInOrder ==
  ASSUME SessionTypeOK, Running, InOrder, UNCHANGED guest, mishaps' = 0, NEW w \in Work,
         FinishImport(w)
  PROVE  InOrder'
  <1>1. Works(w)
    <2>1. ~Rests(w) /\ \A kind : ~Asked(w, kind)
      BY DEF FinishImport, Rests, Asked, Nowhere, HostKnows
    <2>2. CASE w \in Invocations
      <3>1. ~Ending(w) /\ ~Settled(w)
        BY DEF FinishImport, Ending, Settled
      <3> QED BY <2>1, <2>2, <3>1, WorkInOrder
    <2>3. ~Starts
      BY DEF FinishImport, Starts
    <2>4. CASE w = "construct"
      <3>1. Constructs
        BY <2>1, <2>3, <2>4, WorkInOrder
      <3> QED BY <2>1, <2>4, <3>1 DEF Constructs, FinishImport
    <2>5. CASE w = "cleanup"
      <3>1. Serves
        BY <2>1, <2>3, <2>5, WorkInOrder
      <3> QED BY <2>1, <2>5, <3>1 DEF Serves, Stops, FinishImport
    <2> QED BY <2>2, <2>4, <2>5, WorkApart
  <1>2. /\ thread[w] = "calling" /\ NoneOf(toGuest, w) /\ NoneOf(toHost, w)
        /\ NoneOf(channel[w], w)
    BY <1>1 DEF FinishImport, Works, CallsOut, Nowhere, HostKnows
  <1>3. CanSend
    BY DEF CanSend, InOrder, Running
  <1>4. /\ Send(Message("outboundresult", w, "outcome")) /\ importing' = importing \ {w}
        /\ UNCHANGED <<process, toHost, slots, reply, stopStarted, readerAt, isFailed,
                       isStopped, timers, calls, channel, life, pending>>
    BY <1>3, NoMishap DEF FinishImport
  <1>5. /\ Message("outboundresult", w, "outcome") \in HostFrames
        /\ Message("outboundresult", w, "outcome").of = w
        /\ Message("outboundresult", w, "outcome").kind = "outboundresult"
    BY SessionWritten, MessageFields
  <1>6. OnlyOf(toGuest', w, "outboundresult")
    <2>1. toGuest \in Seq(HostFrames)
      BY DEF SessionTypeOK
    <2> QED BY <1>2, <1>4, <1>5, <2>1, AppendOwn DEF Send
  <1>7. Works(w)'
    BY <1>2, <1>4, <1>6 DEF Works, CallsOut, HostKnows, guest
  <1>8. OthersAlone(w)
    BY <1>4, <1>5, AloneWhen DEF PipeMoves, Send, guest
  <1>9. Soundly
    BY <1>4, StaysSound DEF guest
  <1> QED BY <1>1, <1>4, <1>7, <1>8, <1>9, WorksInOrder DEF LifecycleAlone, guest

\* ... and wakes the thread that waits for it.
LEMMA OutboundResultInOrder ==
  ASSUME SessionTypeOK, InOrder, UNCHANGED session, OutboundResult
  PROVE  InOrder' /\ process' = process
  <1>0. PICK w : w = Head(toGuest).of
    OBVIOUS
  <1>1. toGuest # <<>> /\ Head(toGuest).kind = "outboundresult" /\ toGuest' = Tail(toGuest)
    BY DEF OutboundResult, Receives, Taken
  <1>2. ~Starts
    BY <1>1, MessageFields DEF Starts, OutboundResult, Receives, Loop
  <1>3. w \in Work /\ Works(w)
    BY <1>0, <1>1, <1>2, GuestReads
  <1>4. thread[w] = "calling" /\ NoneOf(toGuest', w) /\ ~HostKnows(w)
    BY <1>0, <1>1, <1>3, WorksHeads
  <1>5. /\ thread' = [thread EXCEPT ![w] = "running"]
        /\ UNCHANGED <<process, toHost, main, attempted, object, lifecycle, active, flagged,
                       retired, loopback, outbounds>>
    BY <1>0, <1>4 DEF OutboundResult
  <1>6. Works(w)'
    BY <1>3, <1>4, <1>5 DEF Works, Nowhere, HostKnows, session, SessionTypeOK
  <1>7. OthersAlone(w)
    BY <1>0, <1>1, <1>3, <1>5, AloneWhen DEF PipeMoves, session, SessionTypeOK
  <1>8. Soundly
    BY <1>3, <1>5, StaysSound DEF session
  <1> QED BY <1>3, <1>5, <1>6, <1>7, <1>8, WorksInOrder DEF LifecycleAlone, session

\* An invocation enters the table, unless that is full.
LEMMA BeginInOrder ==
  ASSUME SessionTypeOK, InOrder, UNCHANGED guest, NEW c \in Invocations, BeginInvocation(c)
  PROVE  InOrder'
  <1>1. /\ life = "active" /\ calls[c].at = "new"
        /\ \/ calls' = Ends(c) /\ pending' = pending
           \/ calls' = [calls EXCEPT ![c].at = "sending"] /\ pending' = pending \union {c}
        /\ UNCHANGED <<process, toGuest, toHost, slots, reply, stopStarted, readerAt, monitor, life,
                       channel, isFailed, isStopped, importing, timers>>
    BY DEF BeginInvocation, wire, HostOnly
  <1>2. Serves /\ Rests(c) /\ c \notin active \union retired /\ c \notin pending
    BY <1>1, WorkApart DEF InOrder, Starts, Constructs, Served, Listening
  <1>3. calls'[c].at = "done" \/ calls'[c].at = "sending"
    BY <1>1, OneCall
  <1>4. \A d \in Invocations : d # c => calls'[d] = calls[d]
    BY <1>1, OneCall
  <1>5. Rests(c)'
    BY <1>1, <1>2 DEF Rests, Nowhere, HostKnows, guest
  <1>6. c \in pending' <=> Listening(c)'
    BY <1>1, <1>2, OneCall, WorkApart DEF Listening
  <1>7. Served(c)'
    BY <1>2, <1>3, <1>5, <1>6 DEF Served, guest
  <1>8. OthersAlone(c)
    BY <1>1, <1>4, AloneWhen, WorkApart DEF PipeMoves, guest
  <1>9. Soundly
    BY <1>1, StaysSound, WorkApart DEF guest
  <1> QED BY <1>1, <1>2, <1>7, <1>8, <1>9, CallInOrder DEF LifecycleAlone, guest

\* Its frame is written ...
LEMMA SendInOrder ==
  ASSUME SessionTypeOK, Running, InOrder, UNCHANGED guest, mishaps' = 0, NEW c \in Invocations,
         SendInvocation(c)
  PROVE  InOrder'
  <1>1. CanSend
    BY DEF CanSend, InOrder, Running
  <1>2. /\ calls[c].at = "sending" /\ calls' = [calls EXCEPT ![c].at = "waiting"]
        /\ toGuest' = Append(toGuest, Message("invoke", c, "ok"))
        /\ UNCHANGED <<process, toHost, slots, reply, stopStarted, readerAt, monitor, life, pending,
                       channel, isFailed, isStopped, importing, timers>>
    BY <1>1, NoMishap DEF SendInvocation, HostOnly, Send
  <1>3. Serves /\ Rests(c) /\ c \notin active \union retired /\ c \in pending
    BY <1>2, WorkApart DEF InOrder, Served, Listening
  <1>4. calls'[c].at = "waiting" /\ \A d \in Invocations : d # c => calls'[d] = calls[d]
    BY <1>2, OneCall
  <1>5. /\ Message("invoke", c, "ok") \in HostFrames /\ Message("invoke", c, "ok").of = c
        /\ Message("invoke", c, "ok").kind = "invoke" /\ toGuest \in Seq(HostFrames)
    BY SessionWritten, MessageFields DEF SessionTypeOK
  <1>6. OnlyOf(toGuest', c, "invoke")
    BY <1>2, <1>3, <1>5, AppendOwn DEF Rests, Nowhere
  <1>7. Asked(c, "invoke")'
    BY <1>2, <1>3, <1>6 DEF Asked, Rests, Nowhere, HostKnows, guest
  <1>8. Served(c)'
    BY <1>2, <1>3, <1>4, <1>7, WorkApart DEF Served, Listening, guest
  <1>9. OthersAlone(c)
    BY <1>2, <1>4, <1>5, AloneWhen, WorkApart DEF PipeMoves, guest
  <1>10. Soundly
    BY <1>2, StaysSound, WorkApart DEF guest
  <1> QED BY <1>2, <1>3, <1>8, <1>9, <1>10, CallInOrder DEF LifecycleAlone, guest

\* ... its result is kept ...
LEMMA TakeResultInOrder ==
  ASSUME SessionTypeOK, InOrder, UNCHANGED guest, NEW c \in Invocations, TakeResult(c)
  PROVE  InOrder'
  <1>1. /\ c \in Work /\ calls[c].at = "waiting" /\ channel[c] # <<>>
        /\ Head(channel[c]).kind = "result"
    BY WorkApart DEF TakeResult, Event
  <1>2. Head(channel[c]).of = c /\ Head(channel[c]).mark # Invalid /\ (Ending(c) \/ Settled(c))
    BY <1>1, TaskTakes
  <1>3. /\ calls' = [calls EXCEPT ![c].outcome = "outcome"]
        /\ channel' = [channel EXCEPT ![c] = Tail(@)]
        /\ UNCHANGED <<process, toGuest, toHost, slots, reply, stopStarted, readerAt, monitor, life,
                       pending, isFailed, isStopped, importing, timers>>
    BY <1>2 DEF TakeResult, wire, HostOnly, Popped
  <1>4. /\ calls'[c].at = "waiting" /\ \A d \in Invocations : d # c => calls'[d] = calls[d]
        /\ channel'[c] = Tail(channel[c]) /\ \A v \in Work : v # c => channel'[v] = channel[v]
        /\ channel[c] \in Seq(GuestFrames)
    BY <1>1, <1>3, OneCall DEF SessionTypeOK
  <1>5. Ending(c) => Ending(c)'
    <2>1. ResultsOf(channel[c], c) => ResultsOf(channel'[c], c)
      BY <1>1, <1>2, <1>4, TailOwn
    <2> QED BY <1>3, <2>1 DEF Ending, guest
  <1>6. Settled(c) => Settled(c)'
    <2>1. ResultsOf(channel[c], c) => ResultsOf(channel'[c], c)
      BY <1>1, <1>2, <1>4, TailOwn
    <2>2. SettlesOf(channel[c], c) => SettlesOf(channel'[c], c)
      BY <1>1, <1>2, <1>4, TailOwn
    <2> QED BY <1>3, <2>1, <2>2 DEF Settled, guest
  <1>7. Served(c)'
    BY <1>1, <1>2, <1>3, <1>4, <1>5, <1>6, WorkApart DEF InOrder, Served, Listening
  <1>8. OthersAlone(c)
    BY <1>1, <1>3, <1>4, AloneWhen DEF PipeMoves, guest
  <1>9. Soundly
    BY <1>1, <1>3, <1>4, StaysSound DEF guest
  <1>10. Serves
    BY <1>1, WorkInOrder
  <1> QED BY <1>3, <1>7, <1>8, <1>9, <1>10, CallInOrder DEF LifecycleAlone, guest

\* ... and its settlement ends it.
LEMMA TakeSettlementInOrder ==
  ASSUME SessionTypeOK, InOrder, UNCHANGED guest, NEW c \in Invocations, TakeSettlement(c)
  PROVE  InOrder'
  <1>1. /\ c \in Work /\ calls[c].at = "waiting" /\ channel[c] # <<>>
        /\ Head(channel[c]).kind = "settlement"
    BY WorkApart DEF TakeSettlement, Event
  <1>2. Head(channel[c]).of = c /\ Head(channel[c]).mark # Invalid /\ (Ending(c) \/ Settled(c))
    BY <1>1, TaskTakes
  <1>3. /\ calls' = Ends(c) /\ channel' = [channel EXCEPT ![c] = <<>>] /\ pending' = pending \ {c}
        /\ UNCHANGED <<process, toGuest, toHost, slots, reply, stopStarted, readerAt, monitor, life,
                       isFailed, isStopped, importing, timers>>
    BY <1>2 DEF TakeSettlement, ReturnsEarly, Dropped, Withdrawn, wire, HostOnly
  <1>4. /\ calls'[c].at = "done" /\ \A d \in Invocations : d # c => calls'[d] = calls[d]
        /\ channel'[c] = <<>> /\ \A v \in Work : v # c => channel'[v] = channel[v]
        /\ channel[c] \in Seq(GuestFrames)
    BY <1>1, <1>3, OneCall DEF SessionTypeOK
  <1>5. ~ResultsOf(channel[c], c)
    BY <1>1, <1>2, <1>4, TailOwn
  <1>6. /\ thread[c] = "none" /\ c \notin active /\ NoneOf(toGuest, c) /\ c \notin importing
        /\ NoneOf(toHost, c)
    BY <1>2, <1>5 DEF Ending, Settled
  <1>7. Rests(c)'
    BY <1>3, <1>4, <1>6, FramesApart DEF Rests, Nowhere, HostKnows, guest
  <1>8. Served(c)'
    BY <1>3, <1>4, <1>6, <1>7, WorkApart DEF Served, Listening, guest
  <1>9. OthersAlone(c)
    BY <1>1, <1>3, <1>4, AloneWhen DEF PipeMoves, guest
  <1>10. Soundly
    BY <1>1, <1>3, <1>4, StaysSound DEF guest
  <1>11. Serves
    BY <1>1, WorkInOrder
  <1> QED BY <1>3, <1>8, <1>9, <1>10, <1>11, CallInOrder DEF LifecycleAlone, guest

\* The guest writes the result of an invocation, or it is too long ...
LEMMA WriteResultInOrder ==
  ASSUME SessionTypeOK, InOrder, UNCHANGED session, NEW c \in Invocations, WriteResult(c)
  PROVE  InOrder'
  <1>1. c \in Work /\ Works(c) /\ Nowhere(c)
    BY WorkApart, ThreadWorks DEF WriteResult, Works, CallsOut
  <1>2. calls[c].at = "waiting" /\ c \in active \ retired /\ Serves
    BY <1>1, WorksWhere
  <1>3. /\ toHost' = Append(toHost, Message("result", c, "outcome")) \/ toHost' = toHost
        /\ thread' = [thread EXCEPT ![c] = "written"]
        /\ UNCHANGED <<process, toGuest, main, attempted, object, lifecycle, active, flagged,
                       retired, loopback>>
    BY DEF WriteResult, Writes
  <1>4. /\ Message("result", c, "outcome") \in GuestFrames
        /\ Message("result", c, "outcome").of = c /\ Message("result", c, "outcome").kind = "result"
        /\ Message("result", c, "outcome").mark # Invalid /\ toHost \in Seq(GuestFrames)
    BY <1>1, SessionWritten, MessageFields DEF Marks, Invalid, SessionTypeOK
  <1>5. ResultsOf(toHost', c) /\ ResultsOf(channel[c], c)
    <2>1. ResultsOf(toHost, c) /\ ResultsOf(channel[c], c)
      BY <1>1, FramesApart DEF Nowhere, HostKnows
    <2> QED BY <1>3, <1>4, <2>1, AppendOwn
  <1>6. Ending(c)'
    BY <1>1, <1>2, <1>3, <1>5 DEF Ending, Nowhere, HostKnows, session, SessionTypeOK
  <1>7. Served(c)'
    BY <1>2, <1>6, WorkApart DEF InOrder, Served, Listening, session
  <1>8. OthersAlone(c)
    BY <1>1, <1>3, <1>4, AloneWhen DEF PipeMoves, session, SessionTypeOK
  <1>9. Soundly
    BY <1>1, <1>3, <1>4, StaysSound DEF session
  <1> QED BY <1>2, <1>3, <1>7, <1>8, <1>9, CallInOrder DEF LifecycleAlone, session

\* ... retires its id ...
LEMMA RetireInOrder ==
  ASSUME SessionTypeOK, InOrder, UNCHANGED session, NEW c \in Invocations, RetireId(c)
  PROVE  InOrder'
  <1>1. c \in Work /\ calls[c].at = "waiting" /\ Ending(c) /\ Serves
    BY WorkApart, WorkInOrder DEF RetireId, Rests, Asked, Works, CallsOut, Settled
  <1>2. /\ active' = active \ {c} /\ retired' = retired \union {c}
        /\ thread' = [thread EXCEPT ![c] = "retired"]
        /\ UNCHANGED <<process, toGuest, toHost, main, attempted, object, lifecycle, flagged,
                       loopback, outbounds>>
    BY DEF RetireId
  <1>3. Ending(c)'
    BY <1>1, <1>2 DEF Ending, session, SessionTypeOK
  <1>4. Served(c)'
    BY <1>1, <1>3, WorkApart DEF InOrder, Served, Listening, session
  <1>5. OthersAlone(c)
    BY <1>1, <1>2, AloneWhen DEF PipeMoves, session, SessionTypeOK
  <1>6. Soundly
    BY <1>1, <1>2, StaysSound DEF session
  <1> QED BY <1>1, <1>2, <1>4, <1>5, <1>6, CallInOrder DEF LifecycleAlone, session

\* ... and settles it.
LEMMA SettleInOrder ==
  ASSUME SessionTypeOK, InOrder, UNCHANGED session, NEW c \in Invocations, Settle(c)
  PROVE  InOrder'
  <1>1. c \in Work /\ calls[c].at = "waiting" /\ Ending(c) /\ Serves /\ c \notin active
    BY WorkApart, WorkInOrder DEF Settle, Rests, Asked, Works, CallsOut, Settled, Ending
  <1>2. PICK state \in {SettledAs(c), "abandoned"} :
          toHost' = Append(toHost, Message("settlement", c, state))
    BY DEF Settle, Writes
  <1>3. /\ thread' = [thread EXCEPT ![c] = "none"]
        /\ UNCHANGED <<process, toGuest, main, attempted, object, lifecycle, active, flagged,
                       retired, loopback, outbounds>>
    BY DEF Settle
  <1>4. state \in Marks /\ state # Invalid
    BY <1>2 DEF SettledAs, Marks, Invalid
  <1>5. /\ Message("settlement", c, state) \in GuestFrames
        /\ Message("settlement", c, state).of = c
        /\ Message("settlement", c, state).kind = "settlement"
        /\ Message("settlement", c, state).mark # Invalid /\ toHost \in Seq(GuestFrames)
    BY <1>1, <1>4, SessionWritten, MessageFields DEF SessionTypeOK
  <1>6. SettlesOf(toHost', c) /\ ResultsOf(channel[c], c)
    BY <1>1, <1>2, <1>5, AppendOwn DEF Ending
  <1>7. Settled(c)'
    BY <1>1, <1>3, <1>6 DEF Ending, Settled, session, SessionTypeOK
  <1>8. Served(c)'
    BY <1>1, <1>7, WorkApart DEF InOrder, Served, Listening, session
  <1>9. OthersAlone(c)
    BY <1>1, <1>2, <1>3, <1>5, AloneWhen DEF PipeMoves, session, SessionTypeOK
  <1>10. Soundly
    BY <1>1, <1>2, <1>3, <1>5, StaysSound DEF session
  <1> QED BY <1>1, <1>3, <1>8, <1>9, <1>10, CallInOrder DEF LifecycleAlone, session

\* The guest takes an invocation on, refuses it, or ends the session for a reason.
LEMMA AcceptAgreed ==
  ASSUME SessionTypeOK, Running, InOrder, UNCHANGED session, Accept PROVE Agreed'
  <1>0. PICK c : c = Head(toGuest).of
    OBVIOUS
  <1>1. toGuest # <<>> /\ Head(toGuest).kind = "invoke" /\ toGuest' = Tail(toGuest)
    BY DEF Accept, Receives, Taken
  <1>2. ~Starts
    BY <1>1, MessageFields DEF Starts, Accept, Receives, Loop
  <1>3. c \in Invocations /\ c \in Work /\ calls[c].at = "waiting" /\ Asked(c, "invoke") /\ Serves
    BY <1>0, <1>1, <1>2, GuestReads, WorkInOrder
  <1>4. c \notin active \union retired /\ c \in pending
    <2>1. ~Works(c) /\ ~Ending(c) /\ ~Settled(c)
      BY <1>3, FramesApart DEF Asked, Works, CallsOut, Ending, Settled
    <2> QED BY <1>3, <2>1, WorkApart DEF InOrder, Served, Listening
  <1>5. /\ toGuest \in Seq(HostFrames) /\ NoneOf(toGuest', c) /\ thread[c] = "none" /\ ~HostKnows(c)
        /\ toHost \in Seq(GuestFrames)
    <2>1. OnlyOf(toGuest, c, "invoke") /\ toGuest \in Seq(HostFrames) /\ toHost \in Seq(GuestFrames)
          /\ thread[c] = "none" /\ ~HostKnows(c)
      BY <1>3 DEF Asked, SessionTypeOK
    <2> QED BY <1>0, <1>1, <2>1, TailOwn
  <1>6. CASE Misplaced(c)
    <2>1. Leaves
      BY <1>0, <1>6 DEF Accept
    <2>2. Cardinality(retired) >= MaxRetired \/ stopStarted
      BY <1>3, <1>4, <1>6 DEF Misplaced, Serves, Stops
    <2> QED BY <2>1, <2>2 DEF Leaves, guest, session, Agreed, Running
  <1>7. CASE ~Misplaced(c) /\ Cardinality(active) >= MaxActive
    <2> DEFINE f == Message("result", c, "refused")
               g == Message("settlement", c, "completed")
    <2>1. toHost' = toHost \o <<f, g>> /\ UNCHANGED <<process, guest>>
      BY <1>0, <1>7 DEF Accept
    <2>2. /\ f \in GuestFrames /\ f.of = c /\ f.kind = "result" /\ f.mark # Invalid
          /\ g \in GuestFrames /\ g.of = c /\ g.kind = "settlement" /\ g.mark # Invalid
      BY <1>3, SessionWritten, MessageFields DEF Marks, Invalid
    <2> HIDE DEF f, g
    <2>3. PICK s : s = Append(toHost, f)
      OBVIOUS
    <2>4. s \in Seq(GuestFrames)
      BY <1>5, <2>2, <2>3
    <2>5. toHost' = Append(s, g)
      BY <1>5, <2>1, <2>2, <2>3
    <2>6. SettlesOf(toHost', c) /\ ResultsOf(channel[c], c)
      <3>1. NoneOf(toHost, c) /\ NoneOf(channel[c], c)
        BY <1>5 DEF HostKnows
      <3>2. ResultsOf(s, c)
        BY <1>5, <2>2, <2>3, <3>1, FramesApart, AppendOwn
      <3> QED BY <2>2, <2>4, <2>5, <3>1, <3>2, FramesApart, AppendOwn
    <2>7. Settled(c)'
      BY <1>4, <1>5, <2>1, <2>6 DEF Settled, HostKnows, guest, session
    <2>8. Served(c)'
      BY <1>3, <1>4, <2>1, <2>7, WorkApart DEF Served, Listening, session
    <2>9. OthersAlone(c)
      <3> SUFFICES ASSUME NEW v \in Work, v # c PROVE Apart(v)
        BY <2>1 DEF OthersAlone, guest, session
      <3>1. KeepsOf(toGuest, toGuest', v)
        BY <1>0, <1>1, <1>5, PipeKeeps
      <3>2. KeepsOf(toHost, s, v) /\ KeepsOf(s, toHost', v)
        BY <1>5, <2>2, <2>3, <2>4, <2>5, PipeKeeps
      <3>3. KeepsOf(toHost, toHost', v)
        BY <3>2 DEF KeepsOf
      <3> QED BY <2>1, <3>1, <3>3 DEF Apart, guest, session
    <2>10. Valid(toHost')
      BY <1>5, <2>2, <2>3, <2>4, <2>5, FramesSound DEF InOrder, Undisturbed
    <2>11. Soundly
      BY <2>1, <2>10 DEF InOrder, Undisturbed, Soundly, guest, session
    <2>12. InOrder'
      BY <1>3, <2>1, <2>8, <2>9, <2>11, CallInOrder DEF LifecycleAlone, guest, session
    <2> QED BY <2>1, <2>12 DEF Agreed, Running
  <1>8. CASE ~Misplaced(c) /\ ~(Cardinality(active) >= MaxActive)
    <2>1. /\ active' = active \union {c} /\ thread' = [thread EXCEPT ![c] = "running"]
          /\ UNCHANGED <<process, toHost, main, attempted, object, lifecycle, flagged,
                         retired, loopback, outbounds>>
      BY <1>0, <1>8 DEF Accept
    <2>2. Works(c)'
      BY <1>3, <1>5, <2>1 DEF Works, Nowhere, HostKnows, session, SessionTypeOK
    <2>3. Served(c)'
      BY <1>3, <1>4, <2>1, <2>2, WorkApart DEF Served, Listening, session
    <2>4. OthersAlone(c)
      BY <1>0, <1>1, <1>3, <2>1, AloneWhen DEF PipeMoves, session, SessionTypeOK
    <2>5. Soundly
      BY <1>3, <2>1, StaysSound DEF session
    <2>6. InOrder'
      BY <1>3, <2>1, <2>3, <2>4, <2>5, CallInOrder DEF LifecycleAlone, session
    <2> QED BY <2>1, <2>6 DEF Agreed, Running
  <1> QED BY <1>6, <1>7, <1>8

\* A step of a lifecycle scope keeps the order when it leaves its scope in order.
LEMMA ScopeInOrder ==
  ASSUME SessionTypeOK, InOrder, NEW w \in Scopes, OthersAlone(w), Soundly,
         Starts' \/ Constructs' \/ Serves',
         Starts' \/ Constructs' => (Starts \/ Constructs) /\ w = "construct"
  PROVE  InOrder'
  <1>1. \A c \in Invocations : Served(c)' /\ calls'[c].at = calls[c].at
    BY OthersServed, WorkApart DEF InOrder, OthersAlone
  <1>2. Starts' \/ Constructs' => Rests("cleanup")' /\ \A c \in Invocations : calls'[c].at = "new"
    BY <1>1, ApartKeeps, WorkApart DEF InOrder, OthersAlone
  <1> QED BY <1>1, <1>2 DEF InOrder, Soundly

\* A pipe that held one frame is empty, and one that was empty holds the frame written.
LEMMA OneFrame ==
  /\ \A f : /\ Tail(<<f>>) = <<>> /\ Append(<<>>, f) = <<f>> /\ Head(<<f>>) = f /\ <<f>> # <<>>
            /\ Len(<<f>>) = 1 /\ <<f>>[1] = f
  OBVIOUS

\* construct asks the child to initialize ...
LEMMA BeginConstructInOrder ==
  ASSUME SessionTypeOK, Running, InOrder, UNCHANGED guest, BeginConstruct PROVE InOrder'
  <1>1. Starts /\ life = "prepared"
    BY DEF InOrder, BeginConstruct, Constructs, Serves, Stops
  <1>2. CanSend
    BY DEF CanSend, InOrder, Running
  <1>3. /\ slots' = slots \union {"initialized"} /\ reply' = "none" /\ life' = "initializing"
        /\ toGuest' = Append(toGuest, Message("initialize", "construct", "ok"))
        /\ UNCHANGED <<process, toHost, pending, channel, isFailed, isStopped, stopStarted, readerAt,
                       monitor, calls, importing, timers, mishaps>>
    BY <1>2 DEF BeginConstruct, Send
  <1>4. toGuest' = <<Message("initialize", "construct", "ok")>> /\ slots' = {"initialized"}
    BY <1>1, <1>3, OneFrame DEF Starts
  <1>5. Starts'
    BY <1>1, <1>3, <1>4 DEF Starts, guest
  <1>6. Message("initialize", "construct", "ok") \in HostFrames
        /\ Message("initialize", "construct", "ok").of = "construct"
    BY SessionWritten, MessageFields
  <1>7. OthersAlone("construct")
    BY <1>3, <1>6, AloneWhen, WorkApart DEF PipeMoves, guest
  <1>8. Soundly
    BY <1>3, StaysSound, WorkApart DEF guest
  <1> QED BY <1>1, <1>5, <1>7, <1>8, ScopeInOrder, WorkApart

\* ... which echoes it ...
LEMMA InitializeInOrder ==
  ASSUME SessionTypeOK, InOrder, UNCHANGED session, Initialize PROVE InOrder'
  <1>1. /\ Starts /\ life = "initializing" /\ slots = {"initialized"} /\ reply = "none"
        /\ toHost = <<>> /\ toGuest = <<Message("initialize", "construct", "ok")>>
    BY DEF InOrder, Initialize, Starts, Constructs, Serves
  <1>2. Head(toGuest) = Message("initialize", "construct", "ok") /\ toGuest # <<>>
    BY <1>1, OneFrame
  <1>3. Head(toGuest).kind = "initialize" /\ Head(toGuest).of = "construct"
    BY <1>2, MessageFields
  <1>4. /\ toGuest' = Tail(toGuest) /\ main' = <<"loop">>
        /\ toHost' = Append(toHost, Message("initialized", "construct", "ok"))
        /\ UNCHANGED <<process, attempted, object, lifecycle, active, flagged, retired,
                       thread, loopback, outbounds>>
    BY <1>3 DEF Initialize, Taken, Writes
  <1>5. toGuest' = <<>> /\ toHost' = <<Message("initialized", "construct", "ok")>>
    BY <1>1, <1>4, OneFrame
  <1>6. Starts'
    BY <1>1, <1>4, <1>5 DEF Starts, session
  <1>7. /\ Message("initialized", "construct", "ok") \in GuestFrames
        /\ Message("initialized", "construct", "ok").of = "construct"
        /\ Message("initialized", "construct", "ok").mark # Invalid
    BY SessionWritten, MessageFields, WorkApart DEF Invalid
  <1>8. OthersAlone("construct")
    BY <1>2, <1>3, <1>4, <1>7, AloneWhen, WorkApart DEF PipeMoves, session
  <1>9. Soundly
    BY <1>4, <1>7, StaysSound, WorkApart DEF session
  <1> QED BY <1>1, <1>6, <1>8, <1>9, ScopeInOrder, WorkApart

\* ... and, when the echo is right, to construct.
LEMMA BeginFactoryInOrder ==
  ASSUME SessionTypeOK, Running, InOrder, UNCHANGED guest, BeginFactory PROVE InOrder'
  <1>1. /\ Starts /\ life = "initializing" /\ slots = {} /\ reply = "ok" /\ main = <<"loop">>
        /\ toGuest = <<>> /\ toHost = <<>> /\ pending = {} /\ importing = {}
        /\ channel["construct"] = <<>> /\ thread["construct"] = "none"
        /\ ~attempted /\ lifecycle = "none" /\ loopback = {}
    BY WorkApart DEF InOrder, BeginFactory, Starts, Constructs, Serves, Stops
  <1>2. CanSend
    BY DEF CanSend, InOrder, Running
  <1>3. /\ pending' = pending \union {"construct"} /\ slots' = slots \union {"constructed"}
        /\ reply' = "none" /\ life' = "construct"
        /\ toGuest' = Append(toGuest, Message("construct", "construct", "ok"))
        /\ UNCHANGED <<process, toHost, channel, isFailed, isStopped, stopStarted, readerAt, monitor,
                       calls, importing, timers, mishaps>>
    BY <1>1, <1>2 DEF BeginFactory, Send
  <1>4. /\ Message("construct", "construct", "ok") \in HostFrames
        /\ Message("construct", "construct", "ok").of = "construct"
        /\ Message("construct", "construct", "ok").kind = "construct"
        /\ toGuest \in Seq(HostFrames)
    BY SessionWritten, MessageFields DEF SessionTypeOK
  <1>5. OnlyOf(toGuest', "construct", "construct")
    <2>1. NoneOf(toGuest, "construct")
      BY <1>1, FramesApart
    <2>2. toGuest' = Append(toGuest, Message("construct", "construct", "ok"))
      BY <1>3
    <2> QED BY <1>4, <2>1, <2>2, AppendOwn
  <1>6. Asked("construct", "construct")'
    BY <1>1, <1>3, <1>5, FramesApart DEF Asked, HostKnows, guest
  <1>7. Constructs'
    BY <1>1, <1>3, <1>6 DEF Constructs, guest
  <1>8. OthersAlone("construct")
    BY <1>3, <1>4, AloneWhen, WorkApart DEF PipeMoves, guest
  <1>9. Soundly
    BY <1>3, StaysSound, WorkApart DEF guest
  <1> QED BY <1>1, <1>7, <1>8, <1>9, ScopeInOrder, WorkApart

\* The guest constructs ...
LEMMA ConstructInOrder ==
  ASSUME SessionTypeOK, InOrder, UNCHANGED session, Construct
  PROVE  InOrder' /\ process' = process
  <1>1. toGuest # <<>> /\ Head(toGuest).kind = "construct" /\ toGuest' = Tail(toGuest)
    BY DEF Construct, Receives, Taken
  <1>2. ~Starts
    BY <1>1, MessageFields DEF Starts, Construct, Receives, Loop
  <1>3. Head(toGuest).of = "construct" /\ Constructs /\ Asked("construct", "construct")
    BY <1>1, <1>2, GuestReads
  <1>4. ~attempted /\ lifecycle = "none" /\ loopback = {} /\ slots # {}
    BY <1>3, FramesApart DEF Constructs, Asked, Works, CallsOut, Nowhere, Rests
  <1>5. /\ attempted' = TRUE /\ lifecycle' = "construct"
        /\ thread' = [thread EXCEPT !["construct"] = "running"]
        /\ UNCHANGED <<process, toHost, main, object, active, flagged, retired, loopback, outbounds>>
    BY <1>4 DEF Construct
  <1>6. NoneOf(toGuest', "construct") /\ ~HostKnows("construct")
    <2>1. toGuest \in Seq(HostFrames) /\ OnlyOf(toGuest, "construct", "construct")
          /\ ~HostKnows("construct")
      BY <1>3 DEF SessionTypeOK, Asked
    <2> QED BY <1>1, <1>3, <2>1, TailOwn
  <1>7. Works("construct")'
    BY <1>5, <1>6, WorkApart DEF Works, Nowhere, HostKnows, session, SessionTypeOK
  <1>8. Constructs'
    BY <1>3, <1>4, <1>5, <1>7 DEF Constructs, session
  <1>9. OthersAlone("construct")
    BY <1>1, <1>3, <1>5, AloneWhen, WorkApart DEF PipeMoves, session, SessionTypeOK
  <1>10. Soundly
    BY <1>5, StaysSound, WorkApart DEF session
  <1> QED BY <1>3, <1>5, <1>8, <1>9, <1>10, ScopeInOrder, WorkApart

\* ... and tells its loop, as it does when it has stopped.
LEMMA LifecycleEndsInOrder ==
  ASSUME SessionTypeOK, InOrder, UNCHANGED session, NEW w \in Work, LifecycleEnds(w) PROVE InOrder'
  <1>1. w \in Scopes /\ Works(w) /\ Nowhere(w)
    BY ThreadWorks DEF LifecycleEnds, Works, CallsOut
  <1>2. /\ thread' = [thread EXCEPT ![w] = "none"] /\ loopback' = loopback \union {w}
        /\ UNCHANGED <<process, toGuest, toHost, main, attempted, object, lifecycle, active,
                       flagged, retired, outbounds>>
    BY DEF LifecycleEnds
  <1>3. Rests(w)'
    BY <1>1, <1>2 DEF Rests, Nowhere, HostKnows, session, SessionTypeOK
  <1>4. OthersAlone(w)
    BY <1>2, AloneWhen DEF PipeMoves, session, SessionTypeOK
  <1>5. Soundly
    BY <1>2, StaysSound DEF session
  <1>6. CASE w = "construct"
    <2>1. /\ Constructs /\ lifecycle = "construct" /\ loopback = {} /\ slots = {"constructed"}
          /\ reply = "none"
      BY <1>1, <1>6, WorksWhere
    <2>2. Constructs'
      BY <1>2, <1>3, <1>6, <2>1 DEF Constructs, session
    <2> QED BY <1>1, <1>4, <1>5, <1>6, <2>1, <2>2, ScopeInOrder
  <1>7. CASE w = "cleanup"
    <2>1. Serves /\ Stops /\ lifecycle = "cleanup" /\ loopback = {} /\ life = "cleanup"
      BY <1>1, <1>7, WorksWhere
    <2>2. Rests("construct")'
      BY <1>4, <1>7, <2>1, ApartKeeps, WorkApart DEF OthersAlone, Serves
    <2>3. Stops'
      BY <1>2, <1>3, <1>7, <2>1 DEF Stops, session
    <2>4. Serves'
      BY <1>2, <2>1, <2>2, <2>3 DEF Serves, session
    <2>5. ~Starts' /\ ~Constructs'
      BY <2>1 DEF Starts, Constructs, session
    <2> QED BY <1>1, <1>4, <1>5, <2>4, <2>5, ScopeInOrder
  <1> QED BY <1>1, <1>6, <1>7, WorkApart

\* The loop reports the construction ...
LEMMA ReportConstructInOrder ==
  ASSUME SessionTypeOK, InOrder, UNCHANGED session, ReportConstruct PROVE InOrder'
  <1>1. /\ Constructs /\ lifecycle = "construct" /\ loopback = {"construct"} /\ slots # {}
        /\ Rests("construct")
    BY DEF InOrder, ReportConstruct, Starts, Constructs, Serves, Stops
  <1>2. PICK outcome \in {"ok", "failed"} :
          /\ object' = (outcome = "ok")
          /\ toHost' = Append(toHost, Message("constructed", "construct", outcome))
    BY DEF ReportConstruct, Writes
  <1>3. /\ loopback' = {} /\ lifecycle' = "none"
        /\ UNCHANGED <<process, toGuest, main, attempted, active, flagged, retired, thread, outbounds>>
    BY <1>1 DEF ReportConstruct, LifecycleOver
  <1>4. toHost = <<>>
    <2>1. \A c \in Invocations : Served(c) /\ calls[c].at = "new"
      BY <1>1 DEF InOrder
    <2>2. \A c \in Invocations : Rests(c)
      BY <2>1 DEF Served
    <2>3. Rests("cleanup")
      BY <1>1 DEF InOrder
    <2>4. \A w \in Work : Rests(w)
      BY <1>1, <2>2, <2>3, WorkApart
    <2>5. \A w \in Work : NoneOf(toHost, w)
      BY <2>4 DEF Rests, Nowhere, HostKnows
    <2> QED BY <2>5, NothingInside
  <1>5. /\ Message("constructed", "construct", outcome) \in GuestFrames
        /\ Message("constructed", "construct", outcome).of = "construct"
        /\ Message("constructed", "construct", outcome).kind = "constructed"
        /\ Message("constructed", "construct", outcome).mark = outcome
        /\ Message("constructed", "construct", outcome).mark # Invalid
        /\ toHost \in Seq(GuestFrames)
    BY SessionWritten, MessageFields, WorkApart DEF Invalid, SessionTypeOK
  <1>6. OnlyOf(toHost', "construct", "constructed")
    <2>1. NoneOf(toHost, "construct")
      BY <1>1 DEF Rests, Nowhere, HostKnows
    <2> QED BY <1>2, <1>5, <2>1, AppendOwn
  <1>7. \A i \in 1..Len(toHost') : toHost'[i].mark = "ok" => object'
    <2>1. toHost' = <<Message("constructed", "construct", outcome)>>
      BY <1>2, <1>4, OneFrame
    <2>2. Len(toHost') = 1 /\ toHost'[1] = Message("constructed", "construct", outcome)
      BY <2>1, OneFrame
    <2>3. \A i \in 1..Len(toHost') : i = 1
      BY <2>2
    <2>4. \A i \in 1..Len(toHost') : toHost'[i].mark = outcome
      BY <1>5, <2>2, <2>3
    <2>5. outcome = "ok" => object'
      BY <1>2
    <2> QED BY <2>4, <2>5, Zenon
  <1>8. /\ thread'["construct"] = "none" /\ "construct" \notin importing'
        /\ NoneOf(toGuest', "construct") /\ NoneOf(channel'["construct"], "construct")
    BY <1>1, <1>3 DEF Rests, Nowhere, HostKnows, session
  <1>9. Constructs'
    BY <1>1, <1>3, <1>6, <1>7, <1>8 DEF Constructs, session
  <1>10. OthersAlone("construct")
    BY <1>2, <1>3, <1>5, AloneWhen, WorkApart DEF PipeMoves, session
  <1>11. Soundly
    BY <1>2, <1>3, <1>5, StaysSound, WorkApart DEF session
  <1> QED BY <1>1, <1>9, <1>10, <1>11, ScopeInOrder, WorkApart

\* ... which the reader puts through its slot, like the echo ...
LEMMA ReadLifecycleInOrder ==
  ASSUME SessionTypeOK, InOrder, UNCHANGED guest, ReadLifecycle PROVE InOrder'
  <1>1. /\ toHost # <<>> /\ Head(toHost) \in GuestFrames /\ toHost \in Seq(GuestFrames)
        /\ slots' = slots \ {Head(toHost).kind} /\ reply' = Head(toHost).mark
        /\ toHost' = Tail(toHost)
        /\ Head(toHost).kind \in {"initialized", "constructed", "stopped"}
        /\ UNCHANGED <<process, toGuest, pending, channel, isFailed, isStopped, stopStarted, monitor,
                       life, calls, importing, timers, mishaps>>
    BY SessionReads DEF ReadLifecycle, SessionTypeOK
  <1>2. CASE Starts
    <2>1. /\ life = "initializing" /\ slots = {"initialized"} /\ main = <<"loop">>
          /\ toGuest = <<>> /\ toHost = <<Message("initialized", "construct", "ok")>>
      BY <1>1, <1>2 DEF Starts
    <2>2. Head(toHost) = Message("initialized", "construct", "ok") /\ toHost' = <<>>
      BY <1>1, <2>1, OneFrame
    <2>3. /\ Head(toHost).kind = "initialized" /\ Head(toHost).of = "construct"
          /\ Head(toHost).mark = "ok"
      BY <2>2, MessageFields
    <2>4. slots' = {} /\ reply' = "ok" /\ readerAt' = readerAt
      BY <1>1, <2>1, <2>3 DEF ReadLifecycle
    <2>5. Starts'
      BY <1>1, <1>2, <2>1, <2>2, <2>4 DEF Starts, guest
    <2>6. OthersAlone("construct")
      BY <1>1, <2>3, AloneWhen, WorkApart DEF PipeMoves, guest
    <2>7. Soundly
      BY <1>1, <2>4, StaysSound, WorkApart DEF guest
    <2> QED BY <1>2, <2>5, <2>6, <2>7, ScopeInOrder, WorkApart
  <1>3. CASE ~Starts
    <2>1. /\ Head(toHost).kind = "constructed" /\ Head(toHost).of = "construct" /\ Constructs
          /\ OnlyOf(toHost, "construct", "constructed") /\ ~Works("construct")
      BY <1>1, <1>3, HostReads
    <2>2. /\ lifecycle = "none" /\ loopback = {} /\ slots = {"constructed"}
          /\ thread["construct"] = "none" /\ "construct" \notin importing
          /\ NoneOf(toGuest, "construct") /\ NoneOf(channel["construct"], "construct")
          /\ \A i \in 1..Len(toHost) : toHost[i].mark = "ok" => object
      <3>1. ~Rests("construct") /\ ~Asked("construct", "construct")
        BY <2>1, FramesApart DEF Rests, Asked, Nowhere, HostKnows
      <3> QED BY <2>1, <3>1 DEF Constructs
    <2>3. Head(toHost).mark \in {"ok", "failed"} /\ (Head(toHost).mark = "ok" => object)
      <3>1. Head(toHost) = toHost[1] /\ 1 \in 1..Len(toHost)
        BY <1>1, SessionTail
      <3> QED BY <1>1, <2>1, <2>2, <3>1, SessionFrames
    <2>4. NoneOf(toHost', "construct")
      BY <1>1, <2>1, TailOwn
    <2>5. slots' = {} /\ reply' # "none" /\ (reply' = "ok" => object') /\ readerAt' = readerAt
      BY <1>1, <2>1, <2>2, <2>3 DEF ReadLifecycle, guest
    <2>6. Rests("construct")'
      BY <1>1, <2>2, <2>4 DEF Rests, Nowhere, HostKnows, guest
    <2>7. Constructs'
      BY <1>1, <2>1, <2>2, <2>5, <2>6 DEF Constructs, guest
    <2>8. OthersAlone("construct")
      BY <1>1, <2>1, AloneWhen, WorkApart DEF PipeMoves, guest
    <2>9. Soundly
      BY <1>1, <2>5, StaysSound, WorkApart DEF guest
    <2> QED BY <2>1, <2>7, <2>8, <2>9, ScopeInOrder, WorkApart
  <1> QED BY <1>2, <1>3

\* ... so that the generation is constructed, or refused.
LEMMA EndFactoryAgreed ==
  ASSUME SessionTypeOK, Running, InOrder, UNCHANGED guest, EndFactory PROVE Agreed'
  <1>1. /\ Constructs /\ slots = {} /\ (reply = "ok" => object) /\ Rests("construct")
        /\ pending = {"construct"} /\ lifecycle = "none" /\ loopback = {} /\ main = <<"loop">>
    BY WorkApart DEF InOrder, EndFactory, Starts, Constructs, Serves, Stops
  <1>2. /\ life' = IF reply = "ok" THEN "constructed" ELSE "refused"
        /\ pending' = pending \ {"construct"} /\ channel' = [channel EXCEPT !["construct"] = <<>>]
        /\ UNCHANGED <<process, toGuest, toHost, slots, isFailed, isStopped, stopStarted, readerAt,
                       monitor, calls, importing, timers, mishaps>>
    BY DEF EndFactory, wire
  <1>3. pending' = {} /\ \A c \in Invocations : calls[c].at = "new"
    BY <1>1, <1>2 DEF InOrder
  <1>4. CASE reply = "ok"
    <2>1. /\ channel'["construct"] = <<>>
          /\ \A v \in Work : v # "construct" => channel'[v] = channel[v]
      BY <1>2, WorkApart DEF SessionTypeOK
    <2>2. OthersAlone("construct")
      BY <1>1, <1>2, <2>1, AloneWhen, WorkApart DEF PipeMoves, guest
    <2>3. Soundly
      BY <1>2, <2>1, StaysSound, WorkApart DEF guest
    <2>4. Rests("construct")'
      BY <1>1, <1>2, <2>1, FramesApart DEF Rests, Nowhere, HostKnows, guest
    <2>5. Rests("cleanup")'
      BY <1>1, <2>2, ApartKeeps, WorkApart DEF InOrder, OthersAlone
    <2>6. Serves'
      BY <1>1, <1>2, <1>3, <1>4, <2>4, <2>5 DEF Serves, guest
    <2>7. ~Starts' /\ ~Constructs'
      BY <1>2, <1>4 DEF Starts, Constructs
    <2>8. InOrder'
      BY <2>2, <2>3, <2>6, <2>7, ScopeInOrder, WorkApart
    <2> QED BY <1>2, <2>8 DEF Agreed, Running
  <1>5. CASE reply # "ok"
    BY <1>2, <1>3, <1>5 DEF Agreed, Running
  <1> QED BY <1>4, <1>5

\* A generation that has been constructed is activated, and deactivated ...
LEMMA LivesInOrder ==
  ASSUME SessionTypeOK, InOrder, UNCHANGED guest, Activate \/ Deactivate PROVE InOrder'
  <1>1. /\ life \in {"constructed", "active"} /\ ~isFailed
        /\ UNCHANGED <<process, toGuest, toHost, channel, readerAt, calls, importing, timers,
                       isFailed, isStopped>>
    BY DEF Activate, Deactivate, wire, InOrder
  <1>2. /\ Serves /\ lifecycle = "none" /\ loopback = {} /\ slots = {} /\ "cleanup" \notin pending
        /\ Rests("cleanup") /\ Rests("construct") /\ main = <<"loop">> /\ object
        /\ "construct" \notin pending
    BY <1>1 DEF InOrder, Starts, Constructs, Serves, Stops, Deactivate, Activate
  <1>3. Rests("cleanup")' /\ Rests("construct")'
    BY <1>1, <1>2 DEF Rests, Nowhere, HostKnows, guest
  <1>4. \A v \in Work : v # "cleanup" => (v \in pending <=> v \in pending')
    BY <1>1 DEF Activate, Deactivate
  <1>5. OthersAlone("cleanup")
    BY <1>1, <1>4, AloneWhen, WorkApart DEF PipeMoves, guest
  <1>6. Soundly
    BY <1>1, StaysSound, WorkApart DEF guest
  <1>7. life' \in {"active", "stopping"} /\ "construct" \notin pending'
    BY <1>1, <1>2 DEF Activate, Deactivate
  <1>8. CASE Activate
    BY <1>2, <1>3, <1>5, <1>6, <1>8, ScopeInOrder, WorkApart
       DEF Activate, Serves, guest, Starts, Constructs
  <1>9. CASE Deactivate
    <2>1. /\ life' = "stopping" /\ stopStarted' = TRUE /\ pending' = pending \union {"cleanup"}
          /\ slots' = slots \union {"stopped"} /\ reply' = "none"
      BY <1>1, <1>9 DEF Deactivate
    <2>2. Stops'
      BY <1>2, <1>3, <2>1 DEF Stops, guest
    <2>3. Serves'
      BY <1>2, <1>3, <1>7, <2>2 DEF Serves, guest
    <2>4. ~Starts' /\ ~Constructs'
      BY <2>1 DEF Starts, Constructs
    <2> QED BY <1>5, <1>6, <2>3, <2>4, ScopeInOrder, WorkApart
  <1> QED BY <1>8, <1>9

\* ... is asked to stop ...
LEMMA SendStopInOrder ==
  ASSUME SessionTypeOK, Running, InOrder, UNCHANGED guest, SendStop PROVE InOrder'
  <1>1. /\ Serves /\ Stops /\ lifecycle = "none" /\ loopback = {} /\ Rests("cleanup")
        /\ Rests("construct")
    BY DEF InOrder, SendStop, Starts, Constructs, Serves, Stops
  <1>2. CanSend
    BY DEF CanSend, InOrder, Running
  <1>3. /\ life' = "cleanup" /\ toGuest' = Append(toGuest, Message("stop", "cleanup", "ok"))
        /\ UNCHANGED <<process, toHost, pending, channel, slots, reply, isFailed, isStopped,
                       stopStarted, readerAt, monitor, calls, importing, timers, mishaps>>
    BY <1>2 DEF SendStop, Send
  <1>4. /\ Message("stop", "cleanup", "ok") \in HostFrames
        /\ Message("stop", "cleanup", "ok").of = "cleanup"
        /\ Message("stop", "cleanup", "ok").kind = "stop" /\ toGuest \in Seq(HostFrames)
    BY SessionWritten, MessageFields DEF SessionTypeOK
  <1>5. OnlyOf(toGuest', "cleanup", "stop")
    <2>1. NoneOf(toGuest, "cleanup")
      BY <1>1 DEF Rests, Nowhere
    <2> QED BY <1>3, <1>4, <2>1, AppendOwn
  <1>6. Asked("cleanup", "stop")'
    BY <1>1, <1>3, <1>5 DEF Asked, Rests, Nowhere, HostKnows, guest
  <1>7. Stops'
    BY <1>1, <1>3, <1>6 DEF Stops, guest
  <1>8. OthersAlone("cleanup")
    BY <1>3, <1>4, AloneWhen, WorkApart DEF PipeMoves, guest
  <1>9. Soundly
    BY <1>3, StaysSound, WorkApart DEF guest
  <1>10. Rests("construct")'
    BY <1>1, <1>8, ApartKeeps, WorkApart DEF OthersAlone
  <1>11. Serves' /\ ~Starts' /\ ~Constructs'
    BY <1>1, <1>3, <1>7, <1>10 DEF Serves, Starts, Constructs, guest
  <1> QED BY <1>8, <1>9, <1>11, ScopeInOrder, WorkApart

\* ... and stops, or ends the session because a call is still in progress.
LEMMA StopAgreed ==
  ASSUME SessionTypeOK, Running, InOrder, UNCHANGED session, StopArrives \/ ReportStop
  PROVE  Agreed'
  <1>1. CASE ReportStop
    <2>1. Stops
      BY <1>1 DEF InOrder, ReportStop, Starts, Constructs, Serves
    <2> QED BY <1>1, <2>1 DEF ReportStop, Leaves, Stops, Agreed, Running, session
  <1>2. CASE StopArrives
    <2>1. toGuest # <<>> /\ Head(toGuest).kind = "stop" /\ toGuest' = Tail(toGuest)
      BY <1>2 DEF StopArrives, Receives, Taken
    <2>2. ~Starts
      BY <1>2, <2>1, MessageFields DEF Starts, StopArrives, Receives, Loop
    <2>3. Head(toGuest).of = "cleanup" /\ Serves /\ Stops /\ Asked("cleanup", "stop")
      BY <2>1, <2>2, GuestReads
    <2>4. lifecycle = "none" /\ loopback = {} /\ life = "cleanup" /\ Rests("construct")
      BY <2>3, FramesApart DEF Serves, Stops, Asked, Works, CallsOut, Nowhere, Rests
    <2>5. CASE Leaves
      BY <2>3, <2>5 DEF Leaves, guest, session, Stops, Agreed, Running
    <2>6. CASE ~Leaves
      <3>1. /\ lifecycle' = "cleanup" /\ thread' = [thread EXCEPT !["cleanup"] = "running"]
            /\ UNCHANGED <<process, toHost, main, attempted, object, active, flagged, retired,
                           loopback, outbounds>>
        BY <1>2, <2>6 DEF StopArrives
      <3>2. NoneOf(toGuest', "cleanup") /\ ~HostKnows("cleanup")
        <4>1. toGuest \in Seq(HostFrames) /\ OnlyOf(toGuest, "cleanup", "stop")
              /\ ~HostKnows("cleanup")
          BY <2>3 DEF SessionTypeOK, Asked
        <4> QED BY <2>1, <2>3, <4>1, TailOwn
      <3>3. Works("cleanup")'
        BY <3>1, <3>2, WorkApart DEF Works, Nowhere, HostKnows, session, SessionTypeOK
      <3>4. Stops'
        BY <2>3, <2>4, <3>1, <3>3 DEF Stops, session
      <3>5. OthersAlone("cleanup")
        BY <2>1, <2>3, <3>1, AloneWhen, WorkApart DEF PipeMoves, session, SessionTypeOK
      <3>6. Soundly
        BY <3>1, StaysSound, WorkApart DEF session
      <3>7. Rests("construct")'
        BY <2>4, <3>5, ApartKeeps, WorkApart DEF OthersAlone
      <3>8. Serves' /\ ~Starts' /\ ~Constructs'
        BY <2>3, <2>4, <3>1, <3>4, <3>7 DEF Serves, Starts, Constructs, session
      <3>9. InOrder'
        BY <3>5, <3>6, <3>8, ScopeInOrder, WorkApart
      <3> QED BY <3>1, <3>9 DEF Agreed, Running
    <2> QED BY <2>5, <2>6
  <1> QED BY <1>1, <1>2

\* The reader of a session in order finds the receiver of every frame.
LEMMA ReaderKeepsOrder ==
  ASSUME SessionTypeOK, Running, InOrder PROVE ~ReadFailure /\ ~ReaderGivesUp
  <1>1. ~ReaderGivesUp
    BY DEF InOrder, ReaderGivesUp
  <1>2. ASSUME toHost # <<>> PROVE Delivered(Head(toHost))
    <2>0. PICK w : w = Head(toHost).of
      OBVIOUS
    <2>1. CASE Starts
      <3>1. /\ life = "initializing" /\ slots = {"initialized"}
            /\ toHost = <<Message("initialized", "construct", "ok")>>
        BY <1>2, <2>1 DEF Starts
      <3>2. Head(toHost).kind = "initialized"
        BY <3>1, OneFrame, MessageFields
      <3> QED BY <3>1, <3>2 DEF Delivered
    <2>2. CASE ~Starts /\ Head(toHost).kind = "outbound" /\ Works(w)
      <3>1. w \in Work
        BY <1>2, <2>0, <2>2, HostReads
      <3>2. CASE w \in Invocations
        <4>1. calls[w].at = "waiting"
          BY <2>2, <3>1, <3>2, WorksWhere
        <4> QED BY <2>0, <2>2, <3>2, <4>1, WorkApart DEF Delivered, InOrder, Served, Listening
      <3>3. CASE w = "construct"
        BY <2>0, <2>2, <3>1, <3>3, WorksWhere, WorkApart DEF Delivered, Constructs, Listening
      <3>4. CASE w = "cleanup"
        BY <2>0, <2>2, <3>1, <3>4, WorksWhere, WorkApart DEF Delivered, Stops, Listening
      <3> QED BY <3>1, <3>2, <3>3, <3>4, WorkApart
    <2>3. CASE /\ ~Starts /\ Head(toHost).kind \in {"result", "settlement"} /\ w \in Invocations
               /\ calls[w].at = "waiting"
      BY <2>0, <2>3, WorkApart DEF Delivered, InOrder, Served, Listening
    <2>4. CASE /\ ~Starts /\ Head(toHost).kind = "constructed" /\ w = "construct" /\ Constructs
               /\ OnlyOf(toHost, w, "constructed") /\ ~Works(w)
      <3>1. ~NoneOf(toHost, "construct")
        BY <2>4, FramesApart
      <3>2. slots # {}
        BY <2>4, <3>1 DEF Constructs, Asked, Rests, Nowhere, HostKnows
      <3> QED BY <2>4, <3>2 DEF Constructs, Delivered
    <2> QED BY <1>2, <2>0, <2>1, <2>2, <2>3, <2>4, HostReads
  <1>3. ~ReadFailure
    BY <1>2 DEF ReadFailure, Running
  <1> QED BY <1>1, <1>3

\* The Host's tasks have nothing to end ...
LEMMA TasksKeepOrder ==
  ASSUME SessionTypeOK, Running, InOrder
  PROVE  /\ ~Monitor /\ ~EndStop /\ ~Reap /\ ~DropGeneration
         /\ \A c \in Invocations : ~TakeAck(c) /\ ~Lost(c) /\ ~TimerFires(c)
  <1>1. ~Monitor /\ ~EndStop /\ ~Reap /\ ~DropGeneration
    BY WorkApart DEF InOrder, Monitor, EndStop, Reap, DropGeneration, Starts, Constructs, Serves,
                     Stops
  <1>2. ASSUME NEW c \in Invocations PROVE ~TakeAck(c) /\ ~Lost(c) /\ ~TimerFires(c)
    <2>1. ~TakeAck(c)
      BY TaskTakes, WorkApart DEF TakeAck, Event
    <2>2. ~Lost(c)
      BY WorkApart DEF Lost, InOrder, Served, Listening
    <2>3. ~TimerFires(c)
      BY DEF TimerFires, InOrder, Undisturbed
    <2> QED BY <2>1, <2>2, <2>3
  <1> QED BY <1>1, <1>2

\* ... and the guest has no cancellation to answer.
LEMMA GuestKeepsOrder ==
  ASSUME SessionTypeOK, Running, InOrder PROVE ~CancelArrives /\ ~Acknowledge
  <1>1. main = <<"initialize">> \/ main = <<"loop">>
    BY DEF InOrder, Starts, Constructs, Serves
  <1>2. main[1] # "ack"
    BY <1>1
  <1>3. ~CancelArrives
    <2>1. ASSUME CancelArrives PROVE FALSE
      <3>1. toGuest # <<>> /\ Head(toGuest).kind = "cancel" /\ Loop
        BY <2>1 DEF CancelArrives, Receives
      <3>2. ~Starts
        BY <3>1 DEF Starts, Loop
      <3> QED BY <3>1, <3>2, GuestReads
    <2> QED BY <2>1
  <1> QED BY <1>2, <1>3 DEF Acknowledge

\* A call that is refused stays refused, and so does the generation.
LEMMA RefusedStays ==
  ASSUME SessionTypeOK, TasksFit, V2Next, life = "refused"
  PROVE  /\ life' = "refused"
         /\ (\A c \in Invocations : calls[c].at = "new" /\ c \notin pending) =>
              \A c \in Invocations : calls'[c].at = "new" /\ c \notin pending'
  <1>1. CASE GuestNext /\ UNCHANGED session
    BY <1>1 DEF session
  <1>2. CASE Exit
    BY <1>2 DEF Exit
  <1>3. CASE HostReader /\ UNCHANGED guest
    BY <1>3 DEF HostReader, ReadLifecycle, ReadEvent, ReadFailure, ReaderGivesUp, RetireAll
  <1>4. CASE HostLife
    <2>1. ~SendStop /\ ~BeginConstruct /\ ~BeginFactory /\ ~EndFactory /\ ~Activate /\ ~EndStop
          /\ ~Reap /\ ~LifecycleEvent
      BY WorkApart DEF SendStop, BeginConstruct, BeginFactory, EndFactory, Activate, EndStop, Reap,
                       LifecycleEvent
    <2>2. CASE Monitor
      BY <2>2 DEF Monitor
    <2>3. CASE DropGeneration
      BY <2>3 DEF DropGeneration, Abort, RetireAll
    <2> QED BY <1>4, <2>1, <2>2, <2>3 DEF HostLife
  <1>5. CASE HostMay
    <2>1. ~Deactivate /\ ~LifecycleCancelled /\ \A c \in Invocations : ~BeginInvocation(c)
      BY WorkApart DEF Deactivate, LifecycleCancelled, BeginInvocation
    <2>2. CASE Breach
      BY <2>2 DEF Breach
    <2>3. ASSUME NEW c \in Invocations, Cancel(c) \/ DropCall(c)
          PROVE  life' = life /\ calls[c].at = "waiting"
      BY <2>3 DEF Cancel, DropCall, HostOnly
    <2> QED BY <1>5, <2>1, <2>2, <2>3 DEF HostMay
  <1>6. ASSUME NEW w \in Work, HostImport(w)
        PROVE  life' = life /\ w \in Invocations /\ calls[w].at = "waiting"
    <2>1. w \in importing /\ w \notin Scopes
      BY <1>6, WorkApart DEF HostImport, FinishImport, TasksFit
    <2>2. w \in Invocations /\ calls[w].at = "waiting"
      BY <2>1, WorkApart DEF TasksFit
    <2> QED BY <1>6, <2>1, <2>2 DEF HostImport, FinishImport
  <1>7. ASSUME NEW c \in Invocations, HostCall(c)
        PROVE  /\ life' = life
               /\ \/ calls[c].at \in {"sending", "waiting"}
                  \/ UNCHANGED <<calls, pending>>
    BY <1>7 DEF HostCall, SendInvocation, TimerFires, TakeResult, TakeOutbound, TakeAck,
                TakeSettlement, Lost, Event, HostOnly
  <1> QED BY <1>1, <1>2, <1>3, <1>4, <1>5, <1>6, <1>7 DEF V2Next, HostNext

\* What has gone wrong, and a stop that has begun, is not undone.
LEMMA SessionMoves ==
  ASSUME SessionTypeOK, V2Next
  PROVE  (stopStarted => stopStarted') /\ (mishaps' = 0 => mishaps = 0)
  <1>0. mishaps \in Nat
    BY DEF SessionTypeOK
  <1>1. ASSUME HostNext
        PROVE  (stopStarted => stopStarted') /\ (mishaps' = mishaps \/ mishaps' = mishaps + 1)
    BY <1>1 DEF HostNext, HostReader, HostLife, HostMay, HostImport, HostCall, ReadLifecycle,
       ReadEvent, ReadFailure, ReaderGivesUp, BeginConstruct, BeginFactory, EndFactory, Activate,
       Monitor, Deactivate, SendStop, EndStop, Reap, LifecycleCancelled, LifecycleEvent,
       DropGeneration, BeginInvocation, SendInvocation, TakeResult,
       TakeOutbound, FinishImport, TakeAck, TakeSettlement, Lost, Cancel, DropCall, TimerFires, Breach,
       HostOnly, Mishap
  <1>2. CASE GuestNext /\ UNCHANGED session
    BY <1>2 DEF session
  <1>3. CASE Exit
    BY <1>0, <1>3 DEF Exit, Mishap
  <1> QED BY <1>0, <1>1, <1>2, <1>3 DEF V2Next

\* A dead child stays dead; what ended it stays true.
LEMMA DeadStays ==
  ASSUME SessionTypeOK, TasksFit, V2Next, ~Running,
         Cardinality(retired) >= MaxRetired \/ stopStarted \/ life = "refused"
  PROVE  Agreed'
  <1>1. life = "refused" => life' = "refused"
    BY RefusedStays
  <1>2. ~GuestNext
    BY DEF GuestNext, GuestMain, GuestThread, Initialize, Construct, Accept, OutboundResult,
           CancelArrives, Acknowledge, StopArrives, ReportConstruct, ReportStop, Receives, CallOut,
           LifecycleEnds, WriteResult, RetireId, Settle
  <1>3. retired' = retired
    BY <1>2 DEF V2Next, Exit, guest
  <1>4. ~Running'
    BY SessionStays DEF Running, SessionTypeOK
  <1>5. stopStarted => stopStarted'
    BY SessionMoves
  <1>6. Cardinality(retired') >= MaxRetired \/ stopStarted' \/ life' = "refused"
    BY <1>1, <1>3, <1>5
  <1> QED BY <1>4, <1>6 DEF Agreed

\* A step of the Host, or of its reader, with nothing going wrong ...
LEMMA HostAgrees ==
  ASSUME SessionTypeOK, Running, InOrder, HostNext, UNCHANGED guest, mishaps' = 0
  PROVE  Agreed'
  <1>0. \A fault : ~Mishap(fault)
    BY NoMishap
  <1>1. ASSUME InOrder' PROVE Agreed'
    <2>1. process' = process \/ isFailed'
      BY DEF HostNext, HostReader, HostLife, HostMay, HostImport, HostCall, ReadLifecycle,
         ReadEvent, ReadFailure, ReaderGivesUp, BeginConstruct, BeginFactory, EndFactory, Activate,
         Monitor, Deactivate, SendStop, EndStop, Reap, LifecycleCancelled, LifecycleEvent,
         DropGeneration, Abort, Kill, Untouched, BeginInvocation, SendInvocation, TakeResult,
         TakeOutbound, FinishImport, TakeAck, TakeSettlement, Lost, Cancel, DropCall, TimerFires,
         Breach, wire
    <2> QED BY <1>1, <2>1 DEF Agreed, Running, InOrder
  <1>2. CASE HostReader
    <2>1. ReadLifecycle \/ ReadEvent
      BY <1>2, ReaderKeepsOrder DEF HostReader
    <2>2. process' = process
      BY <2>1 DEF ReadLifecycle, ReadEvent
    <2>3. InOrder'
      BY <2>1, ReadLifecycleInOrder, EventInOrder
    <2> QED BY <2>2, <2>3 DEF Agreed, Running
  <1>3. CASE HostLife
    <2>1. CASE SendStop
      BY <1>1, <2>1, SendStopInOrder
    <2>2. CASE BeginConstruct
      BY <1>1, <2>2, BeginConstructInOrder
    <2>3. CASE BeginFactory
      BY <1>1, <2>3, BeginFactoryInOrder
    <2>4. CASE EndFactory
      BY <2>4, EndFactoryAgreed
    <2>5. CASE Activate
      BY <1>1, <2>5, LivesInOrder
    <2>6. CASE LifecycleEvent
      <3>1. /\ life \in Work /\ channel[life] # <<>> /\ life \notin Invocations
            /\ channel' = [channel EXCEPT ![life] = Tail(@)]
        BY <2>6, WorkApart DEF LifecycleEvent
      <3>2. Head(channel[life]).kind = "outbound" /\ Head(channel[life]).mark # Invalid
        BY <3>1, TaskTakes
      <3>3. /\ importing' = importing \union {life}
            /\ UNCHANGED <<process, toGuest, toHost, pending, slots, reply, isFailed, isStopped,
                           stopStarted, readerAt, life, calls, timers>>
        BY <2>6, <3>2 DEF LifecycleEvent, Untouched
      <3>4. PICK w \in Work : w = life
        BY <3>1
      <3>5. InOrder'
        BY <3>1, <3>2, <3>3, <3>4, TakeOutboundInOrder
      <3> QED BY <1>1, <3>5
    <2> QED BY <1>3, <2>1, <2>2, <2>3, <2>4, <2>5, <2>6, TasksKeepOrder DEF HostLife
  <1>4. CASE HostMay
    <2>1. Deactivate \/ \E c \in Invocations : BeginInvocation(c)
      BY <1>0, <1>4 DEF HostMay, LifecycleCancelled, Cancel, DropCall, Breach
    <2> QED BY <1>1, <2>1, LivesInOrder, BeginInOrder
  <1>5. ASSUME NEW w \in Work, HostImport(w) PROVE Agreed'
    BY <1>1, <1>5, FinishImportInOrder DEF HostImport
  <1>6. ASSUME NEW c \in Invocations, HostCall(c) PROVE Agreed'
    <2>1. CASE SendInvocation(c)
      BY <1>1, <2>1, SendInOrder
    <2>2. CASE TakeResult(c)
      BY <1>1, <2>2, TakeResultInOrder
    <2>3. CASE TakeSettlement(c)
      BY <1>1, <2>3, TakeSettlementInOrder
    <2>4. CASE TakeOutbound(c)
      <3>1. c \in Work /\ channel[c] # <<>> /\ Head(channel[c]).kind = "outbound"
        BY <2>4, WorkApart DEF TakeOutbound, Event
      <3>2. Head(channel[c]).mark # Invalid
        BY <3>1, TaskTakes
      <3>3. /\ importing' = importing \union {c} /\ channel' = [channel EXCEPT ![c] = Tail(@)]
            /\ UNCHANGED <<process, toGuest, toHost, pending, slots, reply, isFailed, isStopped,
                           stopStarted, readerAt, life, calls, timers>>
        BY <2>4, <3>2 DEF TakeOutbound, Untouched, Popped
      <3> QED BY <1>1, <3>1, <3>3, TakeOutboundInOrder
    <2> QED BY <1>6, <2>1, <2>2, <2>3, <2>4, TasksKeepOrder DEF HostCall
  <1> QED BY <1>2, <1>3, <1>4, <1>5, <1>6 DEF HostNext

\* ... or of the guest leaves the session in order, or ended for a reason.
LEMMA GuestAgrees ==
  ASSUME SessionTypeOK, Running, InOrder, GuestNext, UNCHANGED session PROVE Agreed'
  <1>1. CASE Initialize
    <2>1. Starts /\ toGuest = <<Message("initialize", "construct", "ok")>>
      BY <1>1 DEF InOrder, Initialize, Starts, Constructs, Serves
    <2>2. Head(toGuest).kind = "initialize"
      BY <2>1, OneFrame, MessageFields
    <2>3. process' = process
      BY <1>1, <2>2 DEF Initialize
    <2> QED BY <1>1, <2>3, InitializeInOrder DEF Agreed, Running
  <1>2. CASE Construct
    BY <1>2, ConstructInOrder DEF Agreed, Running
  <1>3. CASE Accept
    BY <1>3, AcceptAgreed
  <1>4. CASE OutboundResult
    BY <1>4, OutboundResultInOrder DEF Agreed, Running
  <1>5. CASE StopArrives \/ ReportStop
    BY <1>5, StopAgreed
  <1>6. CASE ReportConstruct
    BY <1>6, ReportConstructInOrder DEF ReportConstruct, Agreed, Running
  <1>7. ASSUME NEW w \in Work, GuestThread(w) PROVE Agreed'
    <2>1. process' = process
      BY <1>7 DEF GuestThread, CallOut, LifecycleEnds, WriteResult, RetireId, Settle
    <2>2. InOrder'
      BY <1>7, CallOutInOrder, LifecycleEndsInOrder, WriteResultInOrder, RetireInOrder, SettleInOrder
         DEF GuestThread
    <2> QED BY <2>1, <2>2 DEF Agreed, Running
  <1> QED BY <1>1, <1>2, <1>3, <1>4, <1>5, <1>6, <1>7, GuestKeepsOrder DEF GuestNext, GuestMain

\* Every step of two ends that keep to the protocol.
LEMMA SessionAgrees ==
  ASSUME SessionTypeOK, TasksFit, mishaps = 0 => Agreed, [V2Next]_v2vars
  PROVE  mishaps' = 0 => Agreed'
  <1> SUFFICES ASSUME mishaps' = 0 PROVE Agreed'
    OBVIOUS
  <1>1. CASE UNCHANGED v2vars
    BY <1>1 DEF v2vars, wire, session, guest, Agreed, Running, InOrder, Undisturbed, Starts,
       Constructs, Serves, Stops, Served, Ending, Settled, Works, CallsOut, Rests, Asked, Nowhere,
       HostKnows, Listening
  <1>2. CASE V2Next
    <2>1. Agreed
      BY <1>2, SessionMoves
    <2>2. CASE ~Running
      BY <1>2, <2>1, <2>2, DeadStays DEF Agreed
    <2>3. CASE Running /\ life = "refused"
      <3>1. ~InOrder
        BY <2>3 DEF InOrder, Starts, Constructs, Serves, Stops
      <3>2. \A c \in Invocations : calls[c].at = "new" /\ c \notin pending
        BY <2>1, <2>3, <3>1 DEF Agreed
      <3> QED BY <1>2, <2>3, <3>2, RefusedStays DEF Agreed
    <2>4. CASE Running /\ InOrder
      BY <1>2, <2>4, HostAgrees, GuestAgrees, NoMishap DEF V2Next, Exit
    <2> QED BY <2>1, <2>2, <2>3, <2>4 DEF Agreed
  <1> QED BY <1>1, <1>2

-----------------------------------------------------------------------------
(* The whole session                                                        *)

\* A session starts in order ...
LEMMA SessionStarts == V2Init => SessionInv
  <1> SUFFICES ASSUME V2Init PROVE SessionInv
    OBVIOUS
  <1> USE DEF V2Init, WireInit, HostInit, GuestInit
  <1>1. /\ <<>> \in Seq(HostFrames) /\ <<>> \in Seq(GuestFrames) /\ IsFiniteSet({})
        /\ Cardinality({}) = 0 /\ pending \intersect Invocations = {}
    BY EmptySeq, FS_EmptySet
  <1>2. SessionTypeOK
    <2>1. /\ toGuest \in Seq(HostFrames) /\ toHost \in Seq(GuestFrames)
          /\ channel \in [Work -> Seq(GuestFrames)]
      BY <1>1
    <2>2. /\ pending \subseteq Work /\ IsFiniteSet(pending)
          /\ Cardinality(pending \intersect Invocations) <= MaxPending
      BY <1>1, SessionAssumption
    <2>3. calls \in [Invocations -> CallStates] /\ mishaps \in Nat /\ outbounds \in Nat
      BY DEF CallStates
    <2>4. /\ active \subseteq Invocations /\ flagged \subseteq Work /\ retired \subseteq Invocations
          /\ IsFiniteSet(retired)
          /\ thread \in [Work -> {"none", "running", "calling", "written", "retired"}]
          /\ importing \subseteq Work /\ timers \subseteq Invocations /\ loopback \subseteq Scopes
      BY <1>1
    <2>5. main \in {<<"initialize">>, <<"loop">>} \union {"ack"} \X Work \X {"accepted", "rejected"}
      OBVIOUS
    <2> QED BY <2>1, <2>2, <2>3, <2>4, <2>5 DEF SessionTypeOK
  <1>3. TasksFit /\ LifecycleFits /\ Accounted
    BY WorkApart DEF TasksFit, NoChildLeft, LifecycleFits, Accounted
  <1>4. StopObeyed
    BY EmptyHolds DEF StopObeyed
  <1>5. \A w \in Work : Rests(w)
    BY FramesApart DEF Rests, Nowhere, HostKnows
  <1>6. \A c \in Invocations : Served(c)
    BY <1>5, WorkApart DEF Served, Listening
  <1>7. Starts
    BY DEF Starts
  <1>8. Undisturbed
    BY FramesSound DEF Undisturbed
  <1>9. InOrder
    BY <1>5, <1>6, <1>7, <1>8, WorkApart DEF InOrder
  <1> QED BY <1>2, <1>3, <1>4, <1>9 DEF SessionInv, Agreed, Running

\* ... and every step keeps what is said of it.
LEMMA SessionStep == ASSUME SessionInv, [V2Next]_v2vars PROVE SessionInv'
  <1>1. SessionTypeOK /\ TasksFit /\ LifecycleFits /\ StopObeyed /\ Accounted
    BY DEF SessionInv
  <1>2. SessionTypeOK' /\ TasksFit'
    BY <1>1, SessionStepTyped, SessionTasks
  <1>3. LifecycleFits' /\ StopObeyed' /\ Accounted'
    BY <1>1, SessionScopes, SessionObeys, SessionAccounts
  <1>4. mishaps' = 0 => Agreed'
    BY <1>1, SessionAgrees DEF SessionInv
  <1> QED BY <1>2, <1>3, <1>4 DEF SessionInv

\* The inductive invariant of a Process V2 session: the types, where the tasks of the Host may
\* be, the stop that is sent after the last invocation and obeyed when nothing is active, the
\* calls that are accounted for, and the order that two ends keep while nothing goes wrong.
THEOREM SessionHolds == V2Spec => []SessionInv
  <1>1. V2Init => SessionInv
    BY SessionStarts
  <1>2. SessionInv /\ [V2Next]_v2vars => SessionInv'
    BY SessionStep
  <1> QED BY <1>1, <1>2, PTL DEF V2Spec

\* Between two ends that keep to the protocol a generation fails for two reasons only, and one
\* that has ended leaves no child behind (serve_v2_io, deactivate, abort, drop).
THEOREM FailuresHaveCauses == V2Spec => []FailureHasCause
  <1>1. SessionInv => FailureHasCause
    BY DEF SessionInv, TasksFit, Agreed, InOrder, FailureHasCause
  <1> QED BY <1>1, SessionHolds, PTL

\* A call that nobody answers any more had its id retired, and was overtaken by a stop.
LEMMA StrandedWhen == ASSUME SessionInv PROVE StrandedOnlyByStop
  <1> SUFFICES ASSUME NEW c \in Invocations, Strands(c)
               PROVE  readerAt = "stopped" /\ c \in retired /\ stopStarted
    BY DEF StrandedOnlyByStop
  <1>1. /\ calls[c].at = "waiting" /\ channel[c] = <<>> /\ c \in pending
        /\ readerAt \in {"stopped", "failed"}
    BY DEF Strands
  <1>2. readerAt = "stopped"
    BY <1>1 DEF SessionInv, TasksFit
  <1>3. toHost = <<>> /\ stopStarted
    BY <1>2 DEF SessionInv, StopObeyed, StopSent
  <1>4. Settling(c)
    BY <1>1, <1>2 DEF SessionInv, Accounted, StopReported
  <1>5. c \in retired
    BY <1>1, <1>3, <1>4, EmptyHolds DEF Settling
  <1> QED BY <1>2, <1>3, <1>5

\* An entry outlives its invocation only after something went wrong or the child died, and the
\* thread that answers entries only when a stop overtakes a settlement (invoke, spawn_reader).
THEOREM OwnersOfEntries == V2Spec => []EntriesHaveOwners
  <1>1. SessionInv => EntriesHaveOwners
    <2> SUFFICES ASSUME SessionInv PROVE EntriesHaveOwners
      OBVIOUS
    <2>1. StrandedOnlyByStop
      BY StrandedWhen
    <2>2. ASSUME NEW c \in Invocations, c \in pending, mishaps = 0, Running PROVE Listening(c)
      BY <2>2 DEF SessionInv, Agreed, InOrder, Served
    <2> QED BY <2>1, <2>2 DEF EntriesHaveOwners
  <1> QED BY <1>1, SessionHolds, PTL
=============================================================================
