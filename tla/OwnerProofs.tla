----------------------------- MODULE OwnerProofs -----------------------------
(***************************************************************************)
(* Owners: of the roots of process groups, of one process group, of a Host, *)
(* and of a generation.                                                     *)
(*                                                                          *)
(* A root has one execution, and a confirmed end frees it: for any number   *)
(* of owners, paths, directories and renames.  What makes both inductive:   *)
(* who works on a record has its file locked (Holding), a file has one      *)
(* owner (Exclusive), and a live group's records say so while nobody else   *)
(* has its files (Kept), also when its owner is gone.                       *)
(*                                                                          *)
(* A confirmed end is one, and no signal goes to a group that may be        *)
(* somebody else's: for queues of any capacity and any number of frames     *)
(* and faults.  What makes it inductive is the order of settlement: the     *)
(* leader is unreaped until the group was killed (Unreaped); a verdict      *)
(* "confirmed" needs an absent group, the record, the release and the       *)
(* event, each after the one before (Ordered).                              *)
(*                                                                          *)
(* The owner of a Host is told the truth: for any number of requests and    *)
(* changes of the Host.  What makes it inductive: what is on the line to be *)
(* said fits what has been said (ServeFits), and ids grow from the answers  *)
(* over the request being answered to those that wait (IdsGrow).            *)
(*                                                                          *)
(* Callers of the Controller are told the truth: for any number of calls    *)
(* and any channel capacity.  ControllerInv says which calls can be told    *)
(* what: only commands are queued, handled or owed a reply, and a caller of *)
(* drain_and_suspend hears nothing before the Controller has ended.         *)
(***************************************************************************)
EXTENDS RootGuard, ProcessOwner, ApplicationControl, Controller, SequenceTheorems, TLAPS

-----------------------------------------------------------------------------
(* The roots                                                                *)

\* An owner comes to its files in order; it has both of them while it works on their records.
Holding(o) ==
  /\ helper[o] = "look" => turn[o] = 1
  /\ helper[o] \in {"look", "done"} => locked[o] = {}
  /\ helper[o] = "lock" => locked[o] = IF turn[o] = 1 THEN {} ELSE {1}
  /\ helper[o] \notin {"look", "lock", "done"} => locked[o] = Files

Exclusive ==
  \A o, p \in Owners : o # p =>
    \A i \in locked[o] : \A j \in locked[p] : Key(o, i) # Key(p, j)

\* What the two records say at each step of their owner.
Written(o) ==
  /\ helper[o] = "mark" /\ turn[o] = 2 => records[Key(o, 1)] \in Uncertain
  /\ helper[o] = "spawn" => \A i \in Files : records[Key(o, i)] \in Uncertain
  /\ helper[o] \in {"settle", "cut"} /\ turn[o] = 2 => records[Key(o, 1)] = "settled"
  /\ helper[o] = "release" /\ turn[o] = 2 => \A i \in Files : records[Key(o, i)] = "settled"

\* An owner is told the end last, and has no group before it has spawned one.
Phase(o) ==
  /\ helper[o] # "done" => told[o] = "nothing"
  /\ group[o] # "none" => helper[o] \notin {"look", "lock", "mark", "spawn"}

Kept(o) ==
  group[o] = "alive" =>
    /\ helper[o] \in {"run", "release", "done"}
    /\ helper[o] = "release" => turn[o] = 1
    /\ \A i \in Files : records[Key(o, i)] \in Uncertain
    /\ \A p \in Owners : o # p => \A j \in locked[p] : Key(p, j) \notin KeysOf(o)

GuardInv ==
  /\ GuardTypeOK /\ Exclusive
  /\ \A o \in Owners : Holding(o) /\ Written(o) /\ Phase(o) /\ Kept(o)
  /\ OneExecution /\ ConfirmationFrees

-----------------------------------------------------------------------------
\* A key names a file of the registry, and the two files of a root are two.
LEMMA KeyFacts ==
  ASSUME GuardTypeOK
  PROVE  /\ \A o \in Owners : \A i \in Files : Key(o, i) \in Keys
         /\ \A o, p \in Owners : Key(o, 1) # Key(p, 2)
         /\ \A o \in Owners : KeysOf(o) = {Key(o, 1), Key(o, 2)}
BY DEF GuardTypeOK, Key, Keys, KeysOf, Files

\* A new owner has nothing, and every record is free.
LEMMA GuardInitially == GuardInit => GuardInv
BY DEF GuardInit, GuardInv, GuardTypeOK, Exclusive, Holding, Written, Phase, Kept, OneExecution,
       ConfirmationFrees, Files, Free, Uncertain, Steps

\* Two owners at work on their records have four different files.
Working(o) == helper[o] \notin {"look", "lock", "done"}

LEMMA Disjoint ==
  ASSUME GuardInv, NEW o \in Owners, NEW p \in Owners, o # p, Working(o), Working(p)
  PROVE  \A i, j \in Files : Key(o, i) # Key(p, j)
BY DEF GuardInv, Exclusive, Holding, Working

\* What an owner knows of its records holds while it stands still and they do.
LEMMA WrittenStays ==
  ASSUME GuardInv, NEW p \in Owners, UNCHANGED <<root, inode>>,
         helper'[p] = helper[p], turn'[p] = turn[p],
         Working(p) => \A i \in Files : records'[Key(p, i)] = records[Key(p, i)]
  PROVE  Written(p)'
<1>1. \A i \in Files : Key(p, i)' = Key(p, i)
  BY DEF Key, Files
<1>2. CASE Working(p)
  BY <1>1, <1>2 DEF GuardInv, Written, Files
<1>3. CASE ~Working(p)
  BY <1>3 DEF Written, Working
<1> QED
  BY <1>2, <1>3

\* A live group keeps its records while its owner stands still, they do, and whoever takes a file
\* takes one of another root.
LEMMA KeptStays ==
  ASSUME GuardInv, NEW p \in Owners, UNCHANGED <<root, inode>>,
         group'[p] = "alive" => group[p] = "alive",
         group'[p] = "alive" => \/ helper'[p] = helper[p] /\ turn'[p] = turn[p]
                                \/ helper'[p] = "release" /\ turn'[p] = 1
                                \/ helper'[p] = "done",
         group[p] = "alive" => \A i \in Files : records'[Key(p, i)] = records[Key(p, i)],
         group[p] = "alive" => \A q \in Owners : p # q =>
           \A j \in locked'[q] : j \in locked[q] \/ Key(q, j) \notin KeysOf(p)
  PROVE  Kept(p)'
<1>1. \A q \in Owners : \A i : Key(q, i)' = Key(q, i)
  BY DEF Key
<1>2. KeysOf(p)' = KeysOf(p)
  BY <1>1 DEF KeysOf
<1>3. SUFFICES ASSUME group'[p] = "alive" PROVE Kept(p)'
  BY DEF Kept
<1>4. Kept(p) /\ group[p] = "alive"
  BY <1>3 DEF GuardInv
<1>5. helper'[p] \in {"run", "release", "done"} /\ (helper'[p] = "release" => turn'[p] = 1)
  BY <1>3, <1>4 DEF Kept
<1>6. \A i \in Files : records'[Key(p, i)'] \in Uncertain
  BY <1>1, <1>4 DEF Kept
<1>7. \A q \in Owners : p # q => \A j \in locked'[q] : Key(q, j)' \notin KeysOf(p)'
  BY <1>1, <1>2, <1>4 DEF Kept
<1> QED
  BY <1>5, <1>6, <1>7 DEF Kept

\* Owners that work on their records write into nobody's that has a live group.
LEMMA KeptApart ==
  ASSUME GuardInv, NEW o \in Owners, NEW p \in Owners, o # p, Working(o), group[p] = "alive"
  PROVE  \A i, j \in Files : Key(o, i) # Key(p, j)
<1>1. locked[o] = Files
  BY DEF GuardInv, Holding, Working
<1>2. \A i \in Files : Key(o, i) \notin KeysOf(p)
  BY <1>1 DEF GuardInv, Kept
<1> QED
  BY <1>2 DEF KeysOf

\* Groups execute in the roots they did while none is spawned.
LEMMA ExecutionStays ==
  ASSUME GuardInv, UNCHANGED <<root, inode>>,
         \A p \in Owners : group'[p] = "alive" => group[p] = "alive"
  PROVE  OneExecution'
<1>1. \A p \in Owners : KeysOf(p)' = KeysOf(p)
  BY DEF KeysOf, Key
<1> QED
  BY <1>1 DEF GuardInv, OneExecution

\* A file is closed by the owner it was closed by, while none is told of its end.
LEMMA ConfirmationStays ==
  ASSUME GuardInv, UNCHANGED <<root, inode>>,
         \A k \in Keys : records'[k] \in Uncertain => records[k] \in Uncertain,
         \A p \in Owners : told[p] # "confirmed" /\ helper[p] \notin {"look", "lock"}
                              => told'[p] # "confirmed" /\ helper'[p] \notin {"look", "lock"}
  PROVE  ConfirmationFrees'
<1>1. \A p \in Owners : KeysOf(p)' = KeysOf(p)
  BY DEF KeysOf, Key
<1> QED
  BY <1>1 DEF GuardInv, ConfirmationFrees

\* The inode that an owner finds may be another's: it has no lock yet.
LEMMA LookKeeps == ASSUME GuardInv, NEW o \in Owners, Look(o) PROVE GuardInv'
<1> USE DEF GuardInv, Look, Goes, Files
<1>1. GuardTypeOK'
  BY KeyFacts DEF GuardTypeOK, Steps, Free, Uncertain
<1>2. \A p \in Owners : Holding(p)'
  BY <1>1 DEF Holding, GuardTypeOK
<1>3. \A p \in Owners : Phase(p)'
  BY <1>1 DEF Phase, Holding, GuardTypeOK
<1>4. Exclusive'
  BY <1>1 DEF Exclusive, Holding, Key, GuardTypeOK
<1>5. \A p \in Owners : Written(p)'
  <2>1. ASSUME NEW p \in Owners, p # o PROVE Written(p)'
    <3>1. \A i \in Files : Key(p, i)' = Key(p, i)
      BY <2>1 DEF Key, GuardTypeOK
    <3> QED
      BY <2>1, <3>1 DEF Written, GuardTypeOK
  <2>2. Written(o)'
    BY DEF Written, GuardTypeOK
  <2> QED
    BY <2>1, <2>2
<1>6. \A p \in Owners : Kept(p)'
  <2>1. ASSUME NEW p \in Owners, p # o
        PROVE  \A i \in Files : Key(p, i)' = Key(p, i) /\ KeysOf(p)' = KeysOf(p)
    BY <2>1 DEF Key, KeysOf, GuardTypeOK
  <2>2. group[o] # "alive" /\ locked'[o] = {} /\ group' = group /\ locked' = locked
        /\ records' = records
    BY DEF Kept, Holding
  <2> QED
    BY <2>1, <2>2 DEF Kept, GuardTypeOK
<1>7. OneExecution'
  <2>1. ASSUME NEW p \in Owners, p # o PROVE KeysOf(p)' = KeysOf(p)
    BY <2>1 DEF Key, KeysOf, GuardTypeOK
  <2>2. group[o] # "alive"
    BY DEF Kept
  <2> QED
    BY <2>1, <2>2 DEF OneExecution
<1>8. ConfirmationFrees'
  <2>1. ASSUME NEW k \in Keys, records[k] \in Uncertain
        PROVE  \E p \in Owners : /\ k \in KeysOf(p)' /\ told'[p] # "confirmed"
                                 /\ helper'[p] \notin {"look", "lock"}
    <3>1. PICK p \in Owners : k \in KeysOf(p) /\ told[p] # "confirmed"
          /\ helper[p] \notin {"look", "lock"}
      BY <2>1 DEF ConfirmationFrees
    <3>2. p # o
      BY <3>1
    <3>3. KeysOf(p)' = KeysOf(p)
      BY <3>2 DEF Key, KeysOf, GuardTypeOK
    <3> QED
      BY <3>1, <3>2, <3>3 DEF GuardTypeOK
  <2> QED
    BY <2>1 DEF ConfirmationFrees
<1> QED
  BY <1>1, <1>2, <1>3, <1>4, <1>5, <1>6, <1>7, <1>8

\* A file that is locked was free, and so is no live group's.
LEMMA LockKeeps == ASSUME GuardInv, NEW o \in Owners, Lock(o) PROVE GuardInv'
<1> USE DEF GuardInv, Lock, Goes, Files, Unlocked
<1>0. \A p \in Owners : \A i \in Files : Key(p, i)' = Key(p, i) /\ KeysOf(p)' = KeysOf(p)
  BY DEF Key, KeysOf
<1>1. GuardTypeOK'
  BY KeyFacts DEF GuardTypeOK, Steps, Free, Uncertain
<1>2. \A p \in Owners : Holding(p)'
  <2>1. ASSUME NEW p \in Owners, p # o PROVE Holding(p)'
    BY <2>1 DEF Holding, GuardTypeOK
  <2>2. Holding(o)'
    BY DEF Holding, GuardTypeOK
  <2> QED
    BY <2>1, <2>2
<1>3. \A p \in Owners : Phase(p)'
  BY <1>1 DEF Phase, Holding, GuardTypeOK
<1>4. Exclusive'
  <2>1. ASSUME NEW p \in Owners, NEW i \in locked'[o], NEW j \in locked[p], p # o
        PROVE  Key(o, i) # Key(p, j)
    <3>1. i \in locked[o] \/ i = turn[o]
      BY <2>1 DEF GuardTypeOK
    <3> QED
      BY <2>1, <3>1 DEF Exclusive, GuardTypeOK
  <2>2. \A p \in Owners : p # o => locked'[p] = locked[p]
    BY DEF GuardTypeOK
  <2>3. ASSUME NEW p \in Owners, NEW q \in Owners, p # q, NEW i \in locked'[p], NEW j \in locked'[q]
        PROVE  Key(p, i) # Key(q, j)
    <3>1. CASE p = o
      BY <2>1, <2>2, <2>3, <3>1
    <3>2. CASE q = o
      BY <2>1, <2>2, <2>3, <3>2
    <3>3. CASE p # o /\ q # o
      BY <2>2, <2>3, <3>3 DEF Exclusive
    <3> QED
      BY <3>1, <3>2, <3>3
  <2>4. \A p \in Owners : locked'[p] \subseteq Files
    BY <1>1 DEF GuardTypeOK
  <2> QED
    BY <1>0, <2>3, <2>4 DEF Exclusive
<1>5. \A p \in Owners : Written(p)'
  <2>1. ASSUME NEW p \in Owners, p # o PROVE Written(p)'
    BY <2>1, WrittenStays DEF GuardTypeOK
  <2>2. Written(o)'
    BY <1>0, <1>1 DEF Written, Holding, GuardTypeOK
  <2> QED
    BY <2>1, <2>2
<1>6. \A p \in Owners : Kept(p)'
  <2>1. group[o] # "alive" /\ UNCHANGED <<root, inode, group, records>>
    BY DEF Kept
  <2>2. Kept(o)'
    BY <2>1 DEF Kept
  <2>3. ASSUME NEW p \in Owners, p # o PROVE Kept(p)'
    <3>1. helper'[p] = helper[p] /\ turn'[p] = turn[p]
      BY <2>3 DEF GuardTypeOK
    <3>2. group[p] = "alive" => Key(o, turn[o]) \notin KeysOf(p)
      BY DEF Kept, KeysOf, Free, Uncertain
    <3>3. \A q \in Owners : \A j \in locked'[q] : j \in locked[q] \/ (q = o /\ j = turn[o])
      <4>1. ASSUME NEW q \in Owners, q # o PROVE locked'[q] = locked[q]
        BY <4>1 DEF GuardTypeOK
      <4>2. locked'[o] = locked[o] \union {turn[o]}
        BY DEF GuardTypeOK
      <4> QED
        BY <4>1, <4>2
    <3> QED
      BY <2>1, <3>1, <3>2, <3>3, KeptStays DEF Kept
  <2> QED
    BY <2>2, <2>3
<1>7. OneExecution'
  BY ExecutionStays DEF GuardTypeOK
<1>8. ConfirmationFrees'
  BY ConfirmationStays, KeyFacts DEF GuardTypeOK, Uncertain
<1> QED
  BY <1>1, <1>2, <1>3, <1>4, <1>5, <1>6, <1>7, <1>8

\* Only the owner's own records change, which nobody else works on.
LEMMA MarkKeeps == ASSUME GuardInv, NEW o \in Owners, Mark(o) PROVE GuardInv'
<1> USE DEF GuardInv, Mark, Goes, Files
<1>0. \A p \in Owners : \A i \in Files : Key(p, i)' = Key(p, i) /\ KeysOf(p)' = KeysOf(p)
  BY DEF Key, KeysOf
<1>1. GuardTypeOK'
  BY KeyFacts DEF GuardTypeOK, Steps, Free, Uncertain
<1>2. \A p \in Owners : Holding(p)'
  BY <1>1 DEF Holding, GuardTypeOK
<1>3. \A p \in Owners : Phase(p)'
  BY <1>1 DEF Phase, Holding, GuardTypeOK
<1>4. Exclusive'
  BY <1>0, <1>1 DEF Exclusive, Holding, GuardTypeOK
<1>5. \A p \in Owners : Written(p)'
  <2>1. ASSUME NEW p \in Owners, p # o PROVE Written(p)'
    <3>1. Working(o)
      BY DEF Working
    <3>2. ASSUME Working(p) PROVE \A i \in Files : records'[Key(p, i)] = records[Key(p, i)]
      BY <2>1, <3>1, <3>2, Disjoint DEF GuardTypeOK
    <3> QED
      BY <2>1, <3>2, WrittenStays DEF GuardTypeOK
  <2>2. Written(o)'
    BY <1>0, <1>1, KeyFacts DEF Written, Holding, GuardTypeOK, Uncertain
  <2> QED
    BY <2>1, <2>2
<1>6. \A p \in Owners : Kept(p)'
  <2>1. group[o] # "alive" /\ UNCHANGED <<root, inode, group, locked>>
    BY DEF Kept
  <2>2. Kept(o)'
    BY <2>1 DEF Kept
  <2>3. ASSUME NEW p \in Owners, p # o PROVE Kept(p)'
    <3>1. helper'[p] = helper[p] /\ turn'[p] = turn[p]
      BY <2>3 DEF GuardTypeOK
    <3>2. Working(o) /\ turn[o] \in Files
      BY DEF Working, GuardTypeOK
    <3>3. ASSUME group[p] = "alive" PROVE \A i \in Files : records'[Key(p, i)] = records[Key(p, i)]
      BY <2>3, <3>2, <3>3, KeptApart, KeyFacts DEF GuardTypeOK
    <3> QED
      BY <2>1, <3>1, <3>3, KeptStays
  <2> QED
    BY <2>2, <2>3
<1>7. OneExecution'
  BY ExecutionStays DEF GuardTypeOK
<1>8. ConfirmationFrees'
  <2>1. SUFFICES ASSUME NEW k \in Keys, records'[k] \in Uncertain
                 PROVE  \E p \in Owners : /\ k \in KeysOf(p) /\ told'[p] # "confirmed"
                                          /\ helper'[p] \notin {"look", "lock"}
    BY <1>0 DEF ConfirmationFrees
  <2>2. CASE k = Key(o, turn[o])
    BY <2>2 DEF KeysOf, Phase, GuardTypeOK
  <2>3. CASE k # Key(o, turn[o])
    <3>1. PICK p \in Owners : k \in KeysOf(p) /\ told[p] # "confirmed"
          /\ helper[p] \notin {"look", "lock"}
      BY <2>1, <2>3 DEF ConfirmationFrees, GuardTypeOK
    <3> QED
      BY <3>1 DEF GuardTypeOK
  <2> QED
    BY <2>2, <2>3
<1> QED
  BY <1>1, <1>2, <1>3, <1>4, <1>5, <1>6, <1>7, <1>8

\* An owner that spawns has both files: no live group has one of them.
LEMMA SpawnKeeps == ASSUME GuardInv, NEW o \in Owners, Spawn(o) PROVE GuardInv'
<1> USE DEF GuardInv, Spawn, Goes, Files
<1>0. \A p \in Owners : \A i \in Files : Key(p, i)' = Key(p, i) /\ KeysOf(p)' = KeysOf(p)
  BY DEF Key, KeysOf
<1>1. GuardTypeOK'
  BY KeyFacts DEF GuardTypeOK, Steps, Free, Uncertain
<1>2. \A p \in Owners : Holding(p)'
  BY <1>1 DEF Holding, GuardTypeOK
<1>3. \A p \in Owners : Phase(p)'
  BY <1>1 DEF Phase, Holding, GuardTypeOK
<1>4. Exclusive'
  BY <1>0, <1>1 DEF Exclusive, Holding, GuardTypeOK
<1>5. \A p \in Owners : Written(p)'
  <2>1. ASSUME NEW p \in Owners, p # o PROVE Written(p)'
    BY <2>1, WrittenStays DEF GuardTypeOK
  <2>2. Written(o)'
    BY <1>0, <1>1 DEF Written, Holding, GuardTypeOK
  <2> QED
    BY <2>1, <2>2
<1>6. \A p \in Owners : Kept(p)'
  <2>1. ASSUME NEW p \in Owners, p # o PROVE Kept(p)'
    BY <1>0, <2>1 DEF Kept, GuardTypeOK
  <2>2. ASSUME group'[o] = "alive"
        PROVE  \A p \in Owners : o # p => \A j \in locked[p] : Key(p, j) \notin KeysOf(o)
    BY KeyFacts DEF Exclusive, Holding, KeysOf
  <2>3. Kept(o)'
    BY <1>0, <2>2 DEF Kept, Written, GuardTypeOK
  <2> QED
    BY <2>1, <2>3
<1>7. OneExecution'
  <2>1. ASSUME NEW p \in Owners, p # o, group[p] = "alive"
        PROVE  KeysOf(o) \intersect KeysOf(p) = {}
    BY <2>1 DEF Kept, Holding, KeysOf
  <2> QED
    BY <1>0, <2>1 DEF OneExecution, GuardTypeOK
<1>8. ConfirmationFrees'
  BY ConfirmationStays, KeyFacts DEF GuardTypeOK, Uncertain
<1> QED
  BY <1>1, <1>2, <1>3, <1>4, <1>5, <1>6, <1>7, <1>8

\* A group that is gone has left its records as they were.
LEMMA DiesKeeps == ASSUME GuardInv, NEW o \in Owners, Dies(o) PROVE GuardInv'
<1> USE DEF GuardInv, Dies, Goes, Files
<1>0. \A p \in Owners : \A i \in Files : Key(p, i)' = Key(p, i) /\ KeysOf(p)' = KeysOf(p)
  BY DEF Key, KeysOf
<1>1. GuardTypeOK'
  BY KeyFacts DEF GuardTypeOK, Steps, Free, Uncertain
<1>2. \A p \in Owners : Holding(p)'
  BY <1>1 DEF Holding, GuardTypeOK
<1>3. \A p \in Owners : Phase(p)'
  BY <1>1 DEF Phase, Holding, GuardTypeOK
<1>4. Exclusive'
  BY <1>0, <1>1 DEF Exclusive, Holding, GuardTypeOK
<1>5. \A p \in Owners : Written(p)'
  <2>1. ASSUME NEW p \in Owners, p # o PROVE Written(p)'
    BY <2>1, WrittenStays DEF GuardTypeOK
  <2>2. Written(o)'
    BY <1>0, <1>1 DEF Written, Holding, GuardTypeOK
  <2> QED
    BY <2>1, <2>2
<1>6. ASSUME NEW p \in Owners PROVE Kept(p)'
  <2>1. UNCHANGED <<root, inode, records>> /\ \A q \in Owners : locked'[q] \subseteq locked[q]
    BY DEF GuardTypeOK
  <2>2. group'[p] = "alive" => group[p] = "alive"
    BY DEF GuardTypeOK
  <2>3. ASSUME group'[p] = "alive"
        PROVE  \/ helper'[p] = helper[p] /\ turn'[p] = turn[p]
               \/ helper'[p] = "release" /\ turn'[p] = 1
               \/ helper'[p] = "done"
    BY <2>3 DEF GuardTypeOK
  <2> QED
    BY <2>1, <2>2, <2>3, KeptStays DEF Kept
<1>7. OneExecution'
  BY ExecutionStays DEF GuardTypeOK
<1>8. ConfirmationFrees'
  BY ConfirmationStays, KeyFacts DEF GuardTypeOK, Uncertain
<1> QED
  BY <1>1, <1>2, <1>3, <1>4, <1>5, <1>6, <1>7, <1>8

\* A helper that goes on to settle has seen its group gone.
LEMMA ConfirmKeeps == ASSUME GuardInv, NEW o \in Owners, Confirm(o) PROVE GuardInv'
<1> USE DEF GuardInv, Confirm, Goes, Files
<1>0. \A p \in Owners : \A i \in Files : Key(p, i)' = Key(p, i) /\ KeysOf(p)' = KeysOf(p)
  BY DEF Key, KeysOf
<1>1. GuardTypeOK'
  BY KeyFacts DEF GuardTypeOK, Steps, Free, Uncertain
<1>2. \A p \in Owners : Holding(p)'
  BY <1>1 DEF Holding, GuardTypeOK
<1>3. \A p \in Owners : Phase(p)'
  BY <1>1 DEF Phase, Holding, GuardTypeOK
<1>4. Exclusive'
  BY <1>0, <1>1 DEF Exclusive, Holding, GuardTypeOK
<1>5. \A p \in Owners : Written(p)'
  <2>1. ASSUME NEW p \in Owners, p # o PROVE Written(p)'
    BY <2>1, WrittenStays DEF GuardTypeOK
  <2>2. Written(o)'
    BY <1>0, <1>1 DEF Written, Holding, GuardTypeOK
  <2> QED
    BY <2>1, <2>2
<1>6. ASSUME NEW p \in Owners PROVE Kept(p)'
  <2>1. UNCHANGED <<root, inode, records>> /\ \A q \in Owners : locked'[q] \subseteq locked[q]
    BY DEF GuardTypeOK
  <2>2. group'[p] = "alive" => group[p] = "alive"
    BY DEF GuardTypeOK
  <2>3. ASSUME group'[p] = "alive"
        PROVE  \/ helper'[p] = helper[p] /\ turn'[p] = turn[p]
               \/ helper'[p] = "release" /\ turn'[p] = 1
               \/ helper'[p] = "done"
    BY <2>3 DEF GuardTypeOK
  <2> QED
    BY <2>1, <2>2, <2>3, KeptStays DEF Kept
<1>7. OneExecution'
  BY ExecutionStays DEF GuardTypeOK
<1>8. ConfirmationFrees'
  BY ConfirmationStays, KeyFacts DEF GuardTypeOK, Uncertain
<1> QED
  BY <1>1, <1>2, <1>3, <1>4, <1>5, <1>6, <1>7, <1>8

\* A record that is torn counts as unconfirmed.
LEMMA OverwriteKeeps == ASSUME GuardInv, NEW o \in Owners, Overwrite(o) PROVE GuardInv'
<1> USE DEF GuardInv, Overwrite, Goes, Files
<1>0. \A p \in Owners : \A i \in Files : Key(p, i)' = Key(p, i) /\ KeysOf(p)' = KeysOf(p)
  BY DEF Key, KeysOf
<1>1. GuardTypeOK'
  BY KeyFacts DEF GuardTypeOK, Steps, Free, Uncertain
<1>2. \A p \in Owners : Holding(p)'
  BY <1>1 DEF Holding, GuardTypeOK
<1>3. \A p \in Owners : Phase(p)'
  BY <1>1 DEF Phase, Holding, GuardTypeOK
<1>4. Exclusive'
  BY <1>0, <1>1 DEF Exclusive, Holding, GuardTypeOK
<1>5. \A p \in Owners : Written(p)'
  <2>1. ASSUME NEW p \in Owners, p # o PROVE Written(p)'
    <3>1. Working(o)
      BY DEF Working
    <3>2. ASSUME Working(p) PROVE \A i \in Files : records'[Key(p, i)] = records[Key(p, i)]
      BY <2>1, <3>1, <3>2, Disjoint DEF GuardTypeOK
    <3> QED
      BY <2>1, <3>2, WrittenStays DEF GuardTypeOK
  <2>2. Written(o)'
    BY <1>0, <1>1, KeyFacts DEF Written, Holding, GuardTypeOK, Uncertain
  <2> QED
    BY <2>1, <2>2
<1>6. \A p \in Owners : Kept(p)'
  <2>1. group[o] # "alive" /\ UNCHANGED <<root, inode, group, locked>>
    BY DEF Kept
  <2>2. Kept(o)'
    BY <2>1 DEF Kept
  <2>3. ASSUME NEW p \in Owners, p # o PROVE Kept(p)'
    <3>1. helper'[p] = helper[p] /\ turn'[p] = turn[p]
      BY <2>3 DEF GuardTypeOK
    <3>2. Working(o) /\ turn[o] \in Files
      BY DEF Working, GuardTypeOK
    <3>3. ASSUME group[p] = "alive" PROVE \A i \in Files : records'[Key(p, i)] = records[Key(p, i)]
      BY <2>3, <3>2, <3>3, KeptApart, KeyFacts DEF GuardTypeOK
    <3> QED
      BY <2>1, <3>1, <3>3, KeptStays
  <2> QED
    BY <2>2, <2>3
<1>7. OneExecution'
  BY ExecutionStays DEF GuardTypeOK
<1>8. ConfirmationFrees'
  <2>1. SUFFICES ASSUME NEW k \in Keys, records'[k] \in Uncertain
                 PROVE  \E p \in Owners : /\ k \in KeysOf(p) /\ told'[p] # "confirmed"
                                          /\ helper'[p] \notin {"look", "lock"}
    BY <1>0 DEF ConfirmationFrees
  <2>2. CASE k = Key(o, turn[o])
    BY <2>2 DEF KeysOf, Phase, GuardTypeOK
  <2>3. CASE k # Key(o, turn[o])
    <3>1. PICK p \in Owners : k \in KeysOf(p) /\ told[p] # "confirmed"
          /\ helper[p] \notin {"look", "lock"}
      BY <2>1, <2>3 DEF ConfirmationFrees, GuardTypeOK
    <3> QED
      BY <3>1 DEF GuardTypeOK
  <2> QED
    BY <2>2, <2>3
<1> QED
  BY <1>1, <1>2, <1>3, <1>4, <1>5, <1>6, <1>7, <1>8

\* A record is settled after its group is gone, and by the one who has it locked.
LEMMA CutKeeps == ASSUME GuardInv, NEW o \in Owners, Cut(o) PROVE GuardInv'
<1> USE DEF GuardInv, Cut, Goes, Files
<1>0. \A p \in Owners : \A i \in Files : Key(p, i)' = Key(p, i) /\ KeysOf(p)' = KeysOf(p)
  BY DEF Key, KeysOf
<1>1. GuardTypeOK'
  BY KeyFacts DEF GuardTypeOK, Steps, Free, Uncertain
<1>2. \A p \in Owners : Holding(p)'
  BY <1>1 DEF Holding, GuardTypeOK
<1>3. \A p \in Owners : Phase(p)'
  BY <1>1 DEF Phase, Holding, GuardTypeOK
<1>4. Exclusive'
  BY <1>0, <1>1 DEF Exclusive, Holding, GuardTypeOK
<1>5. \A p \in Owners : Written(p)'
  <2>1. ASSUME NEW p \in Owners, p # o PROVE Written(p)'
    <3>1. Working(o)
      BY DEF Working
    <3>2. ASSUME Working(p) PROVE \A i \in Files : records'[Key(p, i)] = records[Key(p, i)]
      BY <2>1, <3>1, <3>2, Disjoint DEF GuardTypeOK
    <3> QED
      BY <2>1, <3>2, WrittenStays DEF GuardTypeOK
  <2>2. Written(o)'
    BY <1>0, <1>1, KeyFacts DEF Written, Holding, GuardTypeOK, Uncertain
  <2> QED
    BY <2>1, <2>2
<1>6. \A p \in Owners : Kept(p)'
  <2>1. group[o] # "alive" /\ UNCHANGED <<root, inode, group, locked>>
    BY DEF Kept
  <2>2. Kept(o)'
    BY <2>1 DEF Kept
  <2>3. ASSUME NEW p \in Owners, p # o PROVE Kept(p)'
    <3>1. helper'[p] = helper[p] /\ turn'[p] = turn[p]
      BY <2>3 DEF GuardTypeOK
    <3>2. Working(o) /\ turn[o] \in Files
      BY DEF Working, GuardTypeOK
    <3>3. ASSUME group[p] = "alive" PROVE \A i \in Files : records'[Key(p, i)] = records[Key(p, i)]
      BY <2>3, <3>2, <3>3, KeptApart, KeyFacts DEF GuardTypeOK
    <3> QED
      BY <2>1, <3>1, <3>3, KeptStays
  <2> QED
    BY <2>2, <2>3
<1>7. OneExecution'
  BY ExecutionStays DEF GuardTypeOK
<1>8. ConfirmationFrees'
  BY ConfirmationStays, KeyFacts DEF GuardTypeOK, Uncertain
<1> QED
  BY <1>1, <1>2, <1>3, <1>4, <1>5, <1>6, <1>7, <1>8

\* Who is told of a confirmed end has settled both records.
LEMMA ReleaseKeeps == ASSUME GuardInv, NEW o \in Owners, Release(o) PROVE GuardInv'
<1> USE DEF GuardInv, Release, Goes, Files, Verdict
<1>0. \A p \in Owners : \A i \in Files : Key(p, i)' = Key(p, i) /\ KeysOf(p)' = KeysOf(p)
  BY DEF Key, KeysOf
<1>1. GuardTypeOK'
  BY KeyFacts DEF GuardTypeOK, Steps, Free, Uncertain
<1>2. \A p \in Owners : Holding(p)'
  BY <1>1 DEF Holding, GuardTypeOK
<1>3. \A p \in Owners : Phase(p)'
  BY <1>1 DEF Phase, Holding, GuardTypeOK
<1>4. Exclusive'
  BY <1>0, <1>1 DEF Exclusive, Holding, GuardTypeOK
<1>5. \A p \in Owners : Written(p)'
  <2>1. ASSUME NEW p \in Owners, p # o PROVE Written(p)'
    BY <2>1, WrittenStays DEF GuardTypeOK
  <2>2. Written(o)'
    BY <1>0, <1>1 DEF Written, Holding, GuardTypeOK
  <2> QED
    BY <2>1, <2>2
<1>6. ASSUME NEW p \in Owners PROVE Kept(p)'
  <2>1. UNCHANGED <<root, inode, records>> /\ \A q \in Owners : locked'[q] \subseteq locked[q]
    BY DEF GuardTypeOK
  <2>2. group'[p] = "alive" => group[p] = "alive"
    BY DEF GuardTypeOK
  <2>3. ASSUME group'[p] = "alive"
        PROVE  \/ helper'[p] = helper[p] /\ turn'[p] = turn[p]
               \/ helper'[p] = "release" /\ turn'[p] = 1
               \/ helper'[p] = "done"
    BY <2>3 DEF GuardTypeOK
  <2> QED
    BY <2>1, <2>2, <2>3, KeptStays DEF Kept
<1>7. OneExecution'
  BY ExecutionStays DEF GuardTypeOK
<1>8. ConfirmationFrees'
  <2>1. SUFFICES ASSUME NEW k \in Keys, records[k] \in Uncertain
                 PROVE  \E p \in Owners : /\ k \in KeysOf(p) /\ told'[p] # "confirmed"
                                          /\ helper'[p] \notin {"look", "lock"}
    BY <1>0 DEF ConfirmationFrees
  <2>2. PICK p \in Owners : k \in KeysOf(p) /\ told[p] # "confirmed"
        /\ helper[p] \notin {"look", "lock"}
    BY <2>1 DEF ConfirmationFrees
  <2>3. CASE p = o /\ turn[o] = 2
    BY <2>1, <2>2, <2>3 DEF Written, KeysOf, Uncertain
  <2>4. CASE p # o \/ turn[o] # 2
    BY <2>2, <2>4 DEF GuardTypeOK
  <2> QED
    BY <2>3, <2>4
<1> QED
  BY <1>1, <1>2, <1>3, <1>4, <1>5, <1>6, <1>7, <1>8

\* A helper that is killed leaves its locks, and its records stay.
LEMMA EndsKeeps == ASSUME GuardInv, NEW o \in Owners, Ends(o) PROVE GuardInv'
<1> USE DEF GuardInv, Ends, Goes, Files
<1>0. \A p \in Owners : \A i \in Files : Key(p, i)' = Key(p, i) /\ KeysOf(p)' = KeysOf(p)
  BY DEF Key, KeysOf
<1>1. GuardTypeOK'
  BY KeyFacts DEF GuardTypeOK, Steps, Free, Uncertain
<1>2. \A p \in Owners : Holding(p)'
  BY <1>1 DEF Holding, GuardTypeOK
<1>3. \A p \in Owners : Phase(p)'
  BY <1>1 DEF Phase, Holding, GuardTypeOK
<1>4. Exclusive'
  BY <1>0, <1>1 DEF Exclusive, Holding, GuardTypeOK
<1>5. \A p \in Owners : Written(p)'
  <2>1. ASSUME NEW p \in Owners, p # o PROVE Written(p)'
    BY <2>1, WrittenStays DEF GuardTypeOK
  <2>2. Written(o)'
    BY <1>0, <1>1 DEF Written, Holding, GuardTypeOK
  <2> QED
    BY <2>1, <2>2
<1>6. ASSUME NEW p \in Owners PROVE Kept(p)'
  <2>1. UNCHANGED <<root, inode, records>> /\ \A q \in Owners : locked'[q] \subseteq locked[q]
    BY DEF GuardTypeOK
  <2>2. group'[p] = "alive" => group[p] = "alive"
    BY DEF GuardTypeOK
  <2>3. ASSUME group'[p] = "alive"
        PROVE  \/ helper'[p] = helper[p] /\ turn'[p] = turn[p]
               \/ helper'[p] = "release" /\ turn'[p] = 1
               \/ helper'[p] = "done"
    BY <2>3 DEF GuardTypeOK
  <2> QED
    BY <2>1, <2>2, <2>3, KeptStays DEF Kept
<1>7. OneExecution'
  BY ExecutionStays DEF GuardTypeOK
<1>8. ConfirmationFrees'
  BY ConfirmationStays, KeyFacts DEF GuardTypeOK, Uncertain
<1> QED
  BY <1>1, <1>2, <1>3, <1>4, <1>5, <1>6, <1>7, <1>8

\* Nothing that is said of roots and records is about where the directories are now.
LEMMA WorldKeeps ==
  ASSUME GuardInv, Rename \/ UNCHANGED guardVars PROVE GuardInv'
<1>1. /\ dirAt' \in [Paths -> Dirs] /\ renames' \in Nat
      /\ UNCHANGED <<root, inode, helper, turn, locked, records, group, told>>
  BY DEF GuardInv, GuardTypeOK, Rename, guardVars
<1>2. \A p, i : Key(p, i)' = Key(p, i)
  BY <1>1 DEF Key
<1>3. \A p : KeysOf(p)' = KeysOf(p)
  BY <1>2 DEF KeysOf
<1>4. GuardTypeOK'
  BY <1>1 DEF GuardInv, GuardTypeOK
<1>5. Exclusive' /\ \A o \in Owners : Holding(o)' /\ Written(o)' /\ Phase(o)' /\ Kept(o)'
  BY <1>1, <1>2, <1>3 DEF GuardInv, Exclusive, Holding, Written, Phase, Kept
<1>6. OneExecution' /\ ConfirmationFrees'
  BY <1>1, <1>3 DEF GuardInv, OneExecution, ConfirmationFrees
<1> QED
  BY <1>4, <1>5, <1>6 DEF GuardInv

\* No step of an owner or of the world breaks the invariant.
LEMMA GuardStep == GuardInv /\ [GuardNext]_guardVars => GuardInv'
<1> SUFFICES ASSUME GuardInv, [GuardNext]_guardVars PROVE GuardInv'
  OBVIOUS
<1>1. CASE Rename \/ UNCHANGED guardVars
  BY <1>1, WorldKeeps
<1>2. ASSUME NEW o \in Owners, OwnerNext(o) PROVE GuardInv'
  BY <1>2, LookKeeps, LockKeeps, MarkKeeps, SpawnKeeps, DiesKeeps, ConfirmKeeps, OverwriteKeeps,
     CutKeeps, ReleaseKeeps, EndsKeeps DEF OwnerNext
<1> QED
  BY <1>1, <1>2 DEF GuardNext

\* The invariant holds in every reachable state.
LEMMA GuardInvariance == GuardSpec => []GuardInv
BY GuardInitially, GuardStep, PTL DEF GuardSpec

\* Two groups never execute in the same root at once, although their helpers may be killed at any
\* step (acquire, run and finish of process_owner): for any number of owners and directories.
THEOREM RootsAreExclusive == GuardSpec => []OneExecution
BY GuardInvariance, PTL DEF GuardInv

\* A root stays closed only by an execution whose end its launcher was not told.
THEOREM ConfirmedRootsAreFree == GuardSpec => []ConfirmationFrees
BY GuardInvariance, PTL DEF GuardInv

-----------------------------------------------------------------------------
(* The owner of one process group                                           *)

ProcSpec == ProcInit /\ [][ProcNext]_procVars

Gone == leader = "reaped" /\ ~others

EventsOK == events \in Seq({"owned", "message", "confirmed", "unconfirmed"})

Unreaped == main \in {"watch", "asking", "kill"} => leader # "reaped"

\* Each step of settlement presupposes those before.
Ordered ==
  /\ verdict \in {"none", "confirmed", "unconfirmed"}
  /\ main = "record" => verdict = "confirmed"
  /\ main \in {"release", "tell"} => verdict # "none"
  /\ verdict = "confirmed" =>
       /\ Gone /\ main \in {"record", "release", "tell", "wait", "ended"}
       /\ main \in {"release", "tell", "wait"} => record = "settled"
  /\ main \in {"tell", "wait"} => ~held

\* The launcher hears "confirmed" when there is nothing left to do.
ToldLast ==
  \A i \in DOMAIN events : events[i] = "confirmed" =>
    Gone /\ record = "settled" /\ ~held /\ main \in {"wait", "ended"}

ProcInv == EventsOK /\ Unreaped /\ Ordered /\ ToldLast /\ NoStraySignal

-----------------------------------------------------------------------------
\* The helper's first event is that it owns the root.
LEMMA ProcInitially == ProcInit => ProcInv
BY DEF ProcInit, ProcInv, EventsOK, Unreaped, Ordered, ToldLast, NoStraySignal

\* A leader that is reaped does not fork.
LEMMA ForksKeeps == ASSUME ProcInv, Forks PROVE ProcInv'
<1> USE DEF ProcInv, Forks, ioVars, childVars, mainVars
<1>1. EventsOK'
  BY DEF EventsOK
<1>2. Unreaped' /\ NoStraySignal'
  BY DEF Unreaped, NoStraySignal
<1>3. Ordered'
  BY DEF Ordered, Gone
<1>4. ToldLast'
  BY DEF ToldLast, Gone
<1> QED
  BY <1>1, <1>2, <1>3, <1>4

\* Who is gone stays gone.
LEMMA ExitsKeeps == ASSUME ProcInv, Exits PROVE ProcInv'
<1> USE DEF ProcInv, Exits, ioVars, childVars, mainVars
<1>1. EventsOK'
  BY DEF EventsOK
<1>2. Unreaped' /\ NoStraySignal'
  BY DEF Unreaped, NoStraySignal
<1>3. Ordered'
  BY DEF Ordered, Gone
<1>4. ToldLast'
  BY DEF ToldLast, Gone
<1> QED
  BY <1>1, <1>2, <1>3, <1>4

\* The launcher's frames change flags and queues.
LEMMA InputKeeps == ASSUME ProcInv, Input PROVE ProcInv'
<1> USE DEF ProcInv, Input, ioVars, childVars, mainVars, InputStop, InputEof, InputBad, InputRequest,
           Framed, Raise
<1>1. EventsOK'
  BY DEF EventsOK
<1>2. Unreaped' /\ NoStraySignal'
  BY DEF Unreaped, NoStraySignal
<1>3. Ordered'
  BY DEF Ordered, Gone
<1>4. ToldLast'
  BY DEF ToldLast, Gone
<1> QED
  BY <1>1, <1>2, <1>3, <1>4

\* A stop goes into its slot.
LEMMA InputStopRequestKeeps == ASSUME ProcInv, InputStopRequest PROVE ProcInv'
<1> USE DEF ProcInv, InputStopRequest, ioVars, childVars, mainVars, Slotted, Framed
<1>1. EventsOK'
  BY DEF EventsOK
<1>2. Unreaped' /\ NoStraySignal'
  BY DEF Unreaped, NoStraySignal
<1>3. Ordered'
  BY DEF Ordered, Gone
<1>4. ToldLast'
  BY DEF ToldLast, Gone
<1> QED
  BY <1>1, <1>2, <1>3, <1>4

\* ... and raises its flag.
LEMMA InputStoreKeeps == ASSUME ProcInv, InputStore PROVE ProcInv'
<1> USE DEF ProcInv, InputStore, ioVars, childVars, mainVars, Raise
<1>1. EventsOK'
  BY DEF EventsOK
<1>2. Unreaped' /\ NoStraySignal'
  BY DEF Unreaped, NoStraySignal
<1>3. Ordered'
  BY DEF Ordered, Gone
<1>4. ToldLast'
  BY DEF ToldLast, Gone
<1> QED
  BY <1>1, <1>2, <1>3, <1>4

\* An event that is taken leaves the others.
LEMMA OutputKeeps == ASSUME ProcInv, Output PROVE ProcInv'
<1> USE DEF ProcInv, Output, ioVars, childVars, mainVars
<1>1. EventsOK'
  BY DEF EventsOK
<1>2. Unreaped' /\ NoStraySignal'
  BY DEF Unreaped, NoStraySignal
<1>3. Ordered'
  BY DEF Ordered, Gone
<1>4. ToldLast'
  BY DEF Ordered, ToldLast, Gone
<1> QED
  BY <1>1, <1>2, <1>3, <1>4

\* The relay's writer changes no event.
LEMMA WriterTakesKeeps == ASSUME ProcInv, WriterTakes PROVE ProcInv'
<1> USE DEF ProcInv, WriterTakes, ioVars, childVars, mainVars
<1>1. EventsOK'
  BY DEF EventsOK
<1>2. Unreaped' /\ NoStraySignal'
  BY DEF Unreaped, NoStraySignal
<1>3. Ordered'
  BY DEF Ordered, Gone
<1>4. ToldLast'
  BY DEF ToldLast, Gone
<1> QED
  BY <1>1, <1>2, <1>3, <1>4

\* The relay's writer changes no event.
LEMMA WriterWroteKeeps == ASSUME ProcInv, WriterWrote PROVE ProcInv'
<1> USE DEF ProcInv, WriterWrote, ioVars, childVars, mainVars
<1>1. EventsOK'
  BY DEF EventsOK
<1>2. Unreaped' /\ NoStraySignal'
  BY DEF Unreaped, NoStraySignal
<1>3. Ordered'
  BY DEF Ordered, Gone
<1>4. ToldLast'
  BY DEF ToldLast, Gone
<1> QED
  BY <1>1, <1>2, <1>3, <1>4

\* The relay's writer changes no event.
LEMMA WriterBrokenKeeps == ASSUME ProcInv, WriterBroken PROVE ProcInv'
<1> USE DEF ProcInv, WriterBroken, ioVars, childVars, mainVars, Raise
<1>1. EventsOK'
  BY DEF EventsOK
<1>2. Unreaped' /\ NoStraySignal'
  BY DEF Unreaped, NoStraySignal
<1>3. Ordered'
  BY DEF Ordered, Gone
<1>4. ToldLast'
  BY DEF ToldLast, Gone
<1> QED
  BY <1>1, <1>2, <1>3, <1>4

\* What the child says is a message, whatever it says.
LEMMA RelayReadsKeeps == ASSUME ProcInv, RelayReads PROVE ProcInv'
<1> USE DEF ProcInv, RelayReads, ioVars, childVars, mainVars, Queue, Framed, Raise
<1>1. EventsOK'
  BY DEF EventsOK
<1>2. Unreaped' /\ NoStraySignal'
  BY DEF Unreaped, NoStraySignal
<1>3. Ordered'
  BY DEF Ordered, Gone
<1>4. ToldLast'
  BY DEF ToldLast, Gone
<1> QED
  BY <1>1, <1>2, <1>3, <1>4

\* The look at the child leaves it unreaped.
LEMMA WatchExitKeeps == ASSUME ProcInv, WatchExit PROVE ProcInv'
<1> USE DEF ProcInv, WatchExit, ioVars, childVars, mainVars, Calm, Observed
<1>1. EventsOK'
  BY DEF EventsOK
<1>2. Unreaped' /\ NoStraySignal'
  BY DEF Unreaped, NoStraySignal
<1>3. Ordered'
  BY DEF Ordered
<1>4. ToldLast'
  BY DEF ToldLast
<1> QED
  BY <1>1, <1>2, <1>3, <1>4

\* Who cannot look confirms nothing.
LEMMA WatchFailsKeeps == ASSUME ProcInv, WatchFails PROVE ProcInv'
<1> USE DEF ProcInv, WatchFails, ioVars, childVars, mainVars
<1>1. EventsOK'
  BY DEF EventsOK
<1>2. Unreaped' /\ NoStraySignal'
  BY DEF Unreaped, NoStraySignal
<1>3. Ordered'
  BY DEF Ordered
<1>4. ToldLast'
  BY DEF ToldLast
<1> QED
  BY <1>1, <1>2, <1>3, <1>4

\* The first cause sets the deadline.
LEMMA WatchFlagsKeeps == ASSUME ProcInv, WatchFlags PROVE ProcInv'
<1> USE DEF ProcInv, WatchFlags, ioVars, childVars, mainVars, Calm
<1>1. EventsOK'
  BY DEF EventsOK
<1>2. Unreaped' /\ NoStraySignal'
  BY DEF Unreaped, NoStraySignal
<1>3. Ordered'
  BY DEF Ordered
<1>4. ToldLast'
  BY DEF ToldLast
<1> QED
  BY <1>1, <1>2, <1>3, <1>4

\* A stop that is asked for is no verdict.
LEMMA AskKeeps == ASSUME ProcInv, Ask PROVE ProcInv'
<1> USE DEF ProcInv, Ask, ioVars, childVars, mainVars, Slotted
<1>1. EventsOK'
  BY DEF EventsOK
<1>2. Unreaped' /\ NoStraySignal'
  BY DEF Unreaped, NoStraySignal
<1>3. Ordered'
  BY DEF Ordered
<1>4. ToldLast'
  BY DEF ToldLast
<1> QED
  BY <1>1, <1>2, <1>3, <1>4

\* Time passes.
LEMMA DeadlinePassesKeeps == ASSUME ProcInv, DeadlinePasses PROVE ProcInv'
<1> USE DEF ProcInv, DeadlinePasses, ioVars, childVars, mainVars, Calm
<1>1. EventsOK'
  BY DEF EventsOK
<1>2. Unreaped' /\ NoStraySignal'
  BY DEF Unreaped, NoStraySignal
<1>3. Ordered'
  BY DEF Ordered, Gone
<1>4. ToldLast'
  BY DEF ToldLast, Gone
<1> QED
  BY <1>1, <1>2, <1>3, <1>4

\* The deadline does not reap.
LEMMA WatchDeadlineKeeps == ASSUME ProcInv, WatchDeadline PROVE ProcInv'
<1> USE DEF ProcInv, WatchDeadline, ioVars, childVars, mainVars, Calm
<1>1. EventsOK'
  BY DEF EventsOK
<1>2. Unreaped' /\ NoStraySignal'
  BY DEF Unreaped, NoStraySignal
<1>3. Ordered'
  BY DEF Ordered
<1>4. ToldLast'
  BY DEF ToldLast
<1> QED
  BY <1>1, <1>2, <1>3, <1>4

\* The group is killed while its leader is unreaped.
LEMMA KillKeeps == ASSUME ProcInv, Kill PROVE ProcInv'
<1> USE DEF ProcInv, Kill, ioVars, childVars, mainVars
<1>1. EventsOK'
  BY DEF EventsOK
<1>2. Unreaped' /\ NoStraySignal'
  BY DEF Unreaped, NoStraySignal
<1>3. Ordered'
  BY DEF Ordered
<1>4. ToldLast'
  BY DEF ToldLast
<1> QED
  BY <1>1, <1>2, <1>3, <1>4

\* The leader is reaped after the last signal.
LEMMA ReapKeeps == ASSUME ProcInv, Reap PROVE ProcInv'
<1> USE DEF ProcInv, Reap, ioVars, childVars, mainVars, Calm
<1>1. EventsOK'
  BY DEF EventsOK
<1>2. Unreaped' /\ NoStraySignal'
  BY DEF Unreaped, NoStraySignal
<1>3. Ordered'
  BY DEF Ordered
<1>4. ToldLast'
  BY DEF ToldLast
<1> QED
  BY <1>1, <1>2, <1>3, <1>4

\* Only a group that is absent is confirmed.
LEMMA SettleKeeps == ASSUME ProcInv, Settle PROVE ProcInv'
<1> USE DEF ProcInv, Settle, ioVars, childVars, mainVars, Absent
<1>1. EventsOK'
  BY DEF EventsOK
<1>2. Unreaped' /\ NoStraySignal'
  BY DEF Unreaped, NoStraySignal
<1>3. Ordered'
  BY DEF Ordered, Gone
<1>4. ToldLast'
  BY DEF ToldLast
<1> QED
  BY <1>1, <1>2, <1>3, <1>4

\* The record is settled before the files are released.
LEMMA RecordKeeps == ASSUME ProcInv, Record PROVE ProcInv'
<1> USE DEF ProcInv, Record, ioVars, childVars, mainVars
<1>1. EventsOK'
  BY DEF EventsOK
<1>2. Unreaped' /\ NoStraySignal'
  BY DEF Unreaped, NoStraySignal
<1>3. Ordered'
  BY DEF Ordered, Gone
<1>4. ToldLast'
  BY DEF ToldLast
<1> QED
  BY <1>1, <1>2, <1>3, <1>4

\* The files are released before the launcher is told.
LEMMA ReleaseGuardKeeps == ASSUME ProcInv, ReleaseGuard PROVE ProcInv'
<1> USE DEF ProcInv, ReleaseGuard, ioVars, childVars, mainVars, Calm
<1>1. EventsOK'
  BY DEF EventsOK
<1>2. Unreaped' /\ NoStraySignal'
  BY DEF Unreaped, NoStraySignal
<1>3. Ordered'
  BY DEF Ordered, Gone
<1>4. ToldLast'
  BY DEF ToldLast
<1> QED
  BY <1>1, <1>2, <1>3, <1>4

\* The verdict is told last.
LEMMA TellKeeps == ASSUME ProcInv, Tell PROVE ProcInv'
<1> USE DEF ProcInv, Tell, ioVars, childVars, mainVars, Queue
<1>1. EventsOK'
  BY DEF EventsOK, Ordered
<1>2. Unreaped' /\ NoStraySignal'
  BY DEF Unreaped, NoStraySignal
<1>3. Ordered'
  BY DEF Ordered, Gone
<1>4. ToldLast'
  BY DEF Ordered, ToldLast, Gone
<1> QED
  BY <1>1, <1>2, <1>3, <1>4

\* The helper ends after it has told.
LEMMA OwnerEndKeeps == ASSUME ProcInv, OwnerEnd PROVE ProcInv'
<1> USE DEF ProcInv, OwnerEnd, ioVars, childVars, mainVars, Calm
<1>1. EventsOK'
  BY DEF EventsOK
<1>2. Unreaped' /\ NoStraySignal'
  BY DEF Unreaped, NoStraySignal
<1>3. Ordered'
  BY DEF Ordered, Gone
<1>4. ToldLast'
  BY DEF ToldLast, Gone
<1> QED
  BY <1>1, <1>2, <1>3, <1>4

\* No step breaks the invariant.
LEMMA ProcStep == ProcInv /\ [ProcNext]_procVars => ProcInv'
<1> SUFFICES ASSUME ProcInv, [ProcNext]_procVars PROVE ProcInv'
  OBVIOUS
<1>1. CASE MainStep
  BY <1>1, WatchExitKeeps, WatchFlagsKeeps, AskKeeps, WatchDeadlineKeeps, KillKeeps, ReapKeeps,
     SettleKeeps, RecordKeeps, ReleaseGuardKeeps, TellKeeps, OwnerEndKeeps
  DEF MainStep
<1>2. CASE ProcNext /\ ~MainStep
  BY <1>2, WatchFailsKeeps, DeadlinePassesKeeps, ForksKeeps, ExitsKeeps, InputKeeps,
     InputStopRequestKeeps, InputStoreKeeps, OutputKeeps, WriterTakesKeeps, WriterWroteKeeps,
     WriterBrokenKeeps, RelayReadsKeeps
  DEF ProcNext, WriterStep
<1>3. CASE UNCHANGED procVars
  BY <1>3 DEF procVars, ioVars, childVars, mainVars, ProcInv, EventsOK, Unreaped, Ordered,
              ToldLast, NoStraySignal, Gone
<1> QED
  BY <1>1, <1>2, <1>3

\* The invariant holds in every reachable state.
LEMMA ProcInvariance == ProcSpec => []ProcInv
BY ProcInitially, ProcStep, PTL DEF ProcSpec

\* When the launcher is told of a confirmed end the whole group is gone, this is on record, and
\* the root can be acquired again (run, finish and settle of process_owner/mod.rs).
THEOREM ConfirmationIsTrue == ProcSpec => []ConfirmedIsGone
<1>1. ProcInv => ConfirmedIsGone
  BY DEF ProcInv, Ordered, ToldLast, ConfirmedIsGone, Gone
<1> QED
  BY <1>1, ProcInvariance, PTL

\* The group is never signalled once its leader is reaped (exited, settle).
THEOREM SignalsStayInGroup == ProcSpec => []NoStraySignal
<1>1. ProcInv => NoStraySignal
  BY DEF ProcInv
<1> QED
  BY <1>1, ProcInvariance, PTL

-----------------------------------------------------------------------------
(* One session of host control                                              *)

\* Every behaviour of one session of host control.
ControlSpec == ControlInit /\ [][ControlNext]_control

\* What is in the channel, and what is said.
Requests == [op: {"start", "inspect"}, id: Nat, good: BOOLEAN]
Replies == {"inspected", "rejected"}
LastWords == {"terminal", "start_failed"}
Causes == {"invalid_start", "startup_failed_or_cancelled", "generation_not_ready", "suspended",
           "failed"}
Frames == [kind: {"ready", "started"} \cup Replies, id: Nat, says: Nat]
            \cup [kind: LastWords, id: Nat, says: Causes]

ControlTypes ==
  /\ reader \in {"reading", "ended"} /\ lastId \in Nat
  /\ requests \in Seq(Requests)
  /\ stop \in Seq(Nat) /\ (stop # <<>> => reader = "ended" /\ Len(stop) = 1)
  /\ serving \in {"handshake", "starting", "checking", "emitting", "session", "inspecting",
                  "draining", "returned"}
  /\ announced \in Nat /\ revision \in Nat
  /\ emitted \in Seq(Frames) /\ line \in Seq(Frames)

\* What the frame at place i of a session says.
Talks(i) ==
  LET f == emitted[i] IN
  CASE i = 1 -> f.kind = "ready" /\ f.says = announced
    [] i = 2 -> f.kind = "started"
    [] OTHER -> /\ f.kind \in Replies /\ (f.kind = "inspected" => f.says = announced)
                /\ \A j \in 3..(i - 1): emitted[j].id < f.id

\* A last word is true.
True(f) ==
  f.kind = "terminal" /\ f.says = "suspended" => host = "suspended" /\ stop = <<f.id>>

Spoken ==
  \A i \in 1..Len(emitted):
    IF emitted[i].kind \in LastWords
    THEN serving = "returned" /\ i = Len(emitted) /\ True(emitted[i])
    ELSE Talks(i)

\* Where serve is, and what it has said and is about to say.
Opens ==
  /\ after = "session" /\ announced > 0
  /\ \/ emitted = <<>> /\ line = <<Frame("ready", 0, announced), Frame("started", 1, announced)>>
     \/ Len(emitted) = 1 /\ line = <<Frame("started", 1, announced)>>
Replying ==
  /\ after = "session" /\ announced > 0 /\ Len(emitted) > 1 /\ Len(line) = 1
  /\ line[1].kind \in Replies /\ line[1].id = asked.id
  /\ line[1].kind = "inspected" => line[1].says = announced
Concludes ==
  /\ after = "return" /\ Len(line) = 1 /\ line[1].kind \in LastWords /\ True(line[1])
  /\ host = "up" => announced > 0 /\ overtaken

ServeFits ==
  /\ serving \in {"handshake", "starting", "checking"} => emitted = <<>> /\ announced = 0
  /\ serving = "emitting" => Opens \/ Replying \/ Concludes
  /\ serving \in {"session", "inspecting"} => announced > 0 /\ Len(emitted) > 1
  /\ serving = "draining" => /\ after \in {"not_ready", "terminal", "error"}
                             /\ after = "terminal" => stop # <<>>

\* Ids grow, from those of the answers to those of the requests in the channel.
Answering == serving = "inspecting" \/ (serving = "emitting" /\ Replying)
IdsGrow ==
  /\ reader = "reading" => /\ \A k \in 1..Len(requests): requests[k].id <= lastId
                           /\ \A i \in 3..Len(emitted): emitted[i].id <= lastId
                           /\ Answering => asked.id <= lastId
  /\ \A k, l \in 1..Len(requests): k < l => requests[k].id < requests[l].id
  /\ serving # "returned" =>
       \A i \in 3..Len(emitted), k \in 1..Len(requests): emitted[i].id < requests[k].id
  /\ Answering => /\ asked.id \in Nat
                  /\ \A k \in 1..Len(requests): asked.id < requests[k].id
                  /\ \A i \in 3..Len(emitted): emitted[i].id < asked.id

HostFits ==
  /\ serving \in {"handshake", "starting"} => host \in {"none", "building"} /\ ~ended
  /\ serving = "handshake" => host = "none"
  /\ ended => host # "up"
  /\ host = "up" => revision > 0
  /\ HostNotAbandoned

ControlInv == ControlTypes /\ Spoken /\ ServeFits /\ IdsGrow /\ HostFits

-----------------------------------------------------------------------------
\* Before serve begins nothing has been said, and nothing is to be said.
LEMMA ControlInitially == ControlInit => ControlInv
  <1> SUFFICES ASSUME ControlInit PROVE ControlInv
    OBVIOUS
  <1>1. ControlTypes
    <2>1. <<>> \in Seq(Requests) /\ <<>> \in Seq(Frames) /\ <<>> \in Seq(Nat)
      OBVIOUS
    <2> QED BY <2>1 DEF ControlInit, ControlTypes
  <1>2. Spoken /\ ServeFits /\ IdsGrow /\ HostFits
    BY DEF ControlInit, Spoken, ServeFits, IdsGrow, HostFits, Answering, HostNotAbandoned
  <1> QED BY <1>1, <1>2 DEF ControlInv

\* What has been said, and will be, stays true if the Host only changes while it is up and the
\* stop only before it is set.
LEMMA StaysTrue ==
  ASSUME NEW f, True(f), host' = host \/ host = "up", stop' = stop \/ stop = <<>>,
         f.id \in Nat, stop \in Seq(Nat)
  PROVE  True(f)'
  <1>1. stop = <<f.id>> => stop # <<>>
    OBVIOUS
  <1> QED BY <1>1 DEF True

\* serve says the same, and is where it was.
LEMMA SameWords ==
  ASSUME ControlInv, UNCHANGED serve, host' = host \/ host = "up", stop' = stop \/ stop = <<>>,
         overtaken => overtaken'
  PROVE  Spoken' /\ ServeFits' /\ (Answering' <=> Answering)
  <1> USE DEF ControlInv, serve
  <1>1. \A f \in Frames : True(f) => True(f)'
    <2> SUFFICES ASSUME NEW f \in Frames, True(f) PROVE True(f)'
      OBVIOUS
    <2>1. f.id \in Nat
      BY DEF Frames
    <2> QED BY <2>1, StaysTrue DEF ControlTypes
  <1>2. Spoken'
    <2> SUFFICES ASSUME NEW i \in 1..Len(emitted)
                 PROVE IF emitted[i].kind \in LastWords
                       THEN serving = "returned" /\ i = Len(emitted) /\ True(emitted[i])'
                       ELSE Talks(i)'
      BY DEF Spoken
    <2>1. emitted[i] \in Frames
      BY DEF ControlTypes
    <2> QED BY <2>1, <1>1 DEF Spoken, Talks
  <1>3. Opens' <=> Opens
    BY DEF Opens
  <1>4. Replying' <=> Replying
    BY DEF Replying
  <1>5. Concludes => Concludes'
    <2> SUFFICES ASSUME Concludes PROVE Concludes'
      OBVIOUS
    <2>1. line[1] \in Frames
      <3>1. line \in Seq(Frames) /\ Len(line) = 1
        BY DEF ControlTypes, Concludes
      <3> QED BY ONLY <3>1
    <2> QED BY <2>1, <1>1 DEF Concludes
  <1>6. ServeFits'
    <2>1. stop # <<>> => stop' # <<>>
      OBVIOUS
    <2> QED BY <2>1, <1>3, <1>4, <1>5 DEF ServeFits
  <1> QED BY <1>2, <1>4, <1>6 DEF Answering

\* The reader gives up and the stop is set: serve is where it was.
LEMMA ReadEndsKeeps ==
  ASSUME ControlInv, NEW i \in Nat, ReadEnds(i), reader = "reading", UNCHANGED <<serve, behind>>,
         lastId' \in Nat
  PROVE  ControlInv'
  <1> USE DEF ControlInv, ReadEnds, behind, serve
  <1>1. stop = <<>>
    BY DEF ControlTypes
  <1>2. ControlTypes'
    BY DEF ControlTypes
  <1>3. Spoken' /\ ServeFits' /\ (Answering' <=> Answering)
    BY <1>1, SameWords
  <1>4. IdsGrow'
    BY <1>2, <1>3 DEF IdsGrow
  <1>5. HostFits'
    BY DEF HostFits, HostNotAbandoned
  <1> QED BY <1>2, <1>3, <1>4, <1>5

\* A step of read_requests: an id that is taken is larger than all before it.
LEMMA ReaderKeeps == ASSUME ControlInv, ReaderStep PROVE ControlInv'
  <1> USE DEF ControlInv
  <1>1. CASE ReadGarbage
    <2>1. lastId' \in Nat
      BY <1>1 DEF ReadGarbage, ControlTypes
    <2> QED BY <1>1, <2>1, ReadEndsKeeps DEF ReadGarbage, serve
  <1>2. ASSUME NEW i \in 0..MaxId, ReadStop(i) PROVE ControlInv'
    <2>1. i \in Nat /\ lastId \in Nat
      BY ControlAssumption DEF ControlTypes
    <2>2. lastId' \in Nat /\ (IF i = 0 \/ i > lastId THEN i ELSE 0) \in Nat
      BY <1>2, <2>1 DEF ReadStop
    <2> QED BY <1>2, <2>2, ReadEndsKeeps DEF ReadStop, serve
  <1>3. ASSUME NEW op \in {"start", "inspect"}, NEW i \in 1..MaxId, NEW good \in BOOLEAN,
               ReadRequest(op, i, good)
        PROVE  ControlInv'
    <2>1. i \in Nat /\ lastId \in Nat
      BY ControlAssumption DEF ControlTypes
    <2>2. CASE i <= lastId \/ ~(Len(requests) < RequestCapacity)
      <3>1. lastId' \in Nat /\ ReadEnds(0)
        BY <1>3, <2>1, <2>2 DEF ReadRequest
      <3> QED BY <1>3, <3>1, ReadEndsKeeps DEF ReadRequest, serve
    <2>3. CASE i > lastId /\ Len(requests) < RequestCapacity
      <3> DEFINE q == [op |-> op, id |-> i, good |-> good]
      <3>1. /\ lastId' = i /\ requests' = Append(requests, q)
            /\ UNCHANGED <<reader, stop, serve, behind>> /\ reader = "reading"
        BY <1>3, <2>1, <2>3 DEF ReadRequest
      <3>2. q \in Requests /\ requests \in Seq(Requests)
        BY <2>1 DEF Requests, ControlTypes
      <3>3. ControlTypes'
        BY <3>1, <3>2, <2>1 DEF ControlTypes, behind, serve
      <3>4. Spoken' /\ ServeFits' /\ (Answering' <=> Answering)
        BY <3>1, SameWords DEF behind
      <3>5. /\ Len(requests') = Len(requests) + 1 /\ requests'[Len(requests) + 1].id = i
            /\ \A k \in 1..Len(requests): requests'[k] = requests[k] /\ requests[k].id \in Nat
        <4>1. /\ Len(requests') = Len(requests) + 1 /\ requests'[Len(requests) + 1] = q
              /\ \A k \in 1..Len(requests): requests'[k] = requests[k] /\ requests[k] \in Requests
          <5>1. \A x \in Requests : \A s \in Seq(Requests) :
                   /\ Len(Append(s, x)) = Len(s) + 1 /\ Append(s, x)[Len(s) + 1] = x
                   /\ \A k \in 1..Len(s): Append(s, x)[k] = s[k] /\ s[k] \in Requests
            OBVIOUS
          <5> QED BY <3>1, <3>2, <5>1
        <4> QED BY <4>1 DEF Requests
      <3>6. \A j \in 1..Len(emitted) : emitted[j].id \in Nat
        BY DEF ControlTypes, Frames
      <3>7. \A j \in 1..Len(emitted) : j \in 3..Len(emitted) => emitted[j].id < i
        <4>1. \A j \in 3..Len(emitted): emitted[j].id <= lastId
          BY <3>1 DEF IdsGrow
        <4> QED BY <4>1, <3>6, <2>1, <2>3
      <3>8. IdsGrow'
        <4>1. Len(emitted) \in Nat
          BY DEF ControlTypes
        <4>2. \A j \in 3..Len(emitted) : emitted[j].id < i /\ emitted[j].id \in Nat
          BY <3>6, <3>7, <4>1
        <4>3. Answering => asked.id < i /\ asked.id \in Nat
          BY <3>1, <2>1, <2>3 DEF IdsGrow
        <4>4. \A k \in 1..Len(requests) : requests[k].id < i
          BY <3>1, <3>5, <2>1, <2>3 DEF IdsGrow
        <4>5. \A k \in 1..Len(requests') : k \in 1..Len(requests) \/ k = Len(requests) + 1
          BY <3>2, <3>5
        <4>6. emitted' = emitted /\ asked' = asked /\ serving' = serving
          BY <3>1 DEF serve
        <4>7. \A k, l \in 1..Len(requests') : k < l => requests'[k].id < requests'[l].id
          BY <4>4, <4>5, <3>5, <3>2 DEF IdsGrow
        <4> QED BY <4>2, <4>3, <4>4, <4>5, <4>6, <4>7, <3>4, <3>5, <3>1, <2>1, <2>3 DEF IdsGrow
      <3>9. HostFits'
        BY <3>1 DEF HostFits, HostNotAbandoned, behind, serve
      <3> QED BY <3>3, <3>4, <3>8, <3>9
    <2> QED BY <2>1, <2>2, <2>3
  <1> QED BY <1>1, <1>2, <1>3 DEF ReaderStep

\* A step of the Host or of its other clients, while the Host is up.
LEMMA HostKeeps ==
  ASSUME ControlInv, HostChanges \/ HostStops \/ HostDies \/ Overtaken
  PROVE  ControlInv'
  <1> USE DEF ControlInv, HostChanges, HostStops, HostDies, Overtaken
  <1>1. host = "up" /\ UNCHANGED <<asking, serve>> /\ (overtaken => overtaken')
    BY DEF ControlTypes
  <1>2. ControlTypes'
    BY <1>1 DEF ControlTypes, asking, serve
  <1>3. Spoken' /\ ServeFits' /\ (Answering' <=> Answering)
    BY <1>1, SameWords DEF asking
  <1>4. IdsGrow'
    BY <1>1, <1>3 DEF IdsGrow, asking, serve
  <1>5. HostFits'
    BY <1>1 DEF HostFits, HostNotAbandoned, serve, ControlTypes
  <1> QED BY <1>2, <1>3, <1>4, <1>5
-----------------------------------------------------------------------------
\* Before serve returns, all that was said are frames of a session.
LEMMA SoFar ==
  ASSUME ControlInv, serving # "returned"
  PROVE  \A i \in 1..Len(emitted) : Talks(i)
  BY DEF ControlInv, Spoken

\* serve says nothing in this step, and has not returned after it.
LEMMA SilentWords ==
  ASSUME ControlInv, serving # "returned", UNCHANGED <<emitted, announced>> \/ emitted = <<>>,
         UNCHANGED emitted
  PROVE  Spoken'
  <1>1. ASSUME NEW i \in 1..Len(emitted), UNCHANGED announced
        PROVE  emitted[i].kind \notin LastWords /\ Talks(i)'
    <2>1. emitted[i].kind \notin LastWords /\ Talks(i)
      BY DEF ControlInv, Spoken
    <2> QED BY <2>1, <1>1 DEF Talks
  <1>2. CASE emitted = <<>>
    BY <1>2 DEF Spoken
  <1> QED BY <1>1, <1>2 DEF Spoken

\* Nobody is being answered: the ids are those of the frames and of the requests.
LEMMA NobodyAsks ==
  ASSUME ControlInv, ~Answering', serving # "returned", UNCHANGED <<emitted, lastId>>,
         reader' = "reading" => reader = "reading",
         \/ UNCHANGED requests
         \/ requests # <<>> /\ requests' = Tail(requests)
  PROVE  IdsGrow'
  <1> USE DEF ControlInv
  <1>1. requests \in Seq(Requests)
    BY DEF ControlTypes
  <1>2. \A k \in 1..Len(requests') :
          \E l \in 1..Len(requests) : requests'[k] = requests[l]
                                      /\ (requests' = requests => l = k)
                                      /\ (requests' # requests => l = k + 1)
    BY <1>1
  <1>3. \A k, l \in 1..Len(requests') : k < l => requests'[k].id < requests'[l].id
    <2>1. CASE UNCHANGED requests
      BY <2>1 DEF IdsGrow
    <2>2. CASE requests # <<>> /\ requests' = Tail(requests)
      <3>1. /\ Len(requests') = Len(requests) - 1 /\ Len(requests) \in Nat
            /\ \A k \in 1..Len(requests') : requests'[k] = requests[k + 1]
        BY <2>2, <1>1
      <3> QED BY <3>1 DEF IdsGrow
    <2> QED BY <2>1, <2>2
  <1> QED BY <1>2, <1>3 DEF IdsGrow

\* The first request is the Start, or the start is refused; nothing has been said.
LEMMA HandshakeKeeps == ASSUME ControlInv, Handshake PROVE ControlInv'
  <1> USE DEF ControlInv
  <1>1. serving = "handshake" /\ emitted = <<>> /\ announced = 0 /\ host = "none" /\ ~ended
    BY DEF Handshake, ServeFits, HostFits
  <1>2. requests \in Seq(Requests)
    BY DEF ControlTypes
  <1>3. UNCHANGED <<reader, lastId, stop, revision, ended, overtaken, emitted, announced>>
    BY DEF Handshake, Emits, GoesTo
  <1>4. requests' \in Seq(Requests) /\ (requests' = requests \/ (requests # <<>> /\ requests' = Tail(requests)))
    BY <1>2 DEF Handshake
  <1>5. \/ serving' = "starting" /\ host' = "building" /\ UNCHANGED <<line, after>>
        \/ /\ serving' = "emitting" /\ line' = StartRefused("invalid_start") /\ after' = "return"
           /\ host' = "none"
    BY <1>1 DEF Handshake, Emits, GoesTo
  <1>6. StartRefused("invalid_start") \in Seq(Frames)
    <2>1. Frame("start_failed", 1, "invalid_start") \in Frames
      BY DEF Frame, Frames, LastWords, Causes
    <2> QED BY <2>1 DEF StartRefused
  <1>7. ControlTypes'
    BY <1>3, <1>4, <1>5, <1>6 DEF ControlTypes
  <1>8. Spoken'
    BY <1>1, <1>3, SilentWords
  <1>9. ServeFits'
    BY <1>1, <1>3, <1>5 DEF ServeFits, Concludes, StartRefused, Frame, True, LastWords
  <1>10. IdsGrow'
    <2>1. ~Answering'
      BY <1>5, <1>3, <1>1 DEF Answering, Replying
    <2> QED BY <1>1, <1>3, <1>4, <2>1, NobodyAsks
  <1>11. HostFits'
    BY <1>1, <1>3, <1>5 DEF HostFits, HostNotAbandoned
  <1> QED BY <1>7, <1>8, <1>9, <1>10, <1>11

\* The Host is started, or its start is dropped.
LEMMA StartKeeps == ASSUME ControlInv, StartCancelled \/ HostStarted PROVE ControlInv'
  <1> USE DEF ControlInv
  <1>1. serving = "starting" /\ emitted = <<>> /\ announced = 0 /\ ~ended
    BY DEF StartCancelled, HostStarted, ServeFits, HostFits
  <1>2. UNCHANGED <<asking, ended, overtaken, emitted, announced>>
    BY DEF StartCancelled, HostStarted, Emits, GoesTo
  <1>3. \/ serving' = "checking" /\ host' = "up" /\ revision' = 1 /\ UNCHANGED line
        \/ /\ serving' = "emitting" /\ line' = StartRefused("startup_failed_or_cancelled")
           /\ after' = "return" /\ host' = "gone" /\ UNCHANGED revision
    BY DEF StartCancelled, HostStarted, Emits, GoesTo
  <1>4. StartRefused("startup_failed_or_cancelled") \in Seq(Frames)
    <2>1. Frame("start_failed", 1, "startup_failed_or_cancelled") \in Frames
      BY DEF Frame, Frames, LastWords, Causes
    <2> QED BY <2>1 DEF StartRefused
  <1>5. ControlTypes'
    BY <1>2, <1>3, <1>4 DEF ControlTypes, asking
  <1>6. Spoken'
    BY <1>1, <1>2, SilentWords
  <1>7. ServeFits'
    BY <1>1, <1>2, <1>3 DEF ServeFits, Concludes, StartRefused, Frame, True, LastWords
  <1>8. IdsGrow'
    <2>1. ~Answering'
      BY <1>1, <1>2, <1>3 DEF Answering, Replying
    <2> QED BY <1>1, <1>2, <2>1, NobodyAsks DEF asking
  <1>9. HostFits'
    BY <1>1, <1>2, <1>3 DEF HostFits, HostNotAbandoned
  <1> QED BY <1>5, <1>6, <1>7, <1>8, <1>9

\* The opening of a session, as a line of two frames.
LEMMA TwoFrames ==
  ASSUME NEW S, NEW x \in S, NEW y \in S
  PROVE  /\ <<x, y>> \in Seq(S) /\ <<y>> \in Seq(S) /\ Len(<<x, y>>) = 2
         /\ Tail(<<x, y>>) = <<y>> /\ Head(<<x, y>>) = x
  <1>1. <<x, y>> \in Seq(S) /\ <<y>> \in Seq(S) /\ Len(<<x, y>>) = 2 /\ Head(<<x, y>>) = x
    OBVIOUS
  <1>2. Tail(<<x, y>>) = <<y>>
    BY <1>1
  <1> QED BY <1>1, <1>2

\* The line of a Host that is ready.
LEMMA OpeningLine ==
  ASSUME NEW r \in Nat
  PROVE  LET o == <<Frame("ready", 0, r), Frame("started", 1, r)>>
         IN  /\ o \in Seq(Frames) /\ Len(o) = 2 /\ Head(o) = Frame("ready", 0, r)
             /\ Tail(o) = <<Frame("started", 1, r)>>
  <1>1. Frame("ready", 0, r) \in Frames /\ Frame("started", 1, r) \in Frames
    BY DEF Frame, Frames
  <1> QED BY <1>1, TwoFrames

\* Readiness is announced with the revision the Host has, or the Host is drained.
LEMMA CheckKeeps == ASSUME ControlInv, Check PROVE ControlInv'
  <1> USE DEF ControlInv
  <1>1. serving = "checking" /\ emitted = <<>> /\ announced = 0 /\ revision \in Nat
    BY DEF Check, ServeFits, ControlTypes
  <1>2. UNCHANGED <<asking, behind, emitted>>
    BY DEF Check, Drains
  <1>3. \/ /\ serving' = "emitting" /\ after' = "session" /\ announced' = revision /\ revision > 0
           /\ line' = <<Frame("ready", 0, revision), Frame("started", 1, revision)>>
        \/ serving' = "draining" /\ after' = "not_ready" /\ UNCHANGED <<line, announced>>
    BY <1>1 DEF Check, Drains, HostFits
  <1>4. ControlTypes'
    BY <1>1, <1>2, <1>3, OpeningLine DEF ControlTypes, asking, behind
  <1>5. Spoken'
    BY <1>1, <1>2, SilentWords
  <1>6. ServeFits'
    <2>1. CASE serving' = "emitting" /\ after' = "session" /\ announced' = revision
      <3>1. Opens'
        BY <1>1, <1>2, <1>3, <2>1 DEF Opens
      <3> QED BY <2>1, <3>1 DEF ServeFits
    <2>2. CASE serving' = "draining" /\ after' = "not_ready"
      BY <2>2 DEF ServeFits
    <2> QED BY <1>3, <2>1, <2>2
  <1>7. IdsGrow'
    <2>1. ~Answering'
      BY <1>1, <1>2, <1>3 DEF Answering, Replying
    <2> QED BY <1>1, <1>2, <2>1, NobodyAsks DEF asking
  <1>8. HostFits'
    BY <1>1, <1>2, <1>3 DEF HostFits, HostNotAbandoned, behind
  <1> QED BY <1>4, <1>5, <1>6, <1>7, <1>8

\* serve leaves the session, to drain or with the events lost.
LEMMA LeaveKeeps ==
  ASSUME ControlInv, serving \in {"session", "inspecting"}, UNCHANGED <<lastId, stop, reader, behind>>,
         \/ UNCHANGED requests
         \/ requests # <<>> /\ requests' = Tail(requests),
         \/ Drains("error")
         \/ Drains("terminal") /\ stop # <<>>
         \/ /\ ended \/ overtaken
            /\ Emits(<<Frame("terminal", 0, "failed")>>, "return")
  PROVE  ControlInv'
  <1> USE DEF ControlInv
  <1>1. UNCHANGED <<emitted, announced>> /\ serving # "returned" /\ announced > 0
    BY DEF Drains, Emits, ServeFits
  <1>2. <<Frame("terminal", 0, "failed")>> \in Seq(Frames)
    <2>1. Frame("terminal", 0, "failed") \in Frames
      BY DEF Frame, Frames, LastWords, Causes
    <2> QED BY <2>1
  <1>3. \/ serving' = "draining" /\ after' \in {"terminal", "error"} /\ UNCHANGED line
                                 /\ (after' = "terminal" => stop # <<>>)
        \/ /\ serving' = "emitting" /\ after' = "return" /\ (ended \/ overtaken)
           /\ line' = <<Frame("terminal", 0, "failed")>>
    BY DEF Drains, Emits
  <1>4. ControlTypes'
    <2>1. requests \in Seq(Requests) => requests' \in Seq(Requests)
      OBVIOUS
    <2> QED BY <1>1, <1>2, <1>3, <2>1 DEF ControlTypes, behind
  <1>5. Spoken'
    BY <1>1, SilentWords
  <1>6. ServeFits'
    BY <1>1, <1>3 DEF ServeFits, Concludes, Frame, True, LastWords, HostFits, behind
  <1>7. IdsGrow'
    <2>1. ~Answering'
      BY <1>3 DEF Answering, Replying
    <2> QED BY <1>1, <2>1, NobodyAsks
  <1>8. HostFits'
    BY <1>3 DEF HostFits, HostNotAbandoned, behind
  <1> QED BY <1>4, <1>5, <1>6, <1>7, <1>8

\* The request that is taken is older than those still in the channel, and later than those
\* that were answered.
LEMMA TakeKeeps == ASSUME ControlInv, TakeRequest PROVE ControlInv'
  <1> USE DEF ControlInv
  <1>1. /\ serving = "session" /\ requests # <<>> /\ requests' = Tail(requests)
        /\ UNCHANGED <<lastId, stop, revision, ended, overtaken>>
    BY DEF TakeRequest
  <1>2. CASE Head(requests).op # "inspect"
    BY <1>1, <1>2, LeaveKeeps DEF TakeRequest, SessionFails, behind
  <1>3. CASE Head(requests).op = "inspect"
    <2>1. /\ serving' = "inspecting" /\ asked' = Head(requests)
          /\ UNCHANGED <<line, after, emitted, announced, host, reader>>
      BY <1>3 DEF TakeRequest, GoesTo
    <2>2. requests \in Seq(Requests)
      BY DEF ControlTypes
    <2>3. /\ Head(requests) = requests[1] /\ requests[1] \in Requests
          /\ Len(requests) \in Nat /\ Len(requests') = Len(requests) - 1
          /\ requests' \in Seq(Requests)
          /\ \A k \in 1..Len(requests') : requests'[k] = requests[k + 1]
      BY <2>2, <1>1
    <2>4. ControlTypes'
      BY <1>1, <2>1, <2>3 DEF ControlTypes
    <2>5. Spoken'
      BY <1>1, <2>1, SilentWords
    <2>6. ServeFits'
      BY <1>1, <2>1 DEF ServeFits
    <2>7. IdsGrow'
      <3>1. Len(requests) >= 1
        BY <2>2, <1>1
      <3>2. asked'.id \in Nat /\ asked'.id = requests[1].id
        BY <2>1, <2>3 DEF Requests
      <3>3. \A k \in 1..Len(requests') : requests[1].id < requests'[k].id
        BY <2>3, <3>1 DEF IdsGrow
      <3>4. \A k, l \in 1..Len(requests') : k < l => requests'[k].id < requests'[l].id
        BY <2>3, <3>1 DEF IdsGrow
      <3>5. \A i \in 3..Len(emitted), k \in 1..Len(requests) : emitted[i].id < requests[k].id
        BY <1>1 DEF IdsGrow
      <3>6. reader' = "reading" => requests[1].id <= lastId
                /\ \A k \in 1..Len(requests') : requests'[k].id <= lastId
        BY <2>1, <2>3, <3>1 DEF IdsGrow
      <3>7. \A k \in 1..Len(requests') : k + 1 \in 1..Len(requests)
        BY <2>3
      <3>8. \A i \in 3..Len(emitted'), k \in 1..Len(requests') : emitted'[i].id < requests'[k].id
        BY <2>1, <2>3, <3>5, <3>7
      <3>9. \A i \in 3..Len(emitted) : emitted[i].id < asked'.id
        BY <3>1, <3>2, <3>5, <2>3
      <3> QED BY <1>1, <2>1, <3>2, <3>3, <3>4, <3>6, <3>8, <3>9 DEF IdsGrow
    <2>8. HostFits'
      BY <1>1, <2>1 DEF HostFits, HostNotAbandoned
    <2> QED BY <2>4, <2>5, <2>6, <2>7, <2>8
  <1> QED BY <1>2, <1>3

\* The answer is of the revision that was announced, or it is a refusal.
LEMMA InspectedKeeps == ASSUME ControlInv, Inspected PROVE ControlInv'
  <1> USE DEF ControlInv
  <1>1. /\ serving = "inspecting" /\ announced > 0 /\ Len(emitted) > 1
        /\ UNCHANGED <<lastId, requests, stop, revision, ended, overtaken>>
    BY DEF Inspected, ServeFits
  <1>2. CASE host # "up"
    BY <1>1, <1>2, LeaveKeeps DEF Inspected, SessionFails, behind
  <1>3. CASE host = "up"
    <2> DEFINE f == IF asked.good /\ revision = announced
                    THEN Frame("inspected", asked.id, revision)
                    ELSE Frame("rejected", asked.id, 0)
    <2>1. /\ serving' = "emitting" /\ line' = <<f>> /\ after' = "session"
          /\ UNCHANGED <<emitted, announced, asked, host, reader>>
      BY <1>3 DEF Inspected, Emits
    <2>2. asked.id \in Nat /\ Answering
      BY <1>1 DEF IdsGrow, Answering
    <2>3. /\ f \in Frames /\ f.kind \in Replies /\ f.id = asked.id
          /\ f.kind = "inspected" => f.says = announced
      BY <2>2 DEF Frame, Frames, Replies, ControlTypes
    <2> HIDE DEF f
    <2>4. line' \in Seq(Frames) /\ Len(line') = 1 /\ line'[1] = f
      BY <2>1, <2>3
    <2>5. ControlTypes'
      BY <1>1, <2>1, <2>4 DEF ControlTypes
    <2>6. Spoken'
      BY <1>1, <2>1, SilentWords
    <2>7. Replying'
      BY <1>1, <2>1, <2>3, <2>4 DEF Replying
    <2>8. ServeFits'
      BY <2>1, <2>7 DEF ServeFits
    <2>9. IdsGrow'
      BY <1>1, <2>1, <2>2 DEF IdsGrow
    <2>10. HostFits'
      BY <1>1, <2>1 DEF HostFits, HostNotAbandoned
    <2> QED BY <2>5, <2>6, <2>8, <2>9, <2>10
  <1> QED BY <1>2, <1>3

\* A frame is emitted: what was said before it stands.
LEMMA OldWords ==
  ASSUME ControlInv, serving # "returned", NEW f \in Frames, emitted' = Append(emitted, f),
         UNCHANGED announced
  PROVE  /\ emitted' \in Seq(Frames) /\ Len(emitted) \in Nat
         /\ Len(emitted') = Len(emitted) + 1 /\ emitted'[Len(emitted) + 1] = f
         /\ \A i \in 1..Len(emitted) :
               emitted'[i] = emitted[i] /\ emitted[i].kind \notin LastWords /\ Talks(i)'
  <1>1. emitted \in Seq(Frames)
    BY DEF ControlInv, ControlTypes
  <1>2. /\ emitted' \in Seq(Frames) /\ Len(emitted) \in Nat
        /\ Len(emitted') = Len(emitted) + 1 /\ emitted'[Len(emitted) + 1] = f
        /\ \A i \in 1..Len(emitted) : emitted'[i] = emitted[i]
    BY <1>1
  <1>3. ASSUME NEW i \in 1..Len(emitted) PROVE emitted[i].kind \notin LastWords /\ Talks(i)'
    <2>1. emitted[i].kind \notin LastWords /\ Talks(i)
      BY DEF ControlInv, Spoken
    <2>2. \A j \in 3..(i - 1) : j \in 1..Len(emitted)
      BY <1>2
    <2> QED BY <1>2, <2>1, <2>2 DEF Talks
  <1> QED BY <1>2, <1>3

\* A frame is written: the next of the opening, an answer, or the last word.
LEMMA EmitKeeps == ASSUME ControlInv, Emit PROVE ControlInv'
  <1> USE DEF ControlInv
  <1>1. /\ serving = "emitting" /\ line # <<>> /\ emitted' = Append(emitted, Head(line))
        /\ line' = Tail(line)
        /\ UNCHANGED <<after, announced, asked, lastId, requests, stop, revision, ended, overtaken>>
    BY DEF Emit
  <1>2. line \in Seq(Frames) /\ emitted \in Seq(Frames)
    BY DEF ControlTypes
  <1>a. /\ Head(line) \in Frames /\ line' \in Seq(Frames) /\ Head(line) = line[1]
        /\ Len(line') = Len(line) - 1 /\ Len(emitted) + 1 \in Nat
    BY <1>1, <1>2
  <1>b. PICK f \in Frames : f = Head(line)
    BY <1>a
  <1>c. PICK n \in Nat : n = Len(emitted) + 1
    BY <1>a
  <1>3. line' \in Seq(Frames) /\ f = line[1] /\ Len(line') = Len(line) - 1
    BY <1>a, <1>b
  <1>4. /\ emitted' \in Seq(Frames) /\ Len(emitted) \in Nat
        /\ Len(emitted') = n /\ emitted'[n] = f /\ n = Len(emitted) + 1
        /\ \A i \in 1..Len(emitted) :
              emitted'[i] = emitted[i] /\ emitted[i].kind \notin LastWords /\ Talks(i)'
    BY <1>1, <1>b, <1>c, OldWords
  <1>5. \A i \in 1..Len(emitted') : i \in 1..Len(emitted) \/ i = n
    BY <1>4
  <1>6. ASSUME f.kind \notin LastWords, Talks(n)' PROVE Spoken'
    BY <1>4, <1>5, <1>6 DEF Spoken
  <1>7. CASE Opens
    <2>1. /\ announced > 0 /\ after = "session"
          /\ \/ Len(emitted) = 0 /\ Len(line) = 2 /\ f = Frame("ready", 0, announced)
                                 /\ line' = <<Frame("started", 1, announced)>>
             \/ Len(emitted) = 1 /\ Len(line) = 1 /\ f = Frame("started", 1, announced)
      <3>1. announced \in Nat
        BY DEF ControlTypes
      <3>2. announced > 0 /\ after = "session"
        BY <1>7 DEF Opens
      <3>3. CASE emitted = <<>> /\ line = <<Frame("ready", 0, announced),
                                            Frame("started", 1, announced)>>
        <4>1. /\ Len(line) = 2 /\ Head(line) = Frame("ready", 0, announced)
              /\ Tail(line) = <<Frame("started", 1, announced)>>
          BY <3>1, <3>3, OpeningLine
        <4> QED BY <1>1, <1>b, <3>2, <3>3, <4>1
      <3>4. CASE Len(emitted) = 1 /\ line = <<Frame("started", 1, announced)>>
        <4>1. Len(line) = 1 /\ Head(line) = Frame("started", 1, announced)
          BY <3>4
        <4> QED BY <1>b, <3>2, <3>4, <4>1
      <3> QED BY <1>7, <3>3, <3>4 DEF Opens
    <2>2. /\ UNCHANGED <<reader, host>>
          /\ Len(emitted) = 0 => serving' = "emitting"
          /\ Len(emitted) = 1 => serving' = "session"
      <3>1. CASE Len(line) = 2
        BY <1>1, <2>1, <3>1 DEF Emit
      <3>2. CASE Len(line) = 1
        <4>1. ~(Len(line) > 1)
          BY <3>2
        <4>2. serving' = "session" /\ UNCHANGED <<reader, host>>
          BY <2>1, <4>1 DEF Emit
        <4> QED BY <2>1, <3>2, <4>2
      <3> QED BY <2>1, <3>1, <3>2
    <2>3. ControlTypes'
      BY <1>1, <1>3, <1>4, <2>1, <2>2 DEF ControlTypes
    <2>4. Spoken'
      BY <1>1, <1>4, <1>6, <2>1 DEF Talks, Frame, LastWords
    <2>5. ServeFits'
      BY <1>1, <1>4, <2>1, <2>2 DEF ServeFits, Opens
    <2>6. IdsGrow'
      <3>1. ~Answering'
        BY <1>4, <2>1, <2>2 DEF Answering, Replying
      <3>2. \A i \in 3..Len(emitted') : FALSE
        BY <1>4, <2>1
      <3> QED BY <1>1, <2>2, <3>1, <3>2 DEF IdsGrow
    <2>7. HostFits'
      BY <1>1, <2>1, <2>2 DEF HostFits, HostNotAbandoned
    <2> QED BY <2>3, <2>4, <2>5, <2>6, <2>7
  <1>8. CASE Replying
    <2>1. /\ after = "session" /\ announced > 0 /\ Len(emitted) > 1 /\ Len(line) = 1
          /\ f.kind \in Replies /\ f.id = asked.id
          /\ f.kind = "inspected" => f.says = announced
      BY <1>3, <1>8 DEF Replying
    <2>2. UNCHANGED <<reader, host>> /\ serving' = "session"
      BY <1>1, <2>1 DEF Emit
    <2>3. ControlTypes'
      BY <1>1, <1>3, <1>4, <2>1, <2>2 DEF ControlTypes
    <2>4. Answering
      BY <1>1, <1>8 DEF Answering
    <2>5. /\ asked.id \in Nat /\ \A k \in 1..Len(requests) : asked.id < requests[k].id
          /\ \A i \in 3..Len(emitted) : emitted[i].id < asked.id
      BY <2>4 DEF IdsGrow
    <2>6. Spoken'
      <3>1. \A j \in 3..(n - 1) : emitted'[j].id < f.id
        BY <1>4, <2>1, <2>5
      <3>2. Talks(n)'
        BY <1>1, <1>4, <2>1, <3>1 DEF Talks
      <3> QED BY <1>6, <2>1, <3>2 DEF Replies, LastWords
    <2>7. ServeFits'
      BY <1>1, <1>4, <2>1, <2>2 DEF ServeFits
    <2>8. IdsGrow'
      <3>1. ~Answering'
        BY <2>2 DEF Answering
      <3>2. \A i \in 3..Len(emitted') : i = n \/ i \in 3..Len(emitted)
        BY <1>4
      <3>3. ASSUME NEW i \in 3..Len(emitted')
            PROVE  /\ reader = "reading" => emitted'[i].id <= lastId
                   /\ \A k \in 1..Len(requests) : emitted'[i].id < requests[k].id
        <4>1. CASE i = n
          BY <1>4, <2>1, <2>4, <2>5, <4>1 DEF IdsGrow
        <4>2. CASE i \in 3..Len(emitted)
          BY <1>1, <1>4, <4>2 DEF IdsGrow
        <4> QED BY <3>2, <4>1, <4>2
      <3> QED BY <1>1, <2>2, <3>1, <3>3 DEF IdsGrow
    <2>9. HostFits'
      BY <1>1, <2>1, <2>2 DEF HostFits, HostNotAbandoned
    <2> QED BY <2>3, <2>6, <2>7, <2>8, <2>9
  <1>9. CASE Concludes
    <2>1. /\ after = "return" /\ Len(line) = 1 /\ f.kind \in LastWords /\ True(f)
          /\ host = "up" => announced > 0 /\ overtaken
      BY <1>3, <1>9 DEF Concludes
    <2>2. /\ serving' = "returned" /\ reader' = "ended"
          /\ host' = IF host = "up" THEN "abandoned" ELSE host
      BY <1>1, <2>1 DEF Emit, Returns
    <2>3. ControlTypes'
      BY <1>1, <1>3, <1>4, <2>1, <2>2 DEF ControlTypes
    <2>4. True(f)'
      BY <1>1, <2>1, <2>2 DEF True
    <2>5. Spoken'
      BY <1>4, <1>5, <2>1, <2>2, <2>4 DEF Spoken, True
    <2>6. ServeFits'
      BY <2>2 DEF ServeFits
    <2>7. IdsGrow'
      BY <1>1, <2>2 DEF IdsGrow, Answering
    <2>8. HostFits'
      BY <1>1, <2>1, <2>2 DEF HostFits, HostNotAbandoned
    <2> QED BY <2>3, <2>5, <2>6, <2>7, <2>8
  <1> QED BY <1>1, <1>7, <1>8, <1>9 DEF ServeFits

\* A write fails: before readiness there is no Host to leave, afterwards it is drained.
LEMMA EmitFailsKeeps == ASSUME ControlInv, EmitFails PROVE ControlInv'
  <1> USE DEF ControlInv
  <1>1. /\ serving = "emitting" /\ UNCHANGED <<line, emitted, announced, asked, lastId, requests,
                                               stop, revision, ended, overtaken>>
    BY DEF EmitFails, Drains
  <1>2. announced \in Nat
    BY DEF ControlTypes
  <1>3. \/ /\ announced = 0 /\ serving' = "returned" /\ reader' = "ended" /\ host # "up"
           /\ UNCHANGED <<after, host>>
        \/ /\ serving' = "draining" /\ after' = "error" /\ UNCHANGED <<host, reader>>
    <2>1. CASE announced = 0
      <3>1. host # "up"
        BY <1>1, <2>1 DEF ServeFits, Opens, Replying, Concludes
      <3> QED BY <2>1, <3>1 DEF EmitFails, Returns
    <2>2. CASE announced # 0
      BY <2>2 DEF EmitFails, Drains
    <2> QED BY <2>1, <2>2
  <1>4. ControlTypes'
    BY <1>1, <1>3 DEF ControlTypes
  <1>5. Spoken'
    BY <1>1, SilentWords
  <1>6. ServeFits'
    BY <1>1, <1>3 DEF ServeFits
  <1>7. IdsGrow'
    <2>1. ~Answering'
      BY <1>3 DEF Answering
    <2>2. reader' = "reading" => reader = "reading"
      BY <1>3
    <2> QED BY <1>1, <2>1, <2>2, NobodyAsks
  <1>8. HostFits'
    BY <1>1, <1>3 DEF HostFits, HostNotAbandoned
  <1> QED BY <1>4, <1>5, <1>6, <1>7, <1>8

\* The Host is drained: the last word says "suspended" only if it is.
LEMMA DrainKeeps == ASSUME ControlInv, Drain PROVE ControlInv'
  <1> USE DEF ControlInv
  <1>1. /\ serving = "draining"
        /\ UNCHANGED <<lastId, requests, stop, emitted, announced, asked, revision, ended,
                       overtaken>>
    BY DEF Drain
  <1>2. PICK ok \in BOOLEAN :
          /\ ok => host \in {"up", "stopped"}
          /\ host' = CASE ok -> "suspended"
                       [] ~ok /\ host = "up" -> "failed"
                       [] OTHER -> host
          /\ IF after = "error" THEN /\ serving' = "returned" /\ ending' = "error"
                                     /\ reader' = "ended" /\ UNCHANGED <<line, after>>
             ELSE /\ serving' = "emitting" /\ after' = "return" /\ UNCHANGED <<ending, reader>>
                  /\ line' = IF after = "not_ready" THEN StartRefused("generation_not_ready")
                             ELSE <<Frame("terminal", stop[1],
                                          IF ok THEN "suspended" ELSE "failed")>>
    BY DEF Drain
  <1>3. host' # "up" /\ (ok => host' = "suspended") /\ (host' = "abandoned" => host = "abandoned")
    <2>1. CASE ok
      BY <1>2, <2>1
    <2>2. CASE ~ok /\ host = "up"
      BY <1>2, <2>2
    <2>3. CASE ~ok /\ host # "up"
      BY <1>2, <2>3
    <2> QED BY <2>1, <2>2, <2>3
  <1>4. HostFits'
    <2>1. serving' \notin {"handshake", "starting"}
      BY <1>2
    <2> QED BY <1>1, <1>3, <2>1 DEF HostFits, HostNotAbandoned
  <1>5. ~Answering'
    BY <1>2 DEF Answering, Replying
  <1>6. IdsGrow'
    <2>1. reader' = "reading" => reader = "reading"
      BY <1>2
    <2> QED BY <1>1, <1>5, <2>1, NobodyAsks
  <1>7. Spoken'
    BY <1>1, SilentWords
  <1>8. CASE after = "error"
    <2>1. serving' = "returned" /\ reader' = "ended" /\ UNCHANGED line
      BY <1>2, <1>8
    <2>2. ControlTypes'
      BY <1>1, <2>1 DEF ControlTypes
    <2>3. ServeFits'
      BY <2>1 DEF ServeFits
    <2> QED BY <1>4, <1>6, <1>7, <2>2, <2>3
  <1>9. CASE after # "error"
    <2>1. serving' = "emitting" /\ after' = "return" /\ UNCHANGED reader
      BY <1>2, <1>9
    <2>2. after \in {"not_ready", "terminal"} /\ (after = "terminal" => stop # <<>>)
      BY <1>1, <1>9 DEF ServeFits
    <2>3. PICK f \in Frames :
            line' = <<f>> /\ f.kind \in LastWords
            /\ (f.kind = "terminal" /\ f.says = "suspended" => host' = "suspended" /\ stop = <<f.id>>)
      <3>1. CASE after = "not_ready"
        <4>1. line' = <<Frame("start_failed", 1, "generation_not_ready")>>
          BY <1>2, <3>1 DEF StartRefused
        <4>2. Frame("start_failed", 1, "generation_not_ready") \in Frames
          BY DEF Frame, Frames, LastWords, Causes
        <4>3. /\ Frame("start_failed", 1, "generation_not_ready").kind = "start_failed"
          BY DEF Frame
        <4> QED BY <4>1, <4>2, <4>3 DEF LastWords
      <3>2. CASE after = "terminal"
        <4>1. stop \in Seq(Nat) /\ Len(stop) = 1
          BY <2>2, <3>2 DEF ControlTypes
        <4>2. stop[1] \in Nat /\ stop = <<stop[1]>>
          BY ONLY <4>1
        <4> DEFINE x == Frame("terminal", stop[1], IF ok THEN "suspended" ELSE "failed")
        <4>3. line' = <<x>>
          BY <1>2, <3>2
        <4>4. x \in Frames /\ x.kind = "terminal" /\ x.id = stop[1] /\ (x.says = "suspended" => ok)
          BY <4>2 DEF Frame, Frames, LastWords, Causes
        <4> HIDE DEF x
        <4> QED BY <1>3, <4>2, <4>3, <4>4 DEF LastWords
      <3> QED BY <2>2, <3>1, <3>2
    <2>4. line' \in Seq(Frames) /\ Len(line') = 1 /\ line'[1] = f
      BY <2>3
    <2>5. ControlTypes'
      BY <1>1, <2>1, <2>4 DEF ControlTypes
    <2>6. Concludes'
      BY <1>1, <1>3, <2>1, <2>3, <2>4 DEF Concludes, True
    <2>7. ServeFits'
      BY <2>1, <2>6 DEF ServeFits
    <2> QED BY <1>4, <1>6, <1>7, <2>5, <2>7
  <1> QED BY <1>8, <1>9

\* Every step keeps all of it.
LEMMA ControlStep == ControlInv /\ [ControlNext]_control => ControlInv'
  <1> SUFFICES ASSUME ControlInv, [ControlNext]_control PROVE ControlInv'
    OBVIOUS
  <1>1. CASE UNCHANGED control
    BY <1>1 DEF control, asking, serve, behind, ControlInv, ControlTypes, Spoken, Talks, True,
        ServeFits, Opens, Replying, Concludes, IdsGrow, Answering, HostFits, HostNotAbandoned
  <1>2. CASE SessionStops
    BY <1>2, LeaveKeeps DEF SessionStops, asking
  <1>3. CASE SessionLosesHost
    BY <1>3, LeaveKeeps DEF SessionLosesHost, asking
  <1> QED BY <1>1, <1>2, <1>3, ReaderKeeps, HostKeeps, HandshakeKeeps, StartKeeps, CheckKeeps,
          EmitKeeps, EmitFailsKeeps, DrainKeeps, TakeKeeps, InspectedKeeps
          DEF ControlNext, ServeStep

\* What is said is what is so, for channels of any capacity and any number of requests: readiness
\* comes before the answers, answers come in the order of the requests and are of one revision,
\* the last word is the last and true; and a Host that was announced is not left behind, but by
\* a session that lost events (serve, session, emit).
THEOREM OwnersHearTruth == ControlSpec => []OwnerIsTold
  <1>1. ASSUME ControlInv PROVE OwnerIsTold
    <2> USE DEF ControlInv
    <2>1. emitted \in Seq(Frames) /\ DOMAIN emitted = 1..Len(emitted) /\ Len(emitted) \in Nat
      BY <1>1 DEF ControlTypes
    <2>2. ASSUME NEW i \in Answers
          PROVE  /\ i \in 1..Len(emitted) /\ i > 2 /\ Talks(i) /\ emitted[i].kind \in Replies
      <3>1. i \in 1..Len(emitted) /\ emitted[i].kind \in Replies
        BY <2>1 DEF Answers, Said, Replies
      <3>2. emitted[i].kind \notin LastWords
        BY <3>1 DEF Replies, LastWords
      <3>3. Talks(i)
        BY <1>1, <3>1, <3>2 DEF Spoken
      <3>4. i # 1 /\ i # 2
        BY <3>1, <3>3 DEF Talks, Replies
      <3> QED BY <2>1, <3>1, <3>3, <3>4
    <2>3. ASSUME NEW i \in Answers
          PROVE  /\ Talks(1) /\ Talks(2) /\ 1 \in 1..Len(emitted)
      <3>1. i \in 1..Len(emitted) /\ i > 2
        BY <2>2
      <3>2. ASSUME NEW k \in {1, 2} PROVE Talks(k)
        <4>1. Len(emitted) \in Nat /\ i \in Nat /\ i > 2 /\ i <= Len(emitted)
          BY <2>1, <3>1
        <4>a. k \in 1..Len(emitted) /\ k # Len(emitted)
          BY ONLY <4>1
        <4>2. emitted[k].kind \notin LastWords
          BY <1>1, <4>a DEF Spoken
        <4> QED BY <1>1, <4>a, <4>2 DEF Spoken
      <3> QED BY <2>1, <3>1, <3>2
    <2>4. \A i \in Answers: emitted[1].kind = "ready" /\ emitted[2].kind = "started" /\ i > 2
      BY <2>2, <2>3 DEF Talks
    <2>5. ASSUME NEW i \in Answers, NEW j \in Answers, i < j PROVE emitted[i].id < emitted[j].id
      <3>1. i \in 3..(j - 1) /\ j \in 1..Len(emitted) /\ j > 2
        BY <2>1, <2>2, <2>5
      <3>2. Talks(j) /\ j # 1 /\ j # 2
        BY <2>2, <3>1
      <3> QED BY <3>1, <3>2 DEF Talks
    <2>6. ASSUME NEW i \in Said("inspected") PROVE emitted[i].says = emitted[1].says
      <3>1. i \in Answers /\ emitted[i].kind = "inspected"
        BY <2>6 DEF Said, Answers
      <3>2. emitted[1].says = announced
        BY <2>3, <3>1 DEF Talks
      <3> QED BY <2>1, <2>2, <3>1, <3>2 DEF Talks
    <2>7. ASSUME NEW i \in Said("terminal") \cup Said("start_failed")
          PROVE  i = Len(emitted) /\ True(emitted[i])
      <3>1. i \in 1..Len(emitted) /\ emitted[i].kind \in LastWords
        BY <2>1 DEF Said, LastWords
      <3> QED BY <1>1, <3>1 DEF Spoken
    <2>8. OwnerReadsTruth
      <3>1. \A i \in Said("terminal") :
              emitted[i].says = "suspended" => host = "suspended" /\ stop = <<emitted[i].id>>
        BY <2>7 DEF True, Said
      <3> QED BY <2>4, <2>5, <2>6, <2>7, <3>1 DEF OwnerReadsTruth
    <2> QED BY <1>1, <2>8 DEF OwnerIsTold, HostFits
  <1> QED BY <1>1, ControlInitially, ControlStep, PTL DEF ControlSpec

-----------------------------------------------------------------------------
(* The owner of a generation: its Controller                                *)

Ats         == {"new", "sending", "waiting", "answered", "left"}
CallAnswers == {None, "done", "error", "stopped", "rejected"} \union Terminal
Outcomes    == {None, "suspended", "retired", "failed", "panicked"}
Loops       == {"select", "rest", "maintaining", "executing", "draining", "ended"}

CallsOK ==
    /\ kind \in [Calls -> Kinds \union {None}]
    /\ at \in [Calls -> Ats]
    /\ answer \in [Calls -> CallAnswers]
    /\ \A c \in Calls : at[c] = "new" => kind[c] = None
    /\ \A c \in Calls : at[c] = "sending" => kind[c] \in Commands

ChannelOK ==
    /\ queue \in Seq(Calls) /\ Len(queue) <= QueueCapacity
    /\ open \in BOOLEAN /\ clients \in BOOLEAN /\ closing \in BOOLEAN
    /\ \A i \in DOMAIN queue : kind[queue[i]] \in Commands

TaskOK ==
    /\ request \in Calls \union {None} /\ result \in {None, "suspended", "error"}
    /\ loop \in Loops /\ outcome \in Outcomes
    /\ current \in Calls \union {None}
    /\ current \in Calls => kind[current] \in Commands
    /\ loop = "executing" => current \in Calls
    /\ owed \subseteq {c \in Calls : kind[c] = "shutdown"}

EndOK ==
    /\ loop = "ended" <=> outcome # None
    /\ result # None => loop = "ended"
    /\ result = "suspended" => outcome = "suspended"
    /\ \A c \in Calls : kind[c] = "drain" /\ at[c] = "answered" => loop = "ended"

ControllerInv == CallsOK /\ ChannelOK /\ TaskOK /\ EndOK /\ JoinConsistent /\ JoinersAgree

\* The strings the model uses for an end are not None.
LEMMA NotNone ==
  /\ None # "suspended" /\ None # "retired" /\ None # "failed" /\ None # "panicked"
  /\ None # "error" /\ None # "stopped" /\ None # "done" /\ None # "rejected"
  /\ None \notin Kinds /\ None \notin Calls
  BY CallsAssumption DEF Kinds, Commands

\* An empty channel is a channel.
LEMMA EmptyChannel ==
  ASSUME queue = <<>>, open \in BOOLEAN, clients \in BOOLEAN, closing \in BOOLEAN
  PROVE  ChannelOK
  <1>1. queue \in Seq(Calls) /\ Len(queue) = 0 /\ DOMAIN queue = {}
    BY EmptySeq
  <1>2. 0 <= QueueCapacity
    BY QueueAssumption
  <1> QED BY <1>1, <1>2 DEF ChannelOK

\* The same of the next state.
LEMMA EmptiedChannel ==
  ASSUME queue' = <<>>, open' \in BOOLEAN, clients' \in BOOLEAN, closing' \in BOOLEAN
  PROVE  ChannelOK'
  <1>1. queue' \in Seq(Calls) /\ Len(queue') = 0 /\ DOMAIN queue' = {}
    BY EmptySeq
  <1>2. 0 <= QueueCapacity
    BY QueueAssumption
  <1> QED BY <1>1, <1>2 DEF ChannelOK

\* run returns: nobody is told of another end than the one that came.
LEMMA ReturnKeeps ==
  ASSUME ControllerInv, NEW o \in Outcomes \ {None}, NEW S \in SUBSET Calls, NEW a \in CallAnswers,
         \A c \in S : kind[c] \in Commands, a \in Terminal => a = o,
         loop # "ended", Return(o, S, a),
         result' \in {None, "suspended", "error"}, result' = "suspended" => o = "suspended"
  PROVE  ControllerInv'
  <1> DEFINE D == (Queued \union owed \union {current}) \ S
  <1>1. \A c \in Calls : c \in D => kind[c] \in Commands
    BY DEF ControllerInv, TaskOK, ChannelOK, Queued, Commands
  <1> HIDE DEF D
  <1>2. /\ at' = [c \in Calls |-> IF c \in S \union D /\ at[c] = "waiting"
                                  THEN "answered" ELSE at[c]]
        /\ answer' = [c \in Calls |-> IF at[c] # "waiting" THEN answer[c]
                                      ELSE IF c \in S THEN a
                                      ELSE IF c \in D THEN "stopped"
                                      ELSE answer[c]]
        /\ kind' = kind
    BY DEF Return, D
  <1>3. CallsOK'
    BY <1>2 DEF ControllerInv, CallsOK, Ats, CallAnswers
  <1>4. ChannelOK' /\ TaskOK'
    <2>1. queue' = <<>> /\ open' = FALSE /\ owed' = {} /\ current' = None /\ loop' = "ended"
          /\ outcome' = o /\ UNCHANGED <<kind, clients, request, closing>>
      BY DEF Return
    <2>2. ChannelOK'
      BY <2>1, EmptiedChannel DEF ControllerInv, ChannelOK
    <2>3. TaskOK'
      <3>1. request \in Calls \union {None} /\ None \notin Calls
        BY NotNone DEF ControllerInv, TaskOK
      <3> QED BY <2>1, <3>1 DEF TaskOK, Loops
    <2> QED BY <2>2, <2>3
  <1>5. \A c \in Calls : answer[c] \notin Terminal
    BY NotNone DEF ControllerInv, EndOK, JoinConsistent, Terminal
  <1>6. EndOK' /\ JoinConsistent'
    <2>1. loop' = "ended" /\ outcome' = o /\ o # None
      BY DEF Return
    <2>2. EndOK'
      BY <2>1 DEF EndOK
    <2>3. \A c \in Calls : answer'[c] \in Terminal => answer'[c] = o
      BY <1>2, <1>5 DEF Terminal
    <2> QED BY <2>1, <2>2, <2>3 DEF JoinConsistent
  <1>7. JoinersAgree'
    <2>1. ASSUME NEW c \in Calls, kind'[c] = "drain", at'[c] = "answered"
          PROVE  FALSE
      <3>1. c \notin S /\ c \notin D /\ at[c] = "answered"
        BY <1>1, <1>2, <2>1 DEF Commands
      <3> QED BY <1>2, <2>1, <3>1 DEF ControllerInv, EndOK
    <2> QED BY <2>1 DEF JoinersAgree
  <1> QED BY <1>3, <1>4, <1>6, <1>7 DEF ControllerInv

\* Replies before the end: only commands get them, and none tells of an end.
LEMMA AnswerKeeps ==
  ASSUME ControllerInv, NEW S, \A c \in Calls : c \in S => kind[c] \in Commands,
         NEW a \in CallAnswers \ Terminal, Answer(S, a)
  PROVE  /\ CallsOK' /\ kind' = kind
         /\ \A c \in Calls : kind[c] = "drain" => at'[c] = at[c] /\ answer'[c] = answer[c]
         /\ \A c \in Calls : answer'[c] \in Terminal => answer[c] = answer'[c]
  BY DEF ControllerInv, CallsOK, Answer, CallAnswers, Ats, Commands

\* A step that answers, at most, commands, and does not end the loop.
LEMMA QuietKeeps ==
  ASSUME ControllerInv, CallsOK', ChannelOK', TaskOK', kind' = kind,
         \A c \in Calls : kind[c] = "drain" => at'[c] = at[c] /\ answer'[c] = answer[c],
         \A c \in Calls : answer'[c] \in Terminal => answer[c] = answer'[c],
         UNCHANGED <<result, outcome>>, loop' = "ended" <=> loop = "ended"
  PROVE  ControllerInv'
  <1>1. EndOK'
    BY DEF ControllerInv, EndOK
  <1>2. JoinConsistent'
    BY DEF ControllerInv, JoinConsistent
  <1>3. JoinersAgree'
    BY DEF ControllerInv, JoinersAgree
  <1> QED BY <1>1, <1>2, <1>3 DEF ControllerInv

\* A step that leaves every call as it was.
LEMMA SilentKeeps ==
  ASSUME ControllerInv, UNCHANGED calls, ChannelOK', TaskOK',
         UNCHANGED <<result, outcome>>, loop' = "ended" <=> loop = "ended"
  PROVE  ControllerInv'
  <1>1. CallsOK'
    BY DEF ControllerInv, CallsOK, calls
  <1> QED BY <1>1, QuietKeeps DEF calls

-----------------------------------------------------------------------------
(* Clients                                                                  *)

\* A call is made: it is nowhere in the channel yet.
LEMMA CallKeeps ==
  ASSUME ControllerInv, NEW c \in Calls, NEW k \in Kinds, Call(c, k)
  PROVE  ControllerInv'
  <1>1. at[c] = "new" /\ kind[c] = None
    BY DEF Call, ControllerInv, CallsOK
  <1>2. /\ kind' = [kind EXCEPT ![c] = k]
        /\ at' = [at EXCEPT ![c] = IF k = "drain" THEN "waiting" ELSE "sending"]
        /\ UNCHANGED <<answer, result, channel, task>> /\ request' \in {request, c}
    BY DEF Call
  <1>3. CallsOK'
    BY <1>1, <1>2, NotNone DEF ControllerInv, CallsOK, Ats, Kinds, Commands
  <1>4. ChannelOK'
    BY <1>1, <1>2, NotNone DEF ControllerInv, ChannelOK, CallsOK, channel, task, Commands, Kinds
  <1>5. TaskOK'
    BY <1>1, <1>2, NotNone DEF ControllerInv, TaskOK, CallsOK, task, Commands, Kinds
  <1>6. EndOK' /\ JoinConsistent' /\ JoinersAgree'
    BY <1>1, <1>2 DEF ControllerInv, EndOK, JoinConsistent, JoinersAgree, CallsOK, task
  <1> QED BY <1>3, <1>4, <1>5, <1>6 DEF ControllerInv

\* A command enters the channel.
LEMMA EnqueueKeeps ==
  ASSUME ControllerInv, NEW c \in Calls, Enqueue(c)
  PROVE  ControllerInv'
  <1>1. /\ at[c] = "sending" /\ kind[c] \in Commands
        /\ at' = [at EXCEPT ![c] = "waiting"] /\ queue' = Append(queue, c)
        /\ Len(queue) < QueueCapacity /\ queue \in Seq(Calls)
        /\ UNCHANGED <<kind, answer, open, clients, watches, task>>
    BY DEF Enqueue, ControllerInv, CallsOK, ChannelOK
  <1>2. CallsOK'
    BY <1>1 DEF ControllerInv, CallsOK, Ats
  <1>3. ChannelOK'
    BY <1>1, QueueAssumption DEF ControllerInv, ChannelOK, task
  <1>4. TaskOK'
    BY <1>1 DEF ControllerInv, TaskOK, watches, task
  <1> QED BY <1>1, <1>2, <1>3, <1>4, QuietKeeps DEF Commands, watches, task, ControllerInv, CallsOK

\* A sender finds the channel closed, or a caller goes away.
LEMMA GoneKeeps ==
  ASSUME ControllerInv, NEW c \in Calls, SendFails(c) \/ Abandon(c)
  PROVE  ControllerInv'
  <1>1. CASE SendFails(c)
    <2>1. /\ kind[c] \in Commands /\ at' = [at EXCEPT ![c] = "answered"]
          /\ answer' = [answer EXCEPT ![c] = "stopped"]
          /\ UNCHANGED <<kind, channel, watches, task>>
      BY <1>1 DEF SendFails, ControllerInv, CallsOK
    <2>2. CallsOK'
      BY <2>1 DEF ControllerInv, CallsOK, Ats, CallAnswers
    <2>3. ChannelOK' /\ TaskOK'
      BY <2>1 DEF ControllerInv, ChannelOK, TaskOK, channel, watches, task
    <2>4. "stopped" \notin Terminal
      BY DEF Terminal
    <2> QED BY <2>1, <2>2, <2>3, <2>4, QuietKeeps
            DEF Commands, watches, task, ControllerInv, CallsOK
  <1>2. CASE Abandon(c)
    <2>1. /\ at' = [at EXCEPT ![c] = "left"]
          /\ UNCHANGED <<kind, answer, channel, watches, task>>
      BY <1>2 DEF Abandon
    <2>2. CallsOK' /\ ChannelOK' /\ TaskOK'
      BY <2>1 DEF ControllerInv, CallsOK, ChannelOK, TaskOK, channel, watches, task, Ats
    <2>3. EndOK' /\ JoinConsistent' /\ JoinersAgree'
      BY <2>1 DEF ControllerInv, CallsOK, EndOK, JoinConsistent, JoinersAgree, watches, task
    <2> QED BY <2>2, <2>3 DEF ControllerInv
  <1> QED BY <1>1, <1>2

\* A caller of drain_and_suspend hears the result, or that there is none.
LEMMA JoinKeeps ==
  ASSUME ControllerInv, NEW c \in Calls, Join(c)
  PROVE  ControllerInv'
  <1>1. /\ at[c] = "waiting" /\ kind[c] = "drain" /\ loop = "ended"
        /\ kind' = kind /\ UNCHANGED <<channel, watches, task>>
    BY DEF Join, Answer, ControllerInv, EndOK
  <1>2. PICK a \in CallAnswers : /\ Answer({c}, a)
                                 /\ result # None => a = result
                                 /\ a \in Terminal => outcome = a
    BY DEF Join, ControllerInv, TaskOK, EndOK, CallAnswers, Terminal
  <1>3. /\ at' = [at EXCEPT ![c] = "answered"] /\ answer' = [answer EXCEPT ![c] = a]
    BY <1>1, <1>2 DEF Answer, ControllerInv, CallsOK
  <1>4. CallsOK' /\ ChannelOK' /\ TaskOK'
    BY <1>1, <1>3 DEF ControllerInv, CallsOK, ChannelOK, TaskOK, channel, watches, task, Ats
  <1>5. EndOK' /\ JoinConsistent' /\ JoinersAgree'
    BY <1>1, <1>2, <1>3 DEF ControllerInv, CallsOK, EndOK, JoinConsistent, JoinersAgree,
                            watches, task
  <1> QED BY <1>4, <1>5 DEF ControllerInv

-----------------------------------------------------------------------------
(* run                                                                      *)

\* The loop goes round, or the last client handle goes.
LEMMA RoundKeeps ==
  ASSUME ControllerInv, Tick \/ Park \/ Receive \/ DropClients
  PROVE  ControllerInv'
  <1>1. UNCHANGED calls /\ UNCHANGED <<result, outcome>>
    BY DEF Tick, Park, Receive, DropClients, watches, task
  <1>2. loop' = "ended" <=> loop = "ended"
    BY DEF Tick, Park, Receive, DropClients, task
  <1>3. ChannelOK' /\ TaskOK'
    <2>1. CASE Tick \/ Park \/ DropClients
      BY <2>1 DEF Tick, Park, DropClients, ControllerInv, ChannelOK, TaskOK, calls, channel,
                  watches, task, Loops
    <2>2. CASE Receive
      <3>1. /\ queue \in Seq(Calls) /\ queue # <<>> /\ Len(queue) <= QueueCapacity
            /\ \A i \in DOMAIN queue : kind[queue[i]] \in Commands
        BY <2>2 DEF Receive, ControllerInv, ChannelOK
      <3>2. /\ Head(queue) \in Calls /\ kind[Head(queue)] \in Commands
            /\ Tail(queue) \in Seq(Calls) /\ Len(Tail(queue)) <= QueueCapacity
            /\ \A i \in DOMAIN Tail(queue) : kind[Tail(queue)[i]] \in Commands
        <4>1. Len(queue) \in Nat /\ Len(queue) > 0 /\ DOMAIN queue = 1..Len(queue)
          BY <3>1, EmptySeq
        <4>2. Head(queue) = queue[1] /\ 1 \in DOMAIN queue
          BY <3>1, <4>1
        <4>3. /\ Tail(queue) \in Seq(Calls) /\ Len(Tail(queue)) = Len(queue) - 1
              /\ \A i \in 1..Len(queue) - 1 : Tail(queue)[i] = queue[i + 1]
          BY <3>1, HeadTailProperties
        <4>4. DOMAIN Tail(queue) = 1..Len(queue) - 1
          BY <4>1, <4>3
        <4>5. \A i \in DOMAIN Tail(queue) : kind[Tail(queue)[i]] \in Commands
          BY <3>1, <4>1, <4>3, <4>4
        <4>6. Len(Tail(queue)) <= QueueCapacity
          BY <3>1, <4>1, <4>3, QueueAssumption
        <4>7. Head(queue) \in Calls
          BY <3>1, <4>2, <4>1
        <4> QED BY <3>1, <4>2, <4>3, <4>5, <4>6, <4>7
      <3> QED BY <2>2, <3>2 DEF Receive, ControllerInv, ChannelOK, TaskOK, calls, watches, Loops
    <2> QED BY <2>1, <2>2
  <1> QED BY <1>1, <1>2, <1>3, SilentKeeps

\* A suspension is noticed: what is queued is dropped.
LEMMA PollKeeps ==
  ASSUME ControllerInv, Poll
  PROVE  ControllerInv'
  <1>0. /\ loop # "ended" /\ loop' \in {"draining", "rest"}
        /\ UNCHANGED <<clients, watches, current, closing, owed, outcome>>
    BY DEF Poll
  <1>1. CASE Answer(Queued, "stopped") /\ queue' = <<>> /\ open' = FALSE
    <2>1. \A c \in Calls : c \in Queued => kind[c] \in Commands
      BY DEF ControllerInv, ChannelOK, Queued
    <2>2. "stopped" \in CallAnswers \ Terminal
      BY DEF CallAnswers, Terminal
    <2>3. /\ CallsOK' /\ kind' = kind
          /\ \A c \in Calls : kind[c] = "drain" => at'[c] = at[c] /\ answer'[c] = answer[c]
          /\ \A c \in Calls : answer'[c] \in Terminal => answer[c] = answer'[c]
      BY <1>1, <2>1, <2>2, AnswerKeeps
    <2>4. ChannelOK' /\ TaskOK'
      <3>1. ChannelOK'
        BY <1>0, <1>1, EmptiedChannel DEF ControllerInv, ChannelOK
      <3>2. TaskOK'
        BY <1>0, <2>3 DEF ControllerInv, TaskOK, watches, Loops
      <3> QED BY <3>1, <3>2
    <2> QED BY <1>0, <2>3, <2>4, QuietKeeps DEF watches
  <1>2. CASE UNCHANGED <<calls, queue, open>>
    <2>1. ChannelOK' /\ TaskOK'
      BY <1>0, <1>2 DEF ControllerInv, ChannelOK, TaskOK, watches, calls, Loops
    <2> QED BY <1>0, <1>2, <2>1, SilentKeeps DEF watches, calls
  <1> QED BY <1>1, <1>2 DEF Poll

\* run returns after a suspension, a pass or a panic.
LEMMA EndKeeps ==
  ASSUME ControllerInv, loop # "ended",
         \/ FinishDrain
         \/ Retired
         \/ Return("failed", owed, "error") /\ UNCHANGED result
         \/ Panic
  PROVE  ControllerInv'
  <1>1. /\ result \in {None, "suspended", "error"} /\ result # "suspended"
        /\ owed \in SUBSET Calls /\ \A c \in owed : kind[c] \in Commands
    <2>1. owed \in SUBSET Calls /\ \A c \in owed : kind[c] \in Commands
      BY DEF ControllerInv, TaskOK, Commands
    <2> QED BY <2>1, NotNone DEF ControllerInv, TaskOK, EndOK
  <1>2. /\ {"suspended", "retired", "failed", "panicked"} \subseteq Outcomes \ {None}
        /\ {None, "retired", "error"} \subseteq CallAnswers
        /\ None \notin Terminal /\ "error" \notin Terminal
    BY NotNone DEF Outcomes, CallAnswers, Terminal
  <1>3. {} \in SUBSET Calls /\ \A c \in {} : kind[c] \in Commands
    OBVIOUS
  <1>4. CASE FinishDrain
    BY <1>2, <1>3, <1>4, ReturnKeeps DEF FinishDrain
  <1>5. CASE Retired
    BY <1>1, <1>2, <1>5, ReturnKeeps DEF Retired
  <1>6. CASE Return("failed", owed, "error") /\ UNCHANGED result
    BY <1>1, <1>2, <1>6, ReturnKeeps
  <1>7. CASE Panic
    BY <1>1, <1>2, <1>3, <1>7, ReturnKeeps DEF Panic
  <1> QED BY <1>4, <1>5, <1>6, <1>7

\* A maintenance pass is over.
LEMMA FinishTickKeeps ==
  ASSUME ControllerInv, FinishTick
  PROVE  ControllerInv'
  <1>1. loop = "maintaining"
    BY DEF FinishTick
  <1>2. CASE Select /\ UNCHANGED <<calls, channel, watches, closing, owed, outcome>>
    <2>1. ChannelOK' /\ TaskOK'
      BY <1>2, NotNone DEF Select, ControllerInv, ChannelOK, TaskOK, calls, channel, watches, Loops
    <2> QED BY <1>1, <1>2, <2>1, SilentKeeps DEF Select, watches
  <1> QED BY <1>1, <1>2, EndKeeps DEF FinishTick

\* A command is over, and the loop goes on or returns.
LEMMA FinishCommandKeeps ==
  ASSUME ControllerInv, FinishWork \/ FinishSuspend
  PROVE  ControllerInv'
  <1>1. /\ loop = "executing" /\ current \in Calls
        /\ result \in {None, "suspended", "error"} /\ result # "suspended"
        /\ \A c \in Calls : c \in {current} => kind[c] \in Commands
    BY NotNone DEF FinishWork, FinishSuspend, ControllerInv, TaskOK, EndOK
  <1>2. CASE FinishSuspend /\ \/ Return("suspended", {current}, "suspended")
                              \/ Return("failed", {current}, "error")
    <2>1. result' = result
      BY <1>1, <1>2 DEF FinishSuspend, Select, Return
    <2>2. /\ {"suspended", "failed"} \subseteq Outcomes \ {None}
          /\ {"suspended", "error"} \subseteq CallAnswers
          /\ "error" \notin Terminal
      BY NotNone DEF Outcomes, CallAnswers, Terminal
    <2> QED BY <1>1, <1>2, <2>1, <2>2, ReturnKeeps
  <1>3. ASSUME NEW a \in {"done", "error", "rejected"}, Answer({current}, a), Select,
               UNCHANGED <<channel, watches, closing, owed, outcome>>
        PROVE  ControllerInv'
    <2>1. a \in CallAnswers \ Terminal
      BY <1>3 DEF CallAnswers, Terminal
    <2>2. /\ CallsOK' /\ kind' = kind
          /\ \A c \in Calls : kind[c] = "drain" => at'[c] = at[c] /\ answer'[c] = answer[c]
          /\ \A c \in Calls : answer'[c] \in Terminal => answer[c] = answer'[c]
      BY <1>1, <1>3, <2>1, AnswerKeeps
    <2>3. ChannelOK' /\ TaskOK'
      BY <1>3, <2>2, NotNone DEF Select, ControllerInv, ChannelOK, TaskOK, channel, watches, Loops
    <2> QED BY <1>1, <1>3, <2>2, <2>3, QuietKeeps DEF Select, watches
  <1>4. CASE Return("failed", {}, None) /\ UNCHANGED result
    <2>1. "failed" \in Outcomes \ {None} /\ None \in CallAnswers /\ None \notin Terminal
      BY NotNone DEF Outcomes, CallAnswers, Terminal
    <2>2. {} \in SUBSET Calls /\ \A c \in {} : kind[c] \in Commands
      OBVIOUS
    <2> QED BY <1>1, <1>4, <2>1, <2>2, ReturnKeeps
  <1> QED BY <1>2, <1>3, <1>4 DEF FinishWork, FinishSuspend

\* A shutdown begins, fails or is over at once.
LEMMA ShutdownKeeps ==
  ASSUME ControllerInv, loop # "ended",
         NEW S \in SUBSET {c \in Calls : kind[c] = "shutdown"}, StartShutdown(S)
  PROVE  ControllerInv'
  <1>1. CASE /\ closing' = TRUE /\ open' = FALSE /\ owed' = owed \union S
             /\ Select
             /\ UNCHANGED <<calls, queue, clients, watches, outcome>>
    <2>1. ChannelOK' /\ TaskOK'
      BY <1>1, NotNone DEF Select, ControllerInv, ChannelOK, TaskOK, calls, watches, Loops
    <2> QED BY <1>1, <2>1, SilentKeeps DEF Select, watches
  <1>2. CASE (Return("failed", S, "error") \/ Return("retired", S, "retired")) /\ UNCHANGED result
    <2>1. /\ result \in {None, "suspended", "error"} /\ result # "suspended"
          /\ S \in SUBSET Calls /\ \A c \in S : kind[c] \in Commands
      BY NotNone DEF ControllerInv, TaskOK, EndOK, Commands
    <2>2. /\ {"retired", "failed"} \subseteq Outcomes \ {None}
          /\ {"retired", "error"} \subseteq CallAnswers /\ "error" \notin Terminal
      BY NotNone DEF Outcomes, CallAnswers, Terminal
    <2> QED BY <1>2, <2>1, <2>2, ReturnKeeps
  <1> QED BY <1>1, <1>2 DEF StartShutdown

\* The Shutdown command, or the end of the channel.
LEMMA FinishShutdownKeeps ==
  ASSUME ControllerInv, FinishShutdown \/ ChannelClosed
  PROVE  ControllerInv'
  <1>1. CASE ChannelClosed
    BY <1>1, ShutdownKeeps DEF ChannelClosed
  <1>2. CASE FinishShutdown
    <2>1. current \in Calls /\ kind[current] = "shutdown" /\ loop = "executing"
      BY <1>2 DEF FinishShutdown, ControllerInv, TaskOK
    <2> QED BY <1>2, <2>1, ShutdownKeeps DEF FinishShutdown
  <1> QED BY <1>1, <1>2

-----------------------------------------------------------------------------
(* The specification                                                        *)

\* Nothing has happened yet.
LEMMA InitOK == Init => ControllerInv
  <1> SUFFICES ASSUME Init PROVE ControllerInv
    OBVIOUS
  <1>1. CallsOK
    BY NotNone DEF Init, CallsOK, Ats, CallAnswers, Commands
  <1>2. ChannelOK
    BY EmptyChannel DEF Init
  <1>3. TaskOK
    BY NotNone DEF Init, TaskOK, Loops, Outcomes
  <1>4. EndOK /\ JoinConsistent /\ JoinersAgree
    BY NotNone DEF Init, EndOK, JoinConsistent, JoinersAgree, Terminal
  <1> QED BY <1>1, <1>2, <1>3, <1>4 DEF ControllerInv

\* Every step keeps the invariant.
LEMMA StepKeeps == ControllerInv /\ [Next]_vars => ControllerInv'
  <1> SUFFICES ASSUME ControllerInv, [Next]_vars PROVE ControllerInv'
    OBVIOUS
  <1>1. CASE Run
    BY <1>1, RoundKeeps, PollKeeps, EndKeeps, FinishTickKeeps, FinishCommandKeeps,
       FinishShutdownKeeps DEF Run, FinishDrain
  <1>2. CASE Panic
    BY <1>2, EndKeeps DEF Panic
  <1>3. CASE DropClients
    BY <1>3, RoundKeeps
  <1>4. ASSUME NEW c \in Calls, Client(c) PROVE ControllerInv'
    BY <1>4, CallKeeps, EnqueueKeeps, GoneKeeps, JoinKeeps DEF Client
  <1>5. CASE UNCHANGED vars
    <2>1. UNCHANGED calls /\ UNCHANGED <<result, outcome>> /\ UNCHANGED loop
      BY <1>5 DEF vars, calls
    <2>2. ChannelOK' /\ TaskOK'
      BY <1>5 DEF vars, ControllerInv, ChannelOK, TaskOK
    <2> QED BY <2>1, <2>2, SilentKeeps
  <1> QED BY <1>1, <1>2, <1>3, <1>4, <1>5 DEF Next

\* The invariant, in every state.
THEOREM ControllerInvariance == Spec => []ControllerInv
  BY InitOK, StepKeeps, PTL DEF Spec

\* Type correctness: every variable of the Controller stays in its type, and
\* the channel within its capacity.
THEOREM ControllerTypes == Spec => []ControllerTypeOK
  <1>1. ControllerInv => ControllerTypeOK
    BY DEF ControllerInv, CallsOK, ChannelOK, TaskOK, ControllerTypeOK, Ats, CallAnswers, Outcomes, Loops
  <1> QED BY <1>1, ControllerInvariance, PTL

\* A caller that is told the App is suspended or retired is told what run()
\* returns (Host::join_consistent, host.rs), and all callers of drain_and_suspend
\* hear one result, for any number of calls and any capacity.
THEOREM AgreeingAnswers == Spec => []AnswersAgree
  <1>1. ControllerInv => AnswersAgree
    BY DEF ControllerInv, AnswersAgree
  <1> QED BY <1>1, ControllerInvariance, PTL

-----------------------------------------------------------------------------
(* Admission                                                                *)

\* The channel is closed by a suspension, a shutdown or the end, and nothing else.
ClosedFor == ~open => closing \/ loop \in {"draining", "ended"}

\* Taking the head of the channel leaves fewer commands in it.
LEMMA TailIsShorter ==
  ASSUME NEW q \in Seq(Calls), q # <<>>
  PROVE  Len(Tail(q)) <= Len(q)
  <1>1. Len(q) \in Nat /\ Len(Tail(q)) = Len(q) - 1
    BY HeadTailProperties
  <1> QED BY <1>1

\* An empty channel is no longer than any.
LEMMA EmptyIsShortest ==
  ASSUME NEW q \in Seq(Calls)
  PROVE  Len(<<>>) <= Len(q)
  <1>1. Len(q) \in Nat /\ Len(<<>>) = 0
    OBVIOUS
  <1> QED BY <1>1

\* run returns with the channel closed and empty.
LEMMA ReturnCloses ==
  ASSUME NEW o, NEW S, NEW a, Return(o, S, a)
  PROVE  ~open' /\ loop' = "ended" /\ queue' = <<>>
  BY DEF Return

\* What a step of the loop does to the channel, besides returning.
LEMMA LoopSteps ==
  ASSUME ChannelOK, ClosedFor, Run \/ Panic
  PROVE  \/ ~open' /\ loop' = "ended" /\ queue' = <<>>
         \/ /\ ClosedFor' /\ (~open => ~open')
            /\ ~open => (loop' = "executing" => loop = "executing")
            /\ queue' = queue \/ queue' = <<>> \/ (queue # <<>> /\ queue' = Tail(queue))
  <1>1. CASE Poll
    BY <1>1 DEF Poll, ClosedFor
  <1>2. CASE FinishDrain \/ Panic
    BY <1>2, ReturnCloses DEF FinishDrain, Panic
  <1>3. CASE Tick \/ Park \/ Receive
    BY <1>3 DEF Tick, Park, Receive, ClosedFor, channel
  <1>4. CASE FinishTick
    BY <1>4, ReturnCloses DEF FinishTick, Retired, Select, ClosedFor, channel
  <1>5. CASE FinishWork \/ FinishSuspend
    BY <1>5, ReturnCloses DEF FinishWork, FinishSuspend, Select, ClosedFor, channel
  <1>6. ASSUME NEW S, StartShutdown(S)
        PROVE  \/ ~open' /\ loop' = "ended" /\ queue' = <<>>
               \/ ~open' /\ closing' /\ loop' = "select" /\ queue' = queue
    BY <1>6, ReturnCloses DEF StartShutdown, Select
  <1>7. CASE FinishShutdown \/ ChannelClosed
    BY <1>6, <1>7 DEF FinishShutdown, ChannelClosed, ClosedFor
  <1> QED BY <1>1, <1>2, <1>3, <1>4, <1>5, <1>7 DEF Run

\* Only a sender that is admitted fills the channel.
LEMMA ClientSteps ==
  ASSUME DropClients \/ (\E c \in Calls : Client(c)) \/ UNCHANGED vars
  PROVE  /\ UNCHANGED <<open, closing, loop>>
         /\ ~open => UNCHANGED queue
  BY DEF DropClients, Client, Call, Enqueue, SendFails, Join, Abandon, Answer, vars, channel,
         task, watches

\* Every step keeps the cause of a closed channel, and the channel closed.
LEMMA AdmissionStep ==
  ASSUME ChannelOK, ClosedFor, [Next]_vars
  PROVE  /\ ClosedFor'
         /\ ~open => /\ ~open'
                     /\ loop' = "executing" => loop = "executing"
                     /\ Len(queue') <= Len(queue)
  <1>1. queue \in Seq(Calls) /\ Len(queue) <= Len(queue)
    BY DEF ChannelOK
  <1>2. CASE Run \/ Panic
    BY <1>1, <1>2, LoopSteps, TailIsShorter, EmptyIsShortest DEF ClosedFor
  <1>3. CASE DropClients \/ (\E c \in Calls : Client(c)) \/ UNCHANGED vars
    BY <1>1, <1>3, ClientSteps DEF ClosedFor
  <1> QED BY <1>2, <1>3 DEF Next

\* Once the Controller drains for a suspension or shuts down, no command is handled any more
\* and the channel does not fill (Shutdown and the biased select of run, controller.rs): for
\* any number of calls and any capacity.
THEOREM AdmissionCloses == Spec => AdmissionStaysClosed
  <1>1. Init => ClosedFor
    BY DEF Init, ClosedFor
  <1>2. ControllerInv => ChannelOK
    BY DEF ControllerInv
  <1>3. ChannelOK /\ ClosedFor /\ [Next]_vars => ClosedFor'
    BY AdmissionStep
  <1>4. ChannelOK /\ ClosedFor /\ [Next]_vars
        => [~open => /\ ~open'
                     /\ loop' = "executing" => loop = "executing"
                     /\ Len(queue') <= Len(queue)]_vars
    BY AdmissionStep
  <1> QED BY <1>1, <1>2, <1>3, <1>4, ControllerInvariance, PTL DEF Spec, AdmissionStaysClosed
=============================================================================
