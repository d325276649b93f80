------------------------------ MODULE RootGuard ------------------------------
(***************************************************************************)
(* Who may execute in an application's root (process_owner/guard.rs, and   *)
(* the steps of run and finish around it).  Every owner locks two files of *)
(* the registry, one named for the path of its root and one for its inode, *)
(* and writes into both that its execution is unconfirmed before there is  *)
(* one.  The locks go with the helper, however it ends; the records stay.  *)
(***************************************************************************)
EXTENDS Integers, FiniteSets

CONSTANTS Owners, Paths, Dirs,
          MaxRenames \* of the directories while the owners come and go (a bound)

VARIABLES
  dirAt,   \* the directory at each path, as the world has it now
  root,    \* the path that an owner's start names, symbolic links resolved
  inode,   \* the directory an owner saw there
  helper,   \* where an owner stands
  turn,    \* the file, 1 or 2, that it comes to next
  locked,  \* the files that it has locked
  records,  \* what every file of the registry says
  group,   \* the owner's process group: "none", "alive" or "gone"
  told,    \* what its launcher was told: "nothing", "confirmed" or "unconfirmed"
  renames

guardVars == <<dirAt, root, inode, helper, turn, locked, records, group, told, renames>>

Files == 1..2
Keys == ({1} \X Paths) \union ({2} \X Dirs)
Key(o, i) == IF i = 1 THEN <<1, root[o]>> ELSE <<2, inode[o]>>
KeysOf(o) == {Key(o, i) : i \in Files}

Free == {"empty", "settled"}
\* A record that is being shortened is as good as unconfirmed.
Uncertain == {"unconfirmed", "torn"}
Steps == {"look", "lock", "mark", "spawn", "run", "settle", "cut", "release", "done"}

GuardInit ==
  /\ dirAt \in {f \in [Paths -> Dirs] : \A p, q \in Paths : p # q => f[p] # f[q]}
  /\ root \in [Owners -> Paths]
  /\ inode = [o \in Owners |-> dirAt[root[o]]]
  /\ helper = [o \in Owners |-> "look"]
  /\ turn = [o \in Owners |-> 1]
  /\ locked = [o \in Owners |-> {}]
  /\ records = [k \in Keys |-> "empty"]
  /\ group = [o \in Owners |-> "none"]
  /\ told = [o \in Owners |-> "nothing"]
  /\ renames = 0

Goes(o, step, file) == helper' = [helper EXCEPT ![o] = step] /\ turn' = [turn EXCEPT ![o] = file]

\* acquire: the metadata of the root give the second key.
Look(o) ==
  /\ helper[o] = "look"
  /\ inode' = [inode EXCEPT ![o] = dirAt[root[o]]]
  /\ Goes(o, "lock", 1)
  /\ UNCHANGED <<dirAt, root, locked, records, group, told, renames>>

Unlocked(k) == \A other \in Owners : \A i \in locked[other] : Key(other, i) # k

\* Mutant: a lock is enough, whatever the record says.
LockAny(o) ==
  /\ helper[o] = "lock" /\ Unlocked(Key(o, turn[o]))
  /\ locked' = [locked EXCEPT ![o] = @ \union {turn[o]}]
  /\ IF turn[o] = 1 THEN Goes(o, "lock", 2) ELSE Goes(o, "mark", 1)
  /\ UNCHANGED <<dirAt, root, inode, records, group, told, renames>>

\* One file is locked, and then read: an execution nobody confirmed keeps its root.
Lock(o) ==
  /\ helper[o] = "lock"
  /\ Unlocked(Key(o, turn[o])) /\ records[Key(o, turn[o])] \in Free
  /\ locked' = [locked EXCEPT ![o] = @ \union {turn[o]}]
  /\ IF turn[o] = 1 THEN Goes(o, "lock", 2) ELSE Goes(o, "mark", 1)
  /\ UNCHANGED <<dirAt, root, inode, records, group, told, renames>>

\* Both records say so before the child is spawned.
Mark(o) ==
  /\ helper[o] = "mark"
  /\ records' = [records EXCEPT ![Key(o, turn[o])] = "unconfirmed"]
  /\ IF turn[o] = 1 THEN Goes(o, "mark", 2) ELSE Goes(o, "spawn", 1)
  /\ UNCHANGED <<dirAt, root, inode, locked, group, told, renames>>

Spawn(o) ==
  /\ helper[o] = "spawn"
  /\ \/ group' = [group EXCEPT ![o] = "alive"] /\ Goes(o, "run", 1)
     \/ UNCHANGED group /\ Goes(o, "settle", 1)
  /\ UNCHANGED <<dirAt, root, inode, locked, records, told, renames>>

\* The group ends on its own or by a signal.
Dies(o) ==
  /\ group[o] = "alive" /\ group' = [group EXCEPT ![o] = "gone"]
  /\ UNCHANGED <<dirAt, root, inode, helper, turn, locked, records, told, renames>>

\* finish: the group was seen to be gone, or it was not.
Confirm(o) ==
  /\ helper[o] = "run"
  /\ \/ group[o] = "gone" /\ Goes(o, "settle", 1)
     \/ Goes(o, "release", 1)
  /\ UNCHANGED <<dirAt, root, inode, locked, records, group, told, renames>>

\* settled: a shorter text over the longer one, and then the rest is cut off.
Overwrite(o) ==
  /\ helper[o] = "settle"
  /\ records' = [records EXCEPT ![Key(o, turn[o])] = "torn"]
  /\ Goes(o, "cut", turn[o])
  /\ UNCHANGED <<dirAt, root, inode, locked, group, told, renames>>
\* Mutant: only the first file is settled.
CutFirst(o) ==
  /\ helper[o] = "cut"
  /\ records' = [records EXCEPT ![Key(o, turn[o])] = "settled"]
  /\ Goes(o, "release", 2)
  /\ UNCHANGED <<dirAt, root, inode, locked, group, told, renames>>
Cut(o) ==
  /\ helper[o] = "cut"
  /\ records' = [records EXCEPT ![Key(o, turn[o])] = "settled"]
  /\ IF turn[o] = 1 THEN Goes(o, "settle", 2) ELSE Goes(o, "release", 2)
  /\ UNCHANGED <<dirAt, root, inode, locked, group, told, renames>>

\* The guard is dropped, and then the launcher hears how it ended.  (An execution that was
\* never there is an error instead.)
Verdict(o) == IF group[o] = "none" THEN "nothing"
              ELSE IF turn[o] = 2 THEN "confirmed" ELSE "unconfirmed"
Release(o) ==
  /\ helper[o] = "release"
  /\ locked' = [locked EXCEPT ![o] = {}]
  /\ told' = [told EXCEPT ![o] = Verdict(o)]
  /\ Goes(o, "done", turn[o])
  /\ UNCHANGED <<dirAt, root, inode, records, group, renames>>

\* The helper gives up, for an error of a file or because a root is taken, or it is killed.
Ends(o) ==
  /\ helper[o] # "done"
  /\ locked' = [locked EXCEPT ![o] = {}]
  /\ Goes(o, "done", turn[o])
  /\ UNCHANGED <<dirAt, root, inode, records, group, told, renames>>

\* Somebody moves two directories.
Rename ==
  /\ renames < MaxRenames /\ renames' = renames + 1
  /\ \E p, q \in Paths : p # q /\ dirAt' = [dirAt EXCEPT ![p] = dirAt[q], ![q] = dirAt[p]]
  /\ UNCHANGED <<root, inode, helper, turn, locked, records, group, told>>

OwnerNext(o) == Look(o) \/ Lock(o) \/ Mark(o) \/ Spawn(o) \/ Dies(o) \/ Confirm(o)
                \/ Overwrite(o) \/ Cut(o) \/ Release(o) \/ Ends(o)
GuardNext == Rename \/ \E o \in Owners : OwnerNext(o)
GuardSpec == GuardInit /\ [][GuardNext]_guardVars

GuardTypeOK ==
  /\ dirAt \in [Paths -> Dirs] /\ root \in [Owners -> Paths] /\ inode \in [Owners -> Dirs]
  /\ helper \in [Owners -> Steps] /\ turn \in [Owners -> Files]
  /\ locked \in [Owners -> SUBSET Files] /\ records \in [Keys -> Free \union Uncertain]
  /\ group \in [Owners -> {"none", "alive", "gone"}]
  /\ told \in [Owners -> {"nothing", "confirmed", "unconfirmed"}] /\ renames \in Nat

\* Two groups never execute in roots with the same path or with the same directory, as their
\* owners saw them, although a helper may be killed and its group live on.
OneExecution ==
  \A o, p \in Owners : o # p /\ group[o] = "alive" /\ group[p] = "alive"
                          => KeysOf(o) \intersect KeysOf(p) = {}

\* A root is closed to new owners only by an execution whose end nobody was told: with the
\* confirmation both of its files are free again.
ConfirmationFrees ==
  \A k \in Keys : records[k] \in Uncertain =>
    \E o \in Owners : k \in KeysOf(o) /\ told[o] # "confirmed" /\ helper[o] \notin {"look", "lock"}
=============================================================================
