--------------------------- MODULE HostDistribution ---------------------------
(***************************************************************************)
(* A Host that opens its distribution and prepares a Generation from it    *)
(* (lenso-host-distribution, ArtifactHandle of lenso-runtime-codec, and    *)
(* resolve_plan_generation): the lock is read once and every file compared *)
(* with it; then the bundled resolver is run, the inventory read, and the  *)
(* Artifacts of its Plan copied to files of the Host's own.                *)
(*                                                                         *)
(* Meanwhile an updater may replace, rewrite or remove files: nothing      *)
(* locks them.  Files are read block by block where that matters; a        *)
(* content is told apart by the release its blocks are from, and a digest  *)
(* with its size is that content.                                          *)
(*                                                                         *)
(* External: the updater, the resolver's process, the file system.         *)
(***************************************************************************)
EXTENDS Naturals, Sequences

CONSTANTS Planned,    \* the Instances of the Plan
          Pick,       \* Pick[o][i]: the slot and release of the Artifact that outcome o of the
                      \* resolver gives Instance i
          Inventories,  \* Inventories[v]: entries of bundles.json of release v: slot, release and
                        \* the rest of an entry's identity
          MaxUpdates  \* bound: changes by the updater

VARIABLES tree,        \* tree[n]: the blocks at path n; <<>>: no regular file
          updates,
          stage, missing,    \* the Host's step; files to compare, or Instances to provide for
          current,     \* the Instance whose Artifact is copied
          lock, entries,   \* the lock and the inventory that were read (0: none)
          kept, got,   \* an open file whose path has been replaced; the blocks read so far
          copies,      \* copies[i]: blocks of the Host's own copy
          child, pipe, sent, drained,   \* the resolver: its state, who holds its output, chunks
          answer,      \* the outcome its output says
          authority    \* the release of the host build the resolver used

hosting == <<stage, missing, current, lock, entries, kept, got, copies, answer>>
resolver == <<child, pipe, sent, drained, authority>>
distribution == <<tree, updates, hosting, resolver>>

\* The lock, what the resolver is given, and the Artifacts in order of the inventory.
Slots == {"a1", "a2"}
Locked == {"authority", "inventory", "resolver"} \cup Slots
Files == {"lock"} \cup Locked

Releases == 1..2

\* The inventories are lists.
InventoriesAreLists == \A v \in Releases: DOMAIN Inventories[v] \subseteq Nat

Whole(v) == <<v, v>>
Unset == [i \in Planned |-> <<>>]
Chunks == 2    \* of a resolution; more is over the limit

DistributionInit ==
  /\ tree = [n \in Files |-> Whole(1)] /\ updates = 0
  /\ stage = "read_lock" /\ missing = {} /\ current = "none"
  /\ lock = 0 /\ entries = 0 /\ kept = <<>> /\ got = <<>>
  /\ copies = Unset /\ answer = "none"
  /\ child = "none" /\ pipe = "closed" /\ sent = 0 /\ drained = 0 /\ authority = 0

\* The release that has content c (0: none).
ReleaseOf(c) == IF \E v \in Releases: c = Whole(v) THEN CHOOSE v \in Releases: c = Whole(v) ELSE 0

Fails ==
  /\ stage' = "failed" /\ missing' = {} /\ kept' = <<>> /\ got' = <<>>
  /\ UNCHANGED <<lock, entries, copies, answer>>

-----------------------------------------------------------------------------
(* VerifiedDistribution::open                                              *)

\* The lock must parse, and be for this platform with every role at its path; its digest is the
\* distribution's identity.
ReadLock ==
  /\ stage = "read_lock"
  /\ IF ReleaseOf(tree["lock"]) = 0 THEN Fails
     ELSE /\ lock' = ReleaseOf(tree["lock"]) /\ missing' = Locked /\ stage' = "compare"
          /\ UNCHANGED <<entries, kept, got, copies, answer>>
  /\ UNCHANGED <<tree, updates, resolver, current>>

\* verify_file looks at the file, and opens it by its path again to hash it.
CompareFile(n) ==
  /\ stage = "compare" /\ n \in missing
  /\ IF tree[n] = Whole(lock) THEN /\ missing' = missing \ {n}
                                   /\ stage' = IF missing = {n} THEN "verified" ELSE "compare"
                                   /\ UNCHANGED <<lock, entries, kept, got, copies, answer>>
     ELSE Fails
  /\ UNCHANGED <<tree, updates, resolver, current>>

-----------------------------------------------------------------------------
(* invoke_resolver                                                         *)

\* The resolver is spawned by its path.
Spawn ==
  /\ stage = "verified"
  /\ IF ReleaseOf(tree["resolver"]) = 0 THEN Fails /\ UNCHANGED resolver
     ELSE /\ stage' = "polling" /\ child' = "running" /\ pipe' = "open"
          /\ UNCHANGED <<sent, drained, authority, missing, lock, entries, kept, got, copies, answer>>
  /\ UNCHANGED <<tree, updates, current>>

\* External: it reads the host build by its path and writes.
ResolverReads ==
  /\ child = "running" /\ authority = 0 /\ authority' = ReleaseOf(tree["authority"])
  /\ UNCHANGED <<tree, updates, hosting, child, pipe, sent, drained>>
ResolverWrites ==
  /\ child = "running" /\ authority # 0 /\ sent <= Chunks /\ sent' = sent + 1
  /\ UNCHANGED <<tree, updates, hosting, child, pipe, drained, authority>>

\* External: it exits; a descendant of it may keep the pipe.
ResolverExits ==
  /\ child = "running" /\ child' \in {"done", "rejects"} /\ pipe' \in {"open", "closed"}
  /\ UNCHANGED <<tree, updates, hosting, sent, drained, authority>>
DescendantExits ==
  /\ child \in {"done", "rejects", "killed"} /\ pipe = "open" /\ pipe' = "closed"
  /\ UNCHANGED <<tree, updates, hosting, child, sent, drained, authority>>

\* The threads that drain the pipes.
DrainChunk ==
  /\ drained < sent /\ drained' = drained + 1
  /\ UNCHANGED <<tree, updates, hosting, child, pipe, sent, authority>>

\* try_wait sees that it ended; the deadline kills it and counts as a failure.
Polled ==
  /\ stage = "polling" /\ child \in {"done", "rejects"} /\ stage' = "joining"
  /\ UNCHANGED <<tree, updates, resolver, missing, current, lock, entries, kept, got, copies, answer>>
ResolverTimesOut ==
  /\ stage = "polling" /\ child = "running" /\ child' = "killed" /\ Fails
  /\ UNCHANGED <<tree, updates, current, pipe, sent, drained, authority>>

\* The threads end when nobody holds the pipe.
Resolved ==
  /\ stage = "joining" /\ pipe = "closed" /\ drained = sent
  /\ IF drained = Chunks /\ child = "done" /\ authority = lock
     THEN /\ answer' \in DOMAIN Pick /\ stage' = "inventory"
          /\ UNCHANGED <<missing, lock, entries, kept, got, copies>>
     ELSE Fails
  /\ UNCHANGED <<tree, updates, resolver, current>>

-----------------------------------------------------------------------------
(* resolve_artifacts                                                       *)

\* The inventory is read by its path, and not compared with the lock again.
ReadInventory ==
  /\ stage = "inventory"
  /\ IF ReleaseOf(tree["inventory"]) = 0 THEN Fails
     ELSE /\ entries' = ReleaseOf(tree["inventory"]) /\ missing' = Planned /\ stage' = "select"
          /\ UNCHANGED <<lock, kept, got, copies, answer>>
  /\ UNCHANGED <<tree, updates, resolver, current>>

\* The entries for the Plan's Artifact of Instance i.
EntriesFor(i) ==
  {k \in DOMAIN Inventories[entries]:
     Inventories[entries][k].slot = Pick[answer][i].slot
       /\ Inventories[entries][k].release = Pick[answer][i].release}
First(i) == CHOOSE k \in EntriesFor(i): \A j \in EntriesFor(i): k <= j

\* The path of entry k in the distribution: by its place, not by its Artifact.
PathOf(k) == IF k = 1 THEN "a1" ELSE IF k = 2 THEN "a2" ELSE "none"

\* There is a candidate, all candidates are the same, and the lock says of its path what the
\* inventory says.
Selectable(i) ==
  /\ EntriesFor(i) # {}
  /\ \A k \in EntriesFor(i): Inventories[entries][k].identity = Inventories[entries][First(i)].identity
  /\ LET k == First(i) IN
       PathOf(k) = Inventories[entries][k].slot /\ Inventories[entries][k].release = lock

\* ArtifactHandle::open_inner looks at the file and opens it: from here on it reads what it has
\* opened, whatever becomes of the path.
OpenArtifact(i) ==
  /\ stage = "select" /\ i \in missing
  /\ IF Selectable(i) /\ tree[PathOf(First(i))] # <<>>
     THEN /\ stage' = "copy" /\ current' = i /\ got' = <<>> /\ kept' = <<>>
          /\ UNCHANGED <<missing, lock, entries, copies, answer>>
     ELSE Fails /\ UNCHANGED current
  /\ UNCHANGED <<tree, updates, resolver>>

Opened == IF kept # <<>> THEN kept ELSE tree[PathOf(First(current))]

\* materialize_stable_artifact: every block that is read goes into the copy and into the digest.
CopyBlock ==
  /\ stage = "copy" /\ Len(got) < Len(Whole(1)) /\ got' = Append(got, Opened[Len(got) + 1])
  /\ UNCHANGED <<tree, updates, resolver, stage, missing, current, lock, entries, kept, copies, answer>>

\* Mutant: the source is hashed once it has been copied.
DigestOfSource == Opened

\* What is compared with the expected digest and size.
DigestOfCopy == got

\* The copy belongs to the Host from here on.
KeepCopy ==
  /\ stage = "copy" /\ Len(got) = Len(Whole(1))
  /\ IF DigestOfCopy = Whole(Pick[answer][current].release)
     THEN /\ copies' = [copies EXCEPT ![current] = got] /\ missing' = missing \ {current}
          /\ stage' = IF missing = {current} THEN "close" ELSE "select"
          /\ got' = <<>> /\ kept' = <<>> /\ UNCHANGED <<lock, entries, answer>>
     ELSE Fails
  /\ UNCHANGED <<tree, updates, resolver, current>>

\* resolve_plan_generation: one copy for each Instance of the Plan, and for nothing else.
Close ==
  /\ stage = "close" /\ stage' = "prepared"
  /\ UNCHANGED <<tree, updates, resolver, missing, current, lock, entries, kept, got, copies, answer>>

-----------------------------------------------------------------------------
(* External: the updater                                                   *)

Updating == updates < MaxUpdates /\ updates' = updates + 1 /\ stage \notin {"failed", "prepared"}

\* Whoever has the file open keeps what it was.
KeepsOpen(n) ==
  kept' = IF stage = "copy" /\ kept = <<>> /\ n = PathOf(First(current)) THEN tree[n] ELSE kept

ReplaceFile(n) ==
  /\ Updating /\ tree[n] # Whole(2)
  /\ \E c \in {<<>>, Whole(2)}: tree[n] # c /\ tree' = [tree EXCEPT ![n] = c]
  /\ KeepsOpen(n)
  /\ UNCHANGED <<resolver, stage, missing, current, lock, entries, got, copies, answer>>

\* A block that is written in place, to the new release or back.
RewriteBlock(n, k) ==
  /\ Updating /\ tree[n] # <<>>
  /\ \E v \in Releases: tree[n][k] # v /\ tree' = [tree EXCEPT ![n][k] = v]
  /\ UNCHANGED <<hosting, resolver>>

DistributionNext ==
  \/ ReadLock \/ Spawn \/ Resolved \/ ReadInventory \/ CopyBlock \/ KeepCopy \/ Close
  \/ \E n \in Locked: CompareFile(n)
  \/ \E i \in Planned: OpenArtifact(i)
  \/ ResolverReads \/ ResolverWrites \/ ResolverExits \/ DescendantExits \/ DrainChunk
  \/ Polled \/ ResolverTimesOut
  \/ \E n \in Files: ReplaceFile(n)
  \/ \E n \in Slots, k \in 1..2: RewriteBlock(n, k)

DistributionSpec == DistributionInit /\ [][DistributionNext]_distribution

-----------------------------------------------------------------------------
(* Properties                                                              *)

\* A Generation that was prepared is of one release, that of the lock, whatever the updater did
\* while it was prepared and the resolver's descendants did with its output: every Instance has a
\* whole copy of just the Artifact its Plan names, the resolver worked from the host build of the
\* lock, and it had ended well and its whole answer was taken.
PreparedIsOneRelease ==
  stage = "prepared" =>
    /\ \A i \in Planned: Pick[answer][i].release = lock /\ copies[i] = Whole(lock)
    /\ authority = lock /\ child = "done" /\ drained = Chunks /\ sent = Chunks
=============================================================================
