---------------------------- MODULE PluginBundle ----------------------------
(***************************************************************************)
(* Plugin Bundles on disk (lenso-plugin-bundle): builders that materialize *)
(* a Bundle in a staging directory and rename it to its output, and the    *)
(* verification of such a directory, file by file, while other processes   *)
(* may change it.                                                          *)
(*                                                                         *)
(* A file is an inode with a content; contents are told apart by name, and *)
(* a digest with its size is that name.  "link" stands for whatever is not *)
(* a regular file, "large" for a file over a limit.  Directories in a      *)
(* Bundle are part of the paths of its files.                              *)
(*                                                                         *)
(* External: Edit, the other processes; and the file system.               *)
(***************************************************************************)
EXTENDS Naturals, Sequences, FiniteSets

CONSTANTS Builders,
          Builds,      \* Builds[b]: the Manifest builder b writes
          Found,       \* the Manifest whose Bundle is there at the start ("none": no Bundle)
          MaxFiles,    \* limits.max_file_count
          MaxEdits,    \* bound: changes made by other processes
          MaxChecks,   \* bound: verifications a Host asks for
          MaxInode     \* bound: files ever created

VARIABLES exists,      \* the output directory exists
          dir, disk,   \* dir[n]: the inode at path n (0: none); disk[i]: its content
          builder, written,           \* per builder: where it is, files in its staging directory
          edits, checks
VARIABLES at, phase, client,          \* the verification: its next step, for whom
          cursor, inode,              \* the file it looks at
          text, todo, summary,        \* Manifest read, paths to go, contents by path
          verdict,
          seen, always                \* history: contents the paths had, paths always there, since
                                      \* the listing began

files == <<exists, dir, disk>>
builds == <<builder, written>>
reader == <<at, phase, client, cursor, inode, text, todo, summary, verdict>>
bundle == <<files, builds, edits, checks, reader, seen, always>>

Paths == {"manifest", "a", "b"}
Irregular == {"link", "large"}

\* The descriptor sections embedded in an Artifact.
Sections == [x |-> <<"d1">>, y |-> <<>>, z |-> <<"d1", "d1">>]

\* The Manifests there are: their schema, whether they have the fields of V4, and their
\* implementations (V2: the one entry).
Impl(id, path, content, media, descriptor) ==
  [id |-> id, path |-> path, digest |-> content, revision |-> content, media |-> media,
   descriptor |-> descriptor]
Manifests ==
  [one |-> [schema |-> 4, profiled |-> TRUE, impls |-> <<Impl(1, "a", "x", "wasm", "d1")>>],
   two |-> [schema |-> 4, profiled |-> TRUE,
            impls |-> <<Impl(1, "a", "x", "wasm", "d1"), Impl(2, "b", "y", "process", "d2")>>],
   old |-> [schema |-> 3, profiled |-> FALSE, impls |-> <<Impl(1, "a", "y", "process", "d2")>>],
   twice |-> [schema |-> 4, profiled |-> TRUE, impls |-> <<Impl(1, "a", "z", "wasm", "d1")>>],
   clash |-> [schema |-> 3, profiled |-> FALSE,
              impls |-> <<Impl(1, "a", "x", "wasm", "d1"), Impl(1, "a", "y", "process", "d2")>>],
   mixed |-> [schema |-> 3, profiled |-> TRUE, impls |-> <<Impl(1, "a", "x", "wasm", "d1")>>]]

\* What a builder stages for Manifest m, in order: the Artifacts, then the Manifest.
Staged(m) ==
  [i \in DOMAIN Manifests[m].impls |-> <<Manifests[m].impls[i].path, Manifests[m].impls[i].digest>>]
    \o <<<<"manifest", m>>>>

\* The files of m's Bundle that are at path n: a later one replaces an earlier one.
Places(m, n) ==
  {i \in DOMAIN Staged(m): Staged(m)[i][1] = n
                              /\ \A j \in DOMAIN Staged(m): j > i => Staged(m)[j][1] # n}

\* The first k files of m's Bundle, as inodes from u on.
DirOf(m, k, u) ==
  [n \in Paths |-> IF Places(m, n) \cap 1..k = {} THEN 0
                   ELSE u + CHOOSE i \in Places(m, n): TRUE]

\* The Bundle that is there at the start fits the files there are; a builder is not the Host.
BundleFits ==
  /\ MaxInode \in Nat
  /\ Found # "none" => Found \in DOMAIN Manifests /\ Len(Staged(Found)) <= MaxInode
HostIsNoBuilder == "host" \notin Builders
DiskOf(m, k, u, before) ==
  [i \in 1..MaxInode |-> IF i \in (u + 1)..(u + k) THEN Staged(m)[i - u][2] ELSE before[i]]

Blank == [i \in 1..MaxInode |-> "none"]

BundleInit ==
  /\ exists = (Found # "none")
  /\ IF Found = "none" THEN dir = [n \in Paths |-> 0] /\ disk = Blank
     ELSE /\ dir = DirOf(Found, Len(Staged(Found)), 0)
          /\ disk = DiskOf(Found, Len(Staged(Found)), 0, Blank)
  /\ builder = [b \in Builders |-> "new"] /\ written = [b \in Builders |-> 0]
  /\ edits = 0 /\ checks = 0
  /\ at = "idle" /\ phase = "manifest" /\ client = "none" /\ cursor = "manifest" /\ inode = 0
  /\ text = "none" /\ todo = {} /\ summary = [n \in Paths |-> "none"] /\ verdict = "none"
  /\ seen = {} /\ always = {}

Present == {n \in Paths: dir[n] # 0}
Entries == {<<n, disk[dir[n]]>>: n \in Present}
Created == Cardinality({i \in 1..MaxInode: disk[i] # "none"})

-----------------------------------------------------------------------------
(* The Manifest                                                            *)

\* strict parsing, the wire shape of the schema, and validate_manifest: identities and paths are
\* unique, and a revision is the digest of its Artifact.
ValidManifest(m) ==
  /\ m \in DOMAIN Manifests
  /\ LET impls == Manifests[m].impls IN
       /\ Manifests[m].schema \in 2..4 /\ (Manifests[m].profiled <=> Manifests[m].schema = 4)
       /\ impls # <<>> /\ (Manifests[m].schema = 2 => Len(impls) = 1)
       /\ \A i, j \in DOMAIN impls:
            i # j => impls[i].id # impls[j].id /\ impls[i].path # impls[j].path
       /\ \A i \in DOMAIN impls:
            impls[i].revision = impls[i].digest /\ impls[i].media \in {"wasm", "process"}

ImplsOf(m) == {Manifests[m].impls[i]: i \in DOMAIN Manifests[m].impls}
WasmOf(m) == {i \in ImplsOf(m): i.media = "wasm"}

\* extract_plugin_descriptor and portable_plugin_descriptor: one embedded section, which closes
\* over the contract.
Derived(content) ==
  IF content \in DOMAIN Sections /\ Len(Sections[content]) = 1 THEN Sections[content][1] ELSE "none"

-----------------------------------------------------------------------------
(* Builders                                                                *)

Moves(b, from, to) == builder[b] = from /\ builder' = [builder EXCEPT ![b] = to]

\* The output must not exist; sources that cannot be read, or do not make a valid Manifest, end
\* it as well.
BeginBuild(b) ==
  /\ \/ ~exists /\ ValidManifest(Builds[b]) /\ Moves(b, "new", "staging")
     \/ Moves(b, "new", "refused")
  /\ UNCHANGED <<files, written, edits, checks, reader>>

WriteStaged(b) ==
  /\ builder[b] = "staging" /\ written[b] < Len(Staged(Builds[b]))
  /\ written' = [written EXCEPT ![b] = @ + 1]
  /\ UNCHANGED <<files, builder, edits, checks, reader>>

\* An I/O error removes the staging directory; a crash leaves it behind.
BuildFails(b) ==
  /\ Moves(b, "staging", "refused") /\ UNCHANGED <<files, written, edits, checks, reader>>
BuilderDies(b) ==
  /\ client # b
  /\ Moves(b, "staging", "dead") \/ Moves(b, "published", "dead")
  /\ UNCHANGED <<files, written, edits, checks, reader>>

\* Mutant: the Manifest is written once the directory is in its place.
ArtifactsComplete(b) == written[b] >= Len(Staged(Builds[b])) - 1

\* The staging directory holds everything.
Complete(b) == written[b] = Len(Staged(Builds[b]))

\* rename: over nothing, or over an empty directory.
Publish(b) ==
  /\ Complete(b)
  /\ IF exists /\ Present # {} THEN Moves(b, "staging", "refused") /\ UNCHANGED files
     ELSE /\ Created + written[b] <= MaxInode
          /\ Moves(b, "staging", "published") /\ exists' = TRUE
          /\ dir' = DirOf(Builds[b], written[b], Created)
          /\ disk' = DiskOf(Builds[b], written[b], Created, disk)
  /\ UNCHANGED <<written, edits, checks, reader>>

\* Other processes: write a file in place or anew, or remove it.  (What they did before the
\* verification began, they may as well do before its first step.)
Edit(n) ==
  /\ exists /\ at # "idle" /\ edits < MaxEdits /\ edits' = edits + 1
  /\ \/ /\ dir[n] # 0 /\ dir' = [dir EXCEPT ![n] = 0] /\ UNCHANGED disk
     \/ \E c \in (IF n = "manifest" THEN {"one", "two"} ELSE {"x", "y"}) \cup {"link"}:
          \/ dir[n] # 0 /\ c # "link" /\ disk' = [disk EXCEPT ![dir[n]] = c] /\ UNCHANGED dir
          \/ /\ Created < MaxInode
             /\ disk' = [disk EXCEPT ![Created + 1] = c] /\ dir' = [dir EXCEPT ![n] = Created + 1]
  /\ UNCHANGED <<exists, builds, checks, reader>>

-----------------------------------------------------------------------------
(* verify_bundle_directory                                                 *)

\* A builder verifies what it published, a Host whatever is there.
Verify(c) ==
  /\ at = "idle"
  /\ \/ c \in Builders /\ builder[c] = "published" /\ UNCHANGED checks
     \/ c = "host" /\ checks < MaxChecks /\ checks' = checks + 1
  /\ at' = "inspect" /\ phase' = "manifest" /\ client' = c /\ cursor' = "manifest"
  /\ inode' = 0 /\ text' = "none" /\ todo' = {} /\ summary' = [n \in Paths |-> "none"]
  /\ verdict' = "none" /\ UNCHANGED <<files, builds, edits>>

Ends(v) ==
  /\ at' = "idle" /\ verdict' = v /\ client' = "none"
  /\ builder' = IF client \in Builders THEN [builder EXCEPT ![client] = v] ELSE builder
  /\ UNCHANGED <<phase, cursor, inode, text, todo, summary>>

\* The file is inspected, opened and read, each by itself: it must be regular and within its
\* limit, and the file that is opened must be the one inspected.
Inspect ==
  /\ at = "inspect"
  /\ IF cursor \notin Present \/ disk[dir[cursor]] \in Irregular THEN Ends("failed")
     ELSE /\ inode' = dir[cursor] /\ at' = "open"
          /\ UNCHANGED <<builder, phase, client, cursor, text, todo, summary, verdict>>
  /\ UNCHANGED <<files, written, edits, checks>>

Open ==
  /\ at = "open"
  /\ IF dir[cursor] # inode THEN Ends("failed")
     ELSE at' = "read" /\ UNCHANGED <<builder, phase, client, cursor, inode, text, todo, summary, verdict>>
  /\ UNCHANGED <<files, written, edits, checks>>

\* The Manifest is read first; then the directory is listed.
ReadManifest ==
  /\ at = "read" /\ phase = "manifest"
  /\ text' = disk[inode] /\ phase' = "list" /\ at' = "next" /\ todo' = Present
  /\ UNCHANGED <<files, builds, edits, checks, client, cursor, inode, summary, verdict>>

\* collect_bundle_files: everything that was there when the listing began, and perhaps what
\* came later.
ListNext(n) ==
  /\ at = "next" /\ phase = "list" /\ n \in todo \cup {p \in Present: summary[p] = "none"}
  /\ cursor' = n /\ todo' = todo \ {n} /\ at' = "inspect"
  /\ UNCHANGED <<files, builds, edits, checks, phase, client, inode, text, summary, verdict>>

Summarize ==
  /\ at = "read" /\ phase = "list"
  /\ IF Cardinality({p \in Paths: summary[p] # "none"}) >= MaxFiles THEN Ends("failed")
     ELSE /\ summary' = [summary EXCEPT ![cursor] = disk[inode]] /\ at' = "next"
          /\ UNCHANGED <<builder, phase, client, cursor, inode, text, todo, verdict>>
  /\ UNCHANGED <<files, written, edits, checks>>

\* Mutant: the Manifest only has to be there.
ManifestThere == summary["manifest"] # "none"

\* The Manifest that was read is the one the listing found.
ManifestKept == summary["manifest"] = text

\* The closure is exact: the files are those the Manifest declares, with their digests.
ExactClosure ==
  \A p \in Paths \ {"manifest"}:
    {summary[p]} \ {"none"} = {i.digest: i \in {j \in ImplsOf(text): j.path = p}}

\* V2 and V3 Process Artifacts are taken by their descriptor, Wasm Artifacts are read again.
Compare ==
  /\ at = "next" /\ phase = "list" /\ todo = {}
  /\ IF ManifestKept /\ ValidManifest(text) /\ ExactClosure
     THEN /\ phase' = "artifact" /\ todo' = {i.path: i \in WasmOf(text)}
          /\ UNCHANGED <<builder, at, client, cursor, inode, text, summary, verdict>>
     ELSE Ends("failed")
  /\ UNCHANGED <<files, written, edits, checks>>

ReadNext(n) ==
  /\ at = "next" /\ phase = "artifact" /\ n \in todo
  /\ cursor' = n /\ todo' = todo \ {n} /\ at' = "inspect"
  /\ UNCHANGED <<files, builds, edits, checks, phase, client, inode, text, summary, verdict>>

\* read_verified_bundle_artifact: the bytes are still those of the digest, and their descriptor
\* is the implementation's.
ReadArtifact ==
  /\ at = "read" /\ phase = "artifact"
  /\ IF \E i \in WasmOf(text): i.path = cursor /\ i.digest = disk[inode]
                                 /\ i.descriptor = Derived(disk[inode])
     THEN /\ at' = "next"
          /\ UNCHANGED <<builder, phase, client, cursor, inode, text, todo, summary, verdict>>
     ELSE Ends("failed")
  /\ UNCHANGED <<files, written, edits, checks>>

Verified ==
  /\ at = "next" /\ phase = "artifact" /\ todo = {} /\ Ends("ok")
  /\ UNCHANGED <<files, written, edits, checks>>

\* History: what was in the directory since the listing began.
Watched ==
  IF at' = "idle" THEN UNCHANGED <<seen, always>>
  ELSE IF phase' = "manifest" THEN seen' = {} /\ always' = Paths
  ELSE seen' = seen \cup Entries' /\ always' = always \cap Present'

BundleNext ==
  /\ \/ \E b \in Builders:
          BeginBuild(b) \/ WriteStaged(b) \/ BuildFails(b) \/ BuilderDies(b) \/ Publish(b)
     \/ \E n \in Paths: Edit(n) \/ ListNext(n) \/ ReadNext(n)
     \/ \E c \in Builders \cup {"host"}: Verify(c)
     \/ Inspect \/ Open \/ ReadManifest \/ Summarize \/ Compare \/ ReadArtifact \/ Verified
  /\ Watched

BundleSpec == BundleInit /\ [][BundleNext]_bundle

-----------------------------------------------------------------------------
(* Properties                                                              *)

\* A verified Bundle was there, whoever changed it meanwhile: after the listing began its
\* Manifest was in the directory, every Artifact it declares was at its path with the declared
\* digest, and no other file was there all the time.
VerifiedWasThere ==
  verdict = "ok" =>
    /\ <<"manifest", text>> \in seen
    /\ \A i \in ImplsOf(text): <<i.path, i.digest>> \in seen
    /\ always \subseteq {"manifest"} \cup {i.path: i \in ImplsOf(text)}

Holds(m) == {Staged(m)[i]: i \in DOMAIN Staged(m)}

\* Builders that race for one output, fail or die leave nothing or a whole Bundle of one of
\* them, and one that answers with a verified Bundle published it.
OutputWhole ==
  edits = 0 /\ Found = "none" =>
    /\ exists => \E b \in Builders: Entries = Holds(Builds[b])
    /\ \A b \in Builders:
         builder[b] = "ok" => Entries = Holds(Builds[b])
=============================================================================
