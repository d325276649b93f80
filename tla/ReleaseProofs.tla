---------------------------- MODULE ReleaseProofs ----------------------------
(***************************************************************************)
(* From a builder's output to a prepared Generation, what runs is what was *)
(* released: the parts of RunsWhatWasReleased for any number of builders,  *)
(* files, candidates, Instances and calls, and any changes by others.      *)
(*                                                                         *)
(* The modules this one extends share neither a step nor a variable: a     *)
(* theorem is about one of their specifications.                           *)
(***************************************************************************)
EXTENDS DylibAdapter, PluginBundle, HostDistribution, Preparation, ImplementationSelection,
        FiniteSetTheorems, WellFoundedInduction, TLAPS

-----------------------------------------------------------------------------
(* Native libraries                                                        *)

\* The worker is past its last call: it looks at the flag before it takes another.
PastLastCall == worker \in {"native", "left", "judge", "check", "drop", "drop_queue", "gone"}

\* Once a retired generation was entered, its worker is past that call for good.
LastCallInv == last \in {0, 1} /\ (last = 1 => failed) /\ (last = 1 => PastLastCall)

\* A generation that was retired stays so.
LEMMA RetiredStays == DylibNext /\ failed => failed'
  BY Zenon DEF DylibNext, WorkerStep, Load, Take, Enter, NativeReturns, Leave, Send, Check, DropLibrary,
               DropQueue, Started, StopFlags, StopStep, StopTells, StopLooks, Joined, CallStep, Submit,
               Answered, CheckRetired, CancelCall, DropCall

\* The worker that enters the library of a retired generation had not done so before.
LEMMA EntersOnce ==
  ASSUME LastCallInv, Enter
  PROVE  LastCallInv'
  <1>1. last = 0
    BY DEF LastCallInv, PastLastCall, Enter
  <1>2. failed' = failed
    BY DEF Enter
  <1>3. PastLastCall'
    BY DEF Enter, PastLastCall
  <1>4. last' \in {0, 1} /\ (last' = 1 => failed)
    BY <1>1 DEF Enter
  <1>5. last' = 1 => failed'
    BY <1>2, <1>4, Zenon
  <1> QED BY <1>3, <1>4, <1>5, Zenon DEF LastCallInv

\* Every other step leaves it past its last call.
LEMMA StaysPast ==
  ASSUME DylibNext, ~Enter, PastLastCall, failed
  PROVE  PastLastCall'
  <1> USE DEF PastLastCall
  <1>1. CASE WorkerStep
    <2>1. Check => worker' = "drop"
      BY Zenon DEF Check, GoesOn
    <2> QED BY <1>1, <2>1 DEF WorkerStep, Load, Take, Leave, Send, DropLibrary, DropQueue
  <1>2. CASE NativeReturns
    BY <1>2 DEF NativeReturns
  <1>3. CASE ~WorkerStep /\ ~NativeReturns
    <2>1. worker' = worker
      BY <1>3, Zenon DEF DylibNext, Started, StopFlags, StopStep, StopTells, StopLooks, Joined, CallStep,
                         Submit, Answered, CheckRetired, CancelCall, DropCall
    <2> QED BY <2>1
  <1> QED BY <1>1, <1>2, <1>3

\* Every step of the worker and of the Host keeps it.
LEMMA LastCallStep ==
  ASSUME LastCallInv, DylibNext
  PROVE  LastCallInv'
  <1>1. CASE Enter
    BY <1>1, EntersOnce
  <1>2. CASE ~Enter
    <2>1. last' = last
      BY <1>2, Zenon DEF DylibNext, WorkerStep, Load, Take, NativeReturns, Leave, Send, Check, DropLibrary,
                         DropQueue, Started, StopFlags, StopStep, StopTells, StopLooks, Joined, CallStep,
                         Submit, Answered, CheckRetired, CancelCall, DropCall
    <2> QED BY <1>2, <2>1, RetiredStays, StaysPast, Zenon DEF LastCallInv
  <1> QED BY <1>1, <1>2

\* A retired generation of a native library enters it at most once more, for any number of calls.
THEOREM LibraryRunsOneLastCall == DylibSpec => []OneLastCall
  <1>1. DylibInit => LastCallInv
    <2>1. DylibInit => last = 0
      BY Zenon DEF DylibInit
    <2> QED BY <2>1 DEF LastCallInv
  <1>2. LastCallInv /\ [DylibNext]_dylib => LastCallInv'
    <2>1. LastCallInv /\ UNCHANGED dylib => LastCallInv'
      <3>1. UNCHANGED dylib => UNCHANGED last /\ UNCHANGED failed /\ UNCHANGED worker
        BY DEF dylib
      <3>2. LastCallInv /\ UNCHANGED last /\ UNCHANGED failed /\ UNCHANGED worker => LastCallInv'
        <4> SUFFICES ASSUME LastCallInv, last' = last, failed' = failed, worker' = worker
                     PROVE  LastCallInv'
          OBVIOUS
        <4>1. PastLastCall => PastLastCall'
          BY DEF PastLastCall
        <4> QED BY <4>1, Zenon DEF LastCallInv
      <3> QED BY <3>1, <3>2
    <2> QED BY <2>1, LastCallStep
  <1>3. LastCallInv => OneLastCall
    BY DEF LastCallInv, OneLastCall
  <1> QED BY <1>1, <1>2, <1>3, PTL DEF DylibSpec

-----------------------------------------------------------------------------
(* The choice of an implementation                                         *)

\* What the policy lets run is what the selection finds compatible.
LEMMA CompatibleMayRun ==
  ASSUME OddIsUnknown, runtimes \in Seq(Admissions), NEW a \in DOMAIN runtimes
  PROVE  {c \in DOMAIN candidates: MayRun(c, a)} = Compatible(a)
  <1>1. runtimes[a].features \in {{}, Known}
    <2>1. runtimes[a] \in Admissions
      OBVIOUS
    <2> QED BY <2>1 DEF Admissions
  <1>2. ASSUME NEW c \in DOMAIN candidates
        PROVE  MayRun(c, a) <=> Matches(c, a) /\ Reason(c, a) = {}
    <2>1. CapabilityReason(c, a) = {} <=> candidates[c].needs \subseteq runtimes[a].features
      <3>1. Odd \in candidates[c].needs => ~(candidates[c].needs \subseteq runtimes[a].features)
        BY <1>1 DEF OddIsUnknown
      <3>2. {"requirement"} # {} /\ {"missing"} # {}
        OBVIOUS
      <3>3. candidates[c].needs \ runtimes[a].features = {} <=> candidates[c].needs \subseteq runtimes[a].features
        OBVIOUS
      <3> QED BY <3>1, <3>2, <3>3, Zenon DEF CapabilityReason
    <2>2. TargetReason(c) = {} <=> candidates[c].fits
      BY DEF TargetReason
    <2>3. {"profile"} # {}
      OBVIOUS
    <2>4. Reason(c, a) = {} <=> /\ runtimes[a].valid /\ candidates[c].fits
                               /\ candidates[c].needs \subseteq runtimes[a].features
      BY <2>1, <2>2, <2>3, Zenon DEF Reason
    <2> QED BY <2>4, Zenon DEF MayRun, Matches
  <1> QED BY <1>2, Zenon DEF Compatible

\* Candidate c has a reason.
Reasoned(c) == \E w \in rejected: w[1] = c

\* No admission before the turn has anything compatible, and whoever matched one has a reason; what
\* was chosen is alone compatible at the turn; and past the end everybody has a reason, or one
\* admission was ambiguous.
SelectionInv ==
  /\ runtimes \in Seq(Admissions) /\ turn \in 1..(Len(runtimes) + 2)
  /\ chosen # 0 => turn \in DOMAIN runtimes /\ Compatible(turn) = {chosen}
  /\ \/ /\ \A a \in 1..(turn - 1): a \in DOMAIN runtimes => Compatible(a) = {}
        /\ \A c \in DOMAIN candidates:
             (turn = Len(runtimes) + 2
                \/ \E a \in 1..(turn - 1): a \in DOMAIN runtimes /\ Matches(c, a)) => Reasoned(c)
     \/ /\ turn = Len(runtimes) + 2
        /\ \E a \in DOMAIN runtimes: Cardinality(Compatible(a)) > 1

\* It holds before the first admission.
LEMMA SelectionStarts == SelectionInit => SelectionInv
  <1> SUFFICES ASSUME SelectionInit PROVE SelectionInv
    OBVIOUS
  <1>1. PICK n \in 0..MaxAdmissions: runtimes \in [1..n -> Admissions]
    BY DEF SelectionInit
  <1>2. runtimes \in Seq(Admissions) /\ Len(runtimes) \in Nat
    BY <1>1
  <1>3. turn = 1 /\ chosen = 0
    BY DEF SelectionInit
  <1>4. 1..(turn - 1) = {}
    BY <1>3
  <1> QED BY <1>2, <1>3, <1>4 DEF SelectionInv

\* A candidate that matches an admission that was passed over has a reason.
LEMMA PassedOverHasReason ==
  ASSUME NEW a \in DOMAIN runtimes, Compatible(a) = {}, NEW c \in DOMAIN candidates, Matches(c, a)
  PROVE  \E w \in Refusals(a): w[1] = c
  <1>1. Reason(c, a) # {}
    BY Zenon DEF Compatible
  <1>2. PICK w \in Reason(c, a): TRUE
    BY <1>1
  <1>3. <<c, w>> \in Refusals(a)
    <2>1. <<c, w>> \in {<<c, x>>: x \in Reason(c, a)}
      BY <1>2
    <2>2. c \in {d \in DOMAIN candidates: Matches(d, a)}
      OBVIOUS
    <2> QED BY <2>1, <2>2 DEF Refusals
  <1> QED BY <1>3

\* Both steps keep it.
LEMMA SelectionStep ==
  ASSUME SelectionInv, SelectionNext
  PROVE  SelectionInv'
  <1>0. /\ UNCHANGED <<candidates, runtimes>> /\ Running
        /\ Len(runtimes) \in Nat /\ DOMAIN runtimes = 1..Len(runtimes) /\ turn \in Nat
    BY DEF SelectionNext, Admit, RecordUnadmitted, SelectionInv
  <1>1. \A a: Compatible(a)' = Compatible(a) /\ \A c: Matches(c, a)' <=> Matches(c, a)
    BY <1>0 DEF Compatible, Matches, Reason, TargetReason, CapabilityReason
  <1>2. \A c: Reasoned(c) /\ rejected \subseteq rejected' => Reasoned(c)'
    BY DEF Reasoned
  <1>3. /\ chosen = 0 /\ turn <= Len(runtimes) + 1
        /\ \A a \in 1..(turn - 1): a \in DOMAIN runtimes => Compatible(a) = {}
        /\ \A c \in DOMAIN candidates:
             (\E a \in 1..(turn - 1): a \in DOMAIN runtimes /\ Matches(c, a)) => Reasoned(c)
    BY <1>0 DEF SelectionInv, Running
  <1>4. CASE Admit
    <2>1. rejected \subseteq rejected' /\ Refusals(turn) \subseteq rejected' /\ turn \in DOMAIN runtimes
      <3>1. turn \in DOMAIN runtimes
        BY <1>0, <1>4 DEF Admit, SelectionInv
      <3>2. PICK R: rejected' = rejected \cup Refusals(turn) \cup R
        BY <1>4, Zenon DEF Admit
      <3> QED BY <3>1, <3>2
    <2>2. CASE Compatible(turn) = {} /\ turn' = turn + 1 /\ UNCHANGED chosen
      <3>1. ASSUME NEW c \in DOMAIN candidates, NEW a \in 1..turn, Matches(c, a)
            PROVE  Reasoned(c)'
        <4>1. CASE a = turn
          BY <2>1, <2>2, <3>1, <4>1, PassedOverHasReason DEF Reasoned
        <4>2. CASE a # turn
          <5>1. a \in 1..(turn - 1) /\ a \in DOMAIN runtimes
            BY <1>0, <2>1, <4>2
          <5> QED BY <1>2, <1>3, <2>1, <3>1, <5>1
        <4> QED BY <4>1, <4>2
      <3>2. \A a \in 1..turn: a \in DOMAIN runtimes => Compatible(a) = {}
        BY <1>0, <1>3, <2>2
      <3>3. turn' - 1 = turn /\ turn' \in 1..(Len(runtimes) + 2) /\ turn' # Len(runtimes) + 2 /\ chosen' = 0
        BY <1>0, <1>3, <2>1, <2>2
      <3> QED BY <1>0, <1>1, <3>1, <3>2, <3>3 DEF SelectionInv
    <2>3. CASE \E c \in Compatible(turn): Compatible(turn) = {c} /\ chosen' = c /\ UNCHANGED turn
      <3>1. turn # Len(runtimes) + 2
        BY <1>0, <1>3
      <3> QED BY <1>0, <1>1, <1>2, <1>3, <2>1, <2>3, <3>1 DEF SelectionInv
    <2>4. CASE Cardinality(Compatible(turn)) > 1 /\ turn' = Len(runtimes) + 2 /\ UNCHANGED chosen
      <3>1. PICK a \in DOMAIN runtimes: a = turn
        BY <2>1
      <3>2. Compatible(a)' = Compatible(a) /\ Cardinality(Compatible(a)) > 1
        BY <1>1, <2>4, <3>1
      <3>3. turn' \in 1..(Len(runtimes) + 2)
        BY <1>0, <2>4
      <3>4. \E b \in DOMAIN runtimes: Cardinality(Compatible(b))' > 1
        BY <3>2
      <3> QED BY <1>0, <1>3, <2>4, <3>3, <3>4 DEF SelectionInv
    <2> QED BY <1>4, <2>2, <2>3, <2>4 DEF Admit
  <1>5. CASE RecordUnadmitted
    <2>1. rejected \subseteq rejected' /\ turn = Len(runtimes) + 1 /\ turn' = Len(runtimes) + 2 /\ chosen' = chosen
      BY <1>0, <1>5 DEF RecordUnadmitted
    <2>2. ASSUME NEW c \in DOMAIN candidates
          PROVE  Reasoned(c)'
      <3>1. CASE c \in Unadmitted
        <4>1. <<c, "runtime">> \in rejected'
          BY <1>5, <3>1 DEF RecordUnadmitted
        <4> QED BY <4>1 DEF Reasoned
      <3>2. CASE c \notin Unadmitted
        <4>1. PICK a \in DOMAIN runtimes: Matches(c, a)
          BY <3>2, Zenon DEF Unadmitted
        <4>2. a \in 1..(turn - 1)
          BY <1>0, <2>1
        <4> QED BY <1>2, <1>3, <2>1, <4>1, <4>2
      <3> QED BY <3>1, <3>2
    <2>3. \A a \in 1..(turn' - 1): a \in DOMAIN runtimes => Compatible(a) = {}
      BY <1>0, <1>3, <2>1
    <2> QED BY <1>0, <1>1, <1>3, <2>1, <2>2, <2>3 DEF SelectionInv
  <1> QED BY <1>4, <1>5 DEF SelectionNext

\* What it promises about the policy.
LEMMA SelectionPromise ==
  ASSUME OddIsUnknown, SelectionInv
  PROVE  ChoiceIsThePolicys
  <1>1. \A a \in DOMAIN runtimes: {c \in DOMAIN candidates: MayRun(c, a)} = Compatible(a)
    BY CompatibleMayRun DEF SelectionInv
  <1>2. DOMAIN runtimes = 1..Len(runtimes) /\ Len(runtimes) \in Nat /\ turn \in Nat
    BY DEF SelectionInv
  <1>3. ASSUME chosen # 0
        PROVE  \E a \in DOMAIN runtimes:
                 /\ {c \in DOMAIN candidates: MayRun(c, a)} = {chosen}
                 /\ \A b \in 1..(a - 1), c \in DOMAIN candidates: ~MayRun(c, b)
    <2>1. turn \in DOMAIN runtimes /\ Compatible(turn) = {chosen}
      BY <1>3 DEF SelectionInv
    <2>2. ASSUME NEW b \in 1..(turn - 1), NEW c \in DOMAIN candidates
          PROVE  ~MayRun(c, b)
      <3>1. b \in DOMAIN runtimes /\ turn # Len(runtimes) + 2
        BY <1>2, <2>1
      <3>2. Compatible(b) = {}
        BY <3>1 DEF SelectionInv
      <3> QED BY <1>1, <3>1, <3>2
    <2> QED BY <1>1, <2>1, <2>2
  <1>4. ASSUME ~Running, chosen = 0
        PROVE  \/ \E a \in DOMAIN runtimes: Cardinality({c \in DOMAIN candidates: MayRun(c, a)}) > 1
               \/ \A c \in DOMAIN candidates: \E w \in rejected: w[1] = c
    <2>1. turn = Len(runtimes) + 2
      BY <1>2, <1>4 DEF Running, SelectionInv
    <2>2. CASE \A c \in DOMAIN candidates: Reasoned(c)
      BY <2>2 DEF Reasoned
    <2>3. CASE \E a \in DOMAIN runtimes: Cardinality(Compatible(a)) > 1
      BY <1>1, <2>3
    <2> QED BY <2>1, <2>2, <2>3 DEF SelectionInv
  <1> QED BY <1>3, <1>4 DEF ChoiceIsThePolicys

\* The implementation that is chosen is the one the Host's policy names, for any candidates and
\* any admissions, and a refusal leaves no candidate without a reason.
THEOREM PolicyChooses ==
  ASSUME OddIsUnknown
  PROVE  SelectionSpec => []ChoiceIsThePolicys
  <1>1. SelectionInv /\ [SelectionNext]_selection => SelectionInv'
    <2>1. SelectionInv /\ UNCHANGED selection => SelectionInv'
      <3>1. UNCHANGED selection => UNCHANGED <<candidates, runtimes, turn, chosen, rejected>>
        BY DEF selection
      <3>2. UNCHANGED <<candidates, runtimes>> =>
              \A a: Compatible(a)' = Compatible(a) /\ \A c: Matches(c, a)' <=> Matches(c, a)
        BY DEF Compatible, Matches, Reason, TargetReason, CapabilityReason
      <3>3. UNCHANGED rejected => \A c: Reasoned(c)' <=> Reasoned(c)
        BY DEF Reasoned
      <3> QED BY <3>1, <3>2, <3>3 DEF SelectionInv
    <2> QED BY <2>1, SelectionStep
  <1> QED BY <1>1, SelectionStarts, SelectionPromise, PTL DEF SelectionSpec

-----------------------------------------------------------------------------
(* A distribution                                                          *)

\* The first of the entries for an Artifact is one of them.
LEMMA FirstIsAnEntry ==
  ASSUME InventoriesAreLists, entries \in Releases, NEW i, EntriesFor(i) # {}
  PROVE  First(i) \in EntriesFor(i)
  <1>1. EntriesFor(i) \subseteq Nat
    BY DEF InventoriesAreLists, EntriesFor
  <1> DEFINE Smaller == {s \in Nat \X Nat: s[1] < s[2]}
  <1>2. IsWellFoundedOn(Smaller, Nat)
    BY NatLessThanWellFounded DEF OpToRel
  <1>3. PICK k \in EntriesFor(i): \A j \in EntriesFor(i): ~(<<j, k>> \in Smaller)
    <2> HIDE DEF Smaller
    <2> DEFINE Those == EntriesFor(i)
    <2>1. Those \subseteq Nat /\ Those # {}
      BY <1>1
    <2> HIDE DEF Those
    <2>2. \E k \in Those: \A j \in Those: ~(<<j, k>> \in Smaller)
      BY <1>2, <2>1, WFMin
    <2> QED BY <2>2 DEF Those
  <1>4. ASSUME NEW j \in EntriesFor(i)
        PROVE  k <= j
    <2>1. j \in Nat /\ k \in Nat
      BY <1>1
    <2>2. ~(j < k)
      BY <1>3, <2>1
    <2> QED BY <2>1, <2>2
  <1> QED BY <1>3, <1>4, Zenon DEF First

\* The resolver ended well, its whole answer was taken, and it worked from the host build of the
\* lock.
WellResolved == authority = lock /\ child = "done" /\ drained = Chunks /\ sent = Chunks

\* What the Host reads and keeps.
HostTypes ==
  copies \in [Planned -> Seq(Releases)] /\ lock \in 0..2 /\ entries \in 0..2
    /\ authority \in 0..2 /\ sent \in Nat /\ drained \in Nat

\* Instance i has its Artifact, whole.
Provided(i) == Pick[answer][i].release = lock /\ copies[i] = Whole(lock)

\* From the answer on nothing more comes of the resolver; an Instance that was provided for has
\* its Artifact whole, and the one that is copied has one of the lock's release.
ReleaseInv ==
  /\ stage \notin {"read_lock", "failed"} => lock \in Releases
  /\ stage \in {"inventory", "select", "copy", "close", "prepared"} => WellResolved
  /\ stage \in {"select", "copy"} => entries \in Releases
  /\ stage = "copy" => current \in Planned /\ Pick[answer][current].release = lock
  /\ stage \in {"select", "copy", "close", "prepared"} => \A i \in Planned \ missing: Provided(i)
  /\ stage \in {"close", "prepared"} => missing = {}

\* The release that has a content.
LEMMA ReleaseOfContent == \A c: ReleaseOf(c) \in 0..2
  <1> SUFFICES ASSUME NEW c PROVE ReleaseOf(c) \in 0..2
    OBVIOUS
  <1>1. CASE \E v \in Releases: c = Whole(v)
    <2> DEFINE v == CHOOSE v \in Releases: c = Whole(v)
    <2>1. v \in Releases
      BY <1>1
    <2>2. ReleaseOf(c) = v
      BY <1>1, Zenon DEF ReleaseOf
    <2> QED BY <2>1, <2>2 DEF Releases
  <1>2. CASE ~\E v \in Releases: c = Whole(v)
    BY <1>2 DEF ReleaseOf
  <1> QED BY <1>1, <1>2

\* A failure ends it.
LEMMA FailureEndsIt ==
  ASSUME HostTypes, Fails, authority' \in 0..2, sent' \in Nat, drained' \in Nat
  PROVE  HostTypes' /\ ReleaseInv'
  BY DEF Fails, HostTypes, ReleaseInv

\* The lock and the files are read.
LEMMA LockIsRead ==
  ASSUME HostTypes, ReleaseInv, ReadLock \/ (\E n \in Locked: CompareFile(n)) \/ Spawn
  PROVE  HostTypes' /\ ReleaseInv'
  <1>1. UNCHANGED <<sent, drained, authority>>
    BY DEF ReadLock, CompareFile, Spawn, resolver
  <1>2. CASE Fails
    BY <1>1, <1>2, FailureEndsIt DEF HostTypes
  <1>3. CASE ~Fails
    <2>1. CASE ReadLock
      BY <1>1, <1>3, <2>1, ReleaseOfContent DEF ReadLock, HostTypes, ReleaseInv, Releases
    <2>2. CASE \E n \in Locked: CompareFile(n)
      BY <1>1, <1>3, <2>2 DEF CompareFile, HostTypes, ReleaseInv
    <2>3. CASE Spawn
      BY <1>1, <1>3, <2>3 DEF Spawn, HostTypes, ReleaseInv
    <2> QED BY <2>1, <2>2, <2>3
  <1> QED BY <1>2, <1>3

\* The resolver runs, and ends.
LEMMA ResolverRuns ==
  ASSUME HostTypes, ReleaseInv,
         ResolverReads \/ ResolverWrites \/ ResolverExits \/ DescendantExits \/ DrainChunk
  PROVE  HostTypes' /\ ReleaseInv'
  <1>1. UNCHANGED <<stage, missing, current, lock, entries, kept, got, copies, answer>>
    BY DEF ResolverReads, ResolverWrites, ResolverExits, DescendantExits, DrainChunk, hosting
  <1>2. authority' \in 0..2 /\ sent' \in Nat /\ drained' \in Nat
    BY ReleaseOfContent DEF ResolverReads, ResolverWrites, ResolverExits, DescendantExits, DrainChunk, HostTypes
  <1>3. WellResolved => WellResolved'
    BY <1>1 DEF ResolverReads, ResolverWrites, ResolverExits, DescendantExits, DrainChunk, WellResolved, HostTypes
  <1>4. \A i: Provided(i)' <=> Provided(i)
    BY <1>1 DEF Provided
  <1> QED BY <1>1, <1>2, <1>3, <1>4 DEF HostTypes, ReleaseInv

\* Its answer is taken, and the inventory read.
LEMMA AnswerIsTaken ==
  ASSUME HostTypes, ReleaseInv, Polled \/ ResolverTimesOut \/ Resolved \/ ReadInventory \/ Close
  PROVE  HostTypes' /\ ReleaseInv'
  <1>1. UNCHANGED <<sent, drained, authority>>
    BY DEF Polled, ResolverTimesOut, Resolved, ReadInventory, Close, resolver
  <1>2. CASE Fails
    BY <1>1, <1>2, FailureEndsIt DEF HostTypes
  <1>3. CASE ~Fails
    <2>1. CASE Polled
      BY <1>1, <2>1 DEF Polled, HostTypes, ReleaseInv
    <2>2. CASE ResolverTimesOut
      BY <1>3, <2>2 DEF ResolverTimesOut
    <2>3. CASE Resolved
      <3>1. /\ stage' = "inventory" /\ lock' = lock /\ entries' = entries /\ copies' = copies
            /\ stage = "joining" /\ WellResolved
        BY <1>3, <2>3 DEF Resolved, WellResolved
      <3>2. WellResolved'
        BY <1>1, <2>3, <3>1 DEF Resolved, WellResolved, resolver
      <3> QED BY <1>1, <3>1, <3>2 DEF HostTypes, ReleaseInv
    <2>4. CASE ReadInventory
      <3>1. WellResolved'
        BY <1>1, <1>3, <2>4 DEF ReadInventory, ReleaseInv, WellResolved, resolver
      <3>2. missing' = Planned /\ stage' = "select" /\ entries' \in Releases /\ UNCHANGED <<lock, copies>>
        BY <1>3, <2>4, ReleaseOfContent DEF ReadInventory, Releases
      <3>3. stage = "inventory"
        BY <2>4 DEF ReadInventory
      <3> QED BY <1>1, <3>1, <3>2, <3>3 DEF HostTypes, ReleaseInv, Releases
    <2>5. CASE Close
      <3>1. WellResolved' /\ \A i: Provided(i)' <=> Provided(i)
        BY <1>1, <2>5 DEF Close, ReleaseInv, WellResolved, resolver, Provided
      <3> QED BY <1>1, <2>5, <3>1 DEF Close, HostTypes, ReleaseInv
    <2> QED BY <2>1, <2>2, <2>3, <2>4, <2>5
  <1> QED BY <1>2, <1>3

\* The Artifacts are opened and copied.
LEMMA ArtifactsAreCopied ==
  ASSUME InventoriesAreLists, HostTypes, ReleaseInv,
         (\E i \in Planned: OpenArtifact(i)) \/ CopyBlock \/ KeepCopy
  PROVE  HostTypes' /\ ReleaseInv'
  <1>1. UNCHANGED <<sent, drained, authority, child>>
    BY DEF OpenArtifact, CopyBlock, KeepCopy, resolver
  <1>2. CASE Fails
    BY <1>1, <1>2, FailureEndsIt DEF HostTypes
  <1>3. CASE ~Fails
    <2>0. stage \in {"select", "copy"} /\ WellResolved
          /\ lock \in Releases /\ entries \in Releases /\ \A i \in Planned \ missing: Provided(i)
      BY DEF OpenArtifact, CopyBlock, KeepCopy, ReleaseInv
    <2>1. UNCHANGED <<lock, entries, answer>>
      BY <1>3 DEF OpenArtifact, CopyBlock, KeepCopy
    <2>2. WellResolved'
      BY <1>1, <2>0, <2>1 DEF WellResolved
    <2>3. ASSUME NEW i \in Planned, OpenArtifact(i)
          PROVE  HostTypes' /\ ReleaseInv'
      <3>1. /\ stage' = "copy" /\ current' = i /\ UNCHANGED <<missing, copies>> /\ Selectable(i)
        BY <1>3, <2>3 DEF OpenArtifact
      <3>2. Pick[answer][i].release = lock
        BY <2>0, <3>1, FirstIsAnEntry DEF Selectable, EntriesFor
      <3>3. \A j: Provided(j)' <=> Provided(j)
        BY <2>1, <3>1 DEF Provided
      <3> QED BY <1>1, <2>0, <2>1, <2>2, <3>1, <3>2, <3>3 DEF HostTypes, ReleaseInv
    <2>4. CASE CopyBlock
      <3>1. UNCHANGED <<stage, missing, current, copies>>
        BY <2>4 DEF CopyBlock
      <3>2. \A j: Provided(j)' <=> Provided(j)
        BY <2>1, <3>1 DEF Provided
      <3> QED BY <1>1, <2>0, <2>1, <2>2, <3>1, <3>2 DEF HostTypes, ReleaseInv
    <2>5. CASE KeepCopy
      <3>1. /\ stage = "copy" /\ current \in Planned /\ Pick[answer][current].release = lock
            /\ got = Whole(lock)
        BY <1>3, <2>5 DEF KeepCopy, ReleaseInv, DigestOfCopy
      <3>2. /\ copies' = [copies EXCEPT ![current] = got] /\ missing' = missing \ {current}
            /\ stage' = IF missing = {current} THEN "close" ELSE "select"
        BY <1>3, <2>5 DEF KeepCopy
      <3>3. copies' \in [Planned -> Seq(Releases)]
        BY <2>0, <3>1, <3>2 DEF HostTypes, Whole
      <3>4. \A j \in Planned \ missing': Provided(j)'
        BY <2>0, <2>1, <3>1, <3>2 DEF Provided, HostTypes
      <3>5. stage' \in {"close", "select"} /\ (stage' = "close" => missing' = {})
        BY <3>2
      <3> QED BY <1>1, <2>0, <2>1, <2>2, <3>3, <3>4, <3>5 DEF HostTypes, ReleaseInv
    <2> QED BY <2>3, <2>4, <2>5
  <1> QED BY <1>2, <1>3

\* The updater changes only files, and what an open file was.
LEMMA UpdatesAreOutside ==
  ASSUME HostTypes, ReleaseInv,
         (\E n \in Files: ReplaceFile(n)) \/ (\E n \in Slots, k \in 1..2: RewriteBlock(n, k))
  PROVE  HostTypes' /\ ReleaseInv'
  <1>1. UNCHANGED <<stage, missing, current, lock, entries, got, copies, answer, sent, drained, authority, child>>
    BY DEF ReplaceFile, RewriteBlock, hosting, resolver
  <1>2. (WellResolved' <=> WellResolved) /\ \A j: Provided(j)' <=> Provided(j)
    BY <1>1 DEF Provided, WellResolved
  <1> QED BY <1>1, <1>2 DEF HostTypes, ReleaseInv

\* A Generation that was prepared is of one release, that of the lock, whatever the updater did
\* and however often, for any Instances, inventories and answers of the resolver.
THEOREM PreparedGenerationsAreOneRelease ==
  ASSUME InventoriesAreLists
  PROVE  DistributionSpec => []PreparedIsOneRelease
  <1>1. DistributionInit => HostTypes /\ ReleaseInv
    BY DEF DistributionInit, HostTypes, ReleaseInv, Unset, Whole
  <1>2. HostTypes /\ ReleaseInv /\ [DistributionNext]_distribution => (HostTypes /\ ReleaseInv)'
    <2>1. HostTypes /\ ReleaseInv /\ UNCHANGED distribution => (HostTypes /\ ReleaseInv)'
      BY DEF HostTypes, ReleaseInv, distribution, hosting, resolver, WellResolved, Provided
    <2> QED BY <2>1, LockIsRead, ResolverRuns, AnswerIsTaken, ArtifactsAreCopied, UpdatesAreOutside
               DEF DistributionNext
  <1>3. ReleaseInv => PreparedIsOneRelease
    BY DEF ReleaseInv, PreparedIsOneRelease, WellResolved, Provided
  <1> QED BY <1>1, <1>2, <1>3, PTL DEF DistributionSpec

-----------------------------------------------------------------------------
(* The files of a Bundle                                                   *)

\* What a file may hold.
Contents == DOMAIN Manifests \cup {"x", "y", "z", "link"}

\* What an implementation is.
ImplRecords == [id: Nat, path: {"a", "b"}, digest: {"x", "y", "z"}, revision: {"x", "y", "z"},
                media: {"wasm", "process"}, descriptor: {"d1", "d2"}]

\* One that is written down is one.
LEMMA ImplIsRecord ==
  ASSUME NEW i \in Nat, NEW p \in {"a", "b"}, NEW d \in {"x", "y", "z"}, NEW n \in {"wasm", "process"},
         NEW s \in {"d1", "d2"}
  PROVE  Impl(i, p, d, n, s) \in ImplRecords
  BY DEF Impl, ImplRecords

\* The implementations of every Manifest are a sequence of them.
LEMMA ImplsOfManifests ==
  ASSUME NEW m \in DOMAIN Manifests
  PROVE  Manifests[m].impls \in Seq(ImplRecords)
  <1>1. m \in {"one", "two", "old", "twice", "clash", "mixed"}
    BY DEF Manifests
  <1>2. CASE m = "one"
    <2>1. Manifests[m].impls = <<Impl(1, "a", "x", "wasm", "d1")>>
      BY <1>2 DEF Manifests
    <2> QED BY <2>1, ImplIsRecord
  <1>3. CASE m = "two"
    <2>1. Manifests[m].impls = <<Impl(1, "a", "x", "wasm", "d1"), Impl(2, "b", "y", "process", "d2")>>
      BY <1>3 DEF Manifests
    <2> QED BY <2>1, ImplIsRecord
  <1>4. CASE m = "old"
    <2>1. Manifests[m].impls = <<Impl(1, "a", "y", "process", "d2")>>
      BY <1>4 DEF Manifests
    <2> QED BY <2>1, ImplIsRecord
  <1>5. CASE m = "twice"
    <2>1. Manifests[m].impls = <<Impl(1, "a", "z", "wasm", "d1")>>
      BY <1>5 DEF Manifests
    <2> QED BY <2>1, ImplIsRecord
  <1>6. CASE m = "clash"
    <2>1. Manifests[m].impls = <<Impl(1, "a", "x", "wasm", "d1"), Impl(1, "a", "y", "process", "d2")>>
      BY <1>6 DEF Manifests
    <2> QED BY <2>1, ImplIsRecord
  <1>7. CASE m = "mixed"
    <2>1. Manifests[m].impls = <<Impl(1, "a", "x", "wasm", "d1")>>
      BY <1>7 DEF Manifests
    <2> QED BY <2>1, ImplIsRecord
  <1> QED BY <1>1, <1>2, <1>3, <1>4, <1>5, <1>6, <1>7

\* What is staged for a Manifest: its Artifacts, and last the Manifest.
LEMMA StagedFiles ==
  ASSUME NEW m \in DOMAIN Manifests
  PROVE  /\ Staged(m) \in Seq(Paths \X Contents)
         /\ DOMAIN Manifests[m].impls = 1..(Len(Staged(m)) - 1) /\ Len(Staged(m)) \in Nat \ {0}
         /\ \A i \in DOMAIN Manifests[m].impls:
              /\ Staged(m)[i] = <<Manifests[m].impls[i].path, Manifests[m].impls[i].digest>>
              /\ Manifests[m].impls[i].path \in {"a", "b"}
         /\ Staged(m)[Len(Staged(m))] = <<"manifest", m>>
  <1> DEFINE I == Manifests[m].impls
             S == [i \in DOMAIN I |-> <<I[i].path, I[i].digest>>]
  <1>1. I \in Seq(ImplRecords)
    BY ImplsOfManifests
  <1>a. DOMAIN I = 1..Len(I) /\ Len(I) \in Nat /\ \A i \in DOMAIN I: I[i] \in ImplRecords
    <2> HIDE DEF I
    <2> QED BY <1>1
  <1>b. \A i \in DOMAIN I: I[i].path \in {"a", "b"} /\ I[i].digest \in {"x", "y", "z"}
    <2> HIDE DEF I
    <2> QED BY <1>a DEF ImplRecords
  <1> HIDE DEF I
  <1>2. S \in Seq(Paths \X Contents) /\ Len(S) = Len(I) /\ DOMAIN S = DOMAIN I
    <2>1. \A i \in DOMAIN I: <<I[i].path, I[i].digest>> \in Paths \X Contents
      BY <1>b DEF Paths, Contents
    <2>2. S \in [1..Len(I) -> Paths \X Contents]
      BY <1>a, <2>1
    <2> HIDE DEF S
    <2>3. S \in Seq(Paths \X Contents) /\ Len(S) = Len(I)
      BY <1>a, <2>2
    <2> QED BY <1>a, <2>2, <2>3
  <1>3. Staged(m) = S \o <<<<"manifest", m>>>>
    BY DEF Staged, I
  <1>4. <<"manifest", m>> \in Paths \X Contents
    BY DEF Paths, Contents
  <1>5. <<<<"manifest", m>>>> \in Seq(Paths \X Contents) /\ Len(<<<<"manifest", m>>>>) = 1
    BY <1>4
  <1>c. \A i \in DOMAIN I: S[i] = <<I[i].path, I[i].digest>>
    OBVIOUS
  <1> HIDE DEF S
  <1>6. Staged(m) \in Seq(Paths \X Contents) /\ Len(Staged(m)) = Len(I) + 1
    BY <1>2, <1>3, <1>5
  <1>7. \A i \in DOMAIN I: Staged(m)[i] = S[i]
    BY <1>a, <1>2, <1>3, <1>5
  <1>8. Staged(m)[Len(I) + 1] = <<"manifest", m>>
    BY <1>a, <1>2, <1>3, <1>5
  <1>9. DOMAIN I = 1..(Len(Staged(m)) - 1) /\ Len(Staged(m)) \in Nat \ {0}
    BY <1>a, <1>6
  <1> QED BY <1>6, <1>7, <1>8, <1>9, <1>b, <1>c DEF I

\* The files that were created are the first c, and every path has one of its own.
SoundWith(D, E, c) ==
  /\ E \in [1..MaxInode -> Contents \cup {"none"}] /\ D \in [Paths -> 0..c]
  /\ \A i \in 1..MaxInode: E[i] # "none" <=> i <= c
  /\ \A n, p \in Paths: D[n] # 0 /\ D[n] = D[p] => n = p
FilesSound == Created \in 0..MaxInode /\ SoundWith(dir, disk, Created)

\* The files created are counted.
LEMMA CreatedCounts ==
  ASSUME MaxInode \in Nat, NEW D, NEW E, NEW c \in 0..MaxInode, SoundWith(D, E, c)
  PROVE  Cardinality({i \in 1..MaxInode: E[i] # "none"}) = c
  <1>1. {i \in 1..MaxInode: E[i] # "none"} = 1..c
    BY DEF SoundWith
  <1>2. Cardinality(1..c) = c
    BY FS_Interval
  <1> QED BY <1>1, <1>2

\* Where the files of a whole Bundle are.
LEMMA DirOfBundle ==
  ASSUME NEW m \in DOMAIN Manifests, NEW u \in Nat
  PROVE  LET D == DirOf(m, Len(Staged(m)), u) IN
           /\ D \in [Paths -> 0..(u + Len(Staged(m)))]
           /\ \A n \in Paths: D[n] # 0 =>
                /\ D[n] - u \in DOMAIN Staged(m) /\ Staged(m)[D[n] - u][1] = n
                /\ D[n] - u \in Places(m, n)
           /\ \A n \in Paths: Places(m, n) # {} => D[n] # 0
  <1> DEFINE D == DirOf(m, Len(Staged(m)), u)
  <1>1. DOMAIN Staged(m) = 1..Len(Staged(m)) /\ Len(Staged(m)) \in Nat
    BY StagedFiles
  <1>2. ASSUME NEW n \in Paths
        PROVE  /\ Places(m, n) = {} => D[n] = 0
               /\ Places(m, n) # {} => \E i \in Places(m, n): D[n] = u + i
    <2>1. Places(m, n) \cap 1..Len(Staged(m)) = Places(m, n)
      BY <1>1 DEF Places
    <2>2. D[n] = IF Places(m, n) = {} THEN 0 ELSE u + CHOOSE i \in Places(m, n): TRUE
      BY <2>1 DEF DirOf
    <2>3. Places(m, n) # {} => (CHOOSE i \in Places(m, n): TRUE) \in Places(m, n)
      OBVIOUS
    <2> HIDE DEF D
    <2> QED BY <2>2, <2>3
  <1>3. D = [n \in Paths |-> D[n]]
    BY DEF DirOf
  <1> HIDE DEF D
  <1>4. ASSUME NEW n \in Paths, NEW i \in Places(m, n)
        PROVE  i \in DOMAIN Staged(m) /\ Staged(m)[i][1] = n /\ i \in 1..Len(Staged(m))
    BY <1>1 DEF Places
  <1>5. ASSUME NEW n \in Paths, D[n] # 0
        PROVE  /\ D[n] - u \in DOMAIN Staged(m) /\ Staged(m)[D[n] - u][1] = n
               /\ D[n] - u \in Places(m, n)
    <2>1. PICK i \in Places(m, n): D[n] = u + i
      BY <1>2, <1>5
    <2>2. D[n] - u = i
      BY <1>4, <2>1
    <2> QED BY <1>4, <2>2
  <1>6. ASSUME NEW n \in Paths
        PROVE  D[n] \in 0..(u + Len(Staged(m)))
    BY <1>1, <1>2, <1>4
  <1>7. ASSUME NEW n \in Paths, Places(m, n) # {}
        PROVE  D[n] # 0
    BY <1>2, <1>4, <1>7
  <1>8. D \in [Paths -> 0..(u + Len(Staged(m)))]
    BY <1>3, <1>6
  <1> QED BY <1>5, <1>7, <1>8 DEF D

\* A whole Bundle leaves sound files.
LEMMA BundleIsSound ==
  ASSUME MaxInode \in Nat, NEW m \in DOMAIN Manifests, NEW u \in Nat, u + Len(Staged(m)) <= MaxInode,
         NEW D, NEW E, SoundWith(D, E, u)
  PROVE  LET k == Len(Staged(m)) IN
           /\ SoundWith(DirOf(m, k, u), DiskOf(m, k, u, E), u + k)
           /\ \A i \in 1..u: DiskOf(m, k, u, E)[i] = E[i]
           /\ \A i \in 1..k: DiskOf(m, k, u, E)[u + i] = Staged(m)[i][2]
  <1> DEFINE k == Len(Staged(m))
             N == DirOf(m, k, u)
             F == DiskOf(m, k, u, E)
  <1>1. /\ DOMAIN Staged(m) = 1..k /\ k \in Nat
        /\ \A i \in 1..k: Staged(m)[i][2] \in Contents
    BY StagedFiles
  <1>2. F = [i \in 1..MaxInode |-> IF i \in (u + 1)..(u + k) THEN Staged(m)[i - u][2] ELSE E[i]]
    BY DEF DiskOf
  <1>3. /\ N \in [Paths -> 0..(u + k)]
        /\ \A n \in Paths: N[n] # 0 => N[n] - u \in 1..k /\ Staged(m)[N[n] - u][1] = n
    BY <1>1, DirOfBundle
  <1>4. "none" \notin Contents
    BY DEF Contents, Manifests
  <1> HIDE DEF k, N, F
  <1>5. u + k <= MaxInode
    BY DEF k
  <1>6. \A n, p \in Paths: N[n] # 0 /\ N[n] = N[p] => n = p
    BY <1>3
  <1>7. \A i \in 1..MaxInode: i \in (u + 1)..(u + k) => F[i] \in Contents /\ F[i] = Staged(m)[i - u][2]
    BY <1>1, <1>2
  <1>8. \A i \in 1..MaxInode: i \notin (u + 1)..(u + k) => F[i] = E[i]
    BY <1>2
  <1>9. F \in [1..MaxInode -> Contents \cup {"none"}]
    <2>1. \A i \in 1..MaxInode: F[i] \in Contents \cup {"none"}
      BY <1>7, <1>8 DEF SoundWith
    <2> QED BY <1>2, <2>1
  <1>10. \A i \in 1..MaxInode: F[i] # "none" <=> i <= u + k
    BY <1>1, <1>4, <1>7, <1>8 DEF SoundWith
  <1>11. \A i \in 1..u: F[i] = E[i]
    BY <1>1, <1>5, <1>8
  <1>12. \A i \in 1..k: F[u + i] = Staged(m)[i][2]
    <2>1. SUFFICES ASSUME NEW i \in 1..k PROVE F[u + i] = Staged(m)[i][2]
      OBVIOUS
    <2>2. u + i \in 1..MaxInode /\ u + i \in (u + 1)..(u + k) /\ (u + i) - u = i
      BY <1>1, <1>5
    <2> QED BY <1>7, <2>2
  <1> QED BY <1>3, <1>6, <1>9, <1>10, <1>11, <1>12 DEF SoundWith, N, F, k

\* A builder stages what has a valid Manifest.
BuildersSound ==
  /\ builder \in [Builders -> {"new", "staging", "published", "dead", "refused", "failed", "ok"}]
  /\ written \in [Builders -> Nat]
  /\ \A b \in Builders: builder[b] = "staging" => ValidManifest(Builds[b])

\* The directory is changed file by file: a path keeps its file, loses it or gets a new one, and
\* what is written is at its path.
ChangesGently ==
  /\ Created <= Created'
  /\ \A n \in Paths: dir'[n] = 0 \/ dir'[n] = dir[n] \/ dir'[n] > Created
  /\ \A i \in 1..Created: disk'[i] = disk[i] \/ \E n \in Paths: dir[n] = i /\ dir'[n] = i

\* No files are sound files.
LEMMA NoFilesAreSound ==
  ASSUME MaxInode \in Nat
  PROVE  SoundWith([n \in Paths |-> 0], Blank, 0)
  BY DEF SoundWith, Blank

\* The files are sound at the start.
LEMMA FilesStart ==
  ASSUME BundleFits, BundleInit
  PROVE  FilesSound /\ BuildersSound
  <1>0. MaxInode \in Nat
    BY DEF BundleFits
  <1>1. ASSUME NEW c \in 0..MaxInode, SoundWith(dir, disk, c)
        PROVE  FilesSound
    BY <1>0, <1>1, CreatedCounts DEF FilesSound, Created
  <1>2. CASE Found = "none"
    <2>1. SoundWith(dir, disk, 0)
      BY <1>0, <1>2, NoFilesAreSound DEF BundleInit
    <2> QED BY <1>0, <1>1, <2>1 DEF BundleInit, BuildersSound
  <1>3. CASE Found # "none"
    <2> DEFINE k == Len(Staged(Found))
    <2>1. Found \in DOMAIN Manifests /\ k <= MaxInode /\ k \in Nat
      BY <1>3, StagedFiles DEF BundleFits
    <2> HIDE DEF k
    <2>2. SoundWith(DirOf(Found, k, 0), DiskOf(Found, k, 0, Blank), 0 + k)
      <3>1. 0 + k <= MaxInode /\ 0 \in Nat
        BY <2>1
      <3> QED BY <1>0, <2>1, <3>1, NoFilesAreSound, BundleIsSound DEF k
    <2>3. SoundWith(dir, disk, k)
      BY <1>3, <2>1, <2>2 DEF BundleInit, k
    <2> QED BY <1>0, <1>1, <2>1, <2>3 DEF BundleInit, BuildersSound
  <1> QED BY <1>2, <1>3

\* What changed nothing left sound files.
LEMMA FilesStay ==
  ASSUME FilesSound, UNCHANGED <<dir, disk>>
  PROVE  FilesSound' /\ ChangesGently /\ Created' = Created
  <1>1. Created' = Created
    BY DEF Created
  <1>2. SoundWith(dir, disk, Created)'
    BY <1>1 DEF FilesSound, SoundWith
  <1> QED BY <1>1, <1>2 DEF FilesSound, ChangesGently

\* What is published leaves sound files.
LEMMA PublishChanges ==
  ASSUME MaxInode \in Nat, FilesSound, BuildersSound, NEW b \in Builders, Publish(b)
  PROVE  FilesSound' /\ ChangesGently
  <1>1. CASE UNCHANGED files
    BY <1>1, FilesStay DEF files
  <1>2. CASE ~UNCHANGED files
    <2> DEFINE m == Builds[b]
               k == Len(Staged(m))
               u == Created
    <2>1. m \in DOMAIN Manifests /\ written[b] = k /\ u \in 0..MaxInode /\ k \in Nat /\ u + k <= MaxInode
      <3>1. builder[b] = "staging" /\ written[b] = k /\ u + written[b] <= MaxInode
        BY <1>2 DEF Publish, Moves, Complete
      <3>2. m \in DOMAIN Manifests
        BY <3>1 DEF BuildersSound, ValidManifest
      <3> QED BY <3>1, <3>2, StagedFiles DEF FilesSound
    <2>2. dir' = DirOf(m, k, u) /\ disk' = DiskOf(m, k, u, disk)
      BY <1>2, <2>1 DEF Publish
    <2> HIDE DEF m, k, u
    <2>3. /\ SoundWith(dir', disk', u + k)
          /\ \A i \in 1..u: disk'[i] = disk[i]
      <3>1. u \in Nat /\ u + Len(Staged(m)) <= MaxInode
        BY <2>1 DEF k
      <3>2. SoundWith(dir, disk, u)
        BY DEF FilesSound, u
      <3> QED BY <2>1, <2>2, <3>1, <3>2, BundleIsSound DEF k
    <2>4. u + k \in 0..MaxInode
      BY <2>1
    <2>5. Created' = u + k
      BY <2>3, <2>4, CreatedCounts DEF Created
    <2>6. \A n \in Paths: dir'[n] = 0 \/ dir'[n] > u
      <3>1. u \in Nat
        BY <2>1
      <3>2. \A n \in Paths: DirOf(m, Len(Staged(m)), u)[n] # 0 =>
              DirOf(m, Len(Staged(m)), u)[n] - u \in DOMAIN Staged(m)
        BY <2>1, <3>1, DirOfBundle
      <3>3. DOMAIN Staged(m) = 1..Len(Staged(m))
        BY <2>1, StagedFiles
      <3>4. \A n \in Paths: dir'[n] \in Nat
        BY <2>1, <2>3 DEF SoundWith
      <3>5. \A n \in Paths: dir'[n] # 0 => dir'[n] - u \in 1..Len(Staged(m))
        BY <2>2, <3>2, <3>3 DEF k
      <3> QED BY <2>1, <3>1, <3>4, <3>5 DEF k
    <2> QED BY <2>1, <2>3, <2>4, <2>5, <2>6 DEF FilesSound, ChangesGently, u
  <1> QED BY <1>1, <1>2

\* What another process does leaves sound files.
LEMMA EditChanges ==
  ASSUME MaxInode \in Nat, FilesSound, NEW n \in Paths, Edit(n)
  PROVE  FilesSound' /\ ChangesGently
  <1>0. Created \in 0..MaxInode /\ SoundWith(dir, disk, Created)
    BY DEF FilesSound
  <1>1. CASE dir[n] # 0 /\ dir' = [dir EXCEPT ![n] = 0] /\ UNCHANGED disk
    <2>1. Created' = Created
      BY <1>1 DEF Created
    <2>2. SoundWith(dir', disk', Created)
      BY <1>0, <1>1 DEF SoundWith
    <2>3. \A p \in Paths: dir'[p] = 0 \/ dir'[p] = dir[p]
      BY <1>0, <1>1 DEF SoundWith
    <2> QED BY <1>0, <1>1, <2>1, <2>2, <2>3 DEF FilesSound, ChangesGently
  <1>2. ASSUME NEW c \in Contents, dir[n] # 0, disk' = [disk EXCEPT ![dir[n]] = c], UNCHANGED dir
        PROVE  FilesSound' /\ ChangesGently
    <2>1. c # "none" /\ dir[n] \in 1..Created /\ dir[n] \in 1..MaxInode
      BY <1>0, <1>2 DEF SoundWith, Contents, Manifests
    <2>2. SoundWith(dir', disk', Created)
      BY <1>0, <1>2, <2>1 DEF SoundWith
    <2>3. Created' = Created
      BY <1>0, <2>2, CreatedCounts DEF Created
    <2>4. \A i \in 1..Created: disk'[i] = disk[i] \/ (dir[n] = i /\ dir'[n] = i)
      BY <1>0, <1>2 DEF SoundWith
    <2> QED BY <1>0, <1>2, <2>2, <2>3, <2>4 DEF FilesSound, ChangesGently
  <1>3. ASSUME NEW c \in Contents, Created < MaxInode, disk' = [disk EXCEPT ![Created + 1] = c],
               dir' = [dir EXCEPT ![n] = Created + 1]
        PROVE  FilesSound' /\ ChangesGently
    <2> DEFINE u == Created
    <2>0. u \in 0..MaxInode /\ SoundWith(dir, disk, u) /\ u < MaxInode
          /\ disk' = [disk EXCEPT ![u + 1] = c] /\ dir' = [dir EXCEPT ![n] = u + 1]
      BY <1>0, <1>3
    <2> HIDE DEF u
    <2>1. c # "none" /\ u + 1 \in 1..MaxInode
      BY <2>0 DEF Contents, Manifests
    <2>2. SoundWith(dir', disk', u + 1)
      <3>1. disk' \in [1..MaxInode -> Contents \cup {"none"}] /\ dir' \in [Paths -> 0..(u + 1)]
        BY <2>0 DEF SoundWith
      <3>2. \A i \in 1..MaxInode: disk'[i] # "none" <=> i <= u + 1
        BY <2>0, <2>1 DEF SoundWith
      <3>3. \A p, q \in Paths: dir'[p] # 0 /\ dir'[p] = dir'[q] => p = q
        <4>1. \A p \in Paths: dir[p] \in 0..u /\ (p # n => dir'[p] = dir[p]) /\ dir'[n] = u + 1
          BY <2>0 DEF SoundWith
        <4> QED BY <2>0, <4>1 DEF SoundWith
      <3> QED BY <3>1, <3>2, <3>3 DEF SoundWith
    <2>3. Created' = u + 1
      BY <2>1, <2>2, CreatedCounts DEF Created
    <2>4. \A i \in 1..u: disk'[i] = disk[i]
      BY <2>0 DEF SoundWith
    <2>5. \A p \in Paths: dir'[p] = dir[p] \/ dir'[p] > u
      BY <2>0 DEF SoundWith
    <2> QED BY <2>0, <2>1, <2>2, <2>3, <2>4, <2>5 DEF FilesSound, ChangesGently, u
  <1>4. ((IF n = "manifest" THEN {"one", "two"} ELSE {"x", "y"}) \cup {"link"}) \subseteq Contents
    BY DEF Contents, Manifests
  <1> QED BY <1>1, <1>2, <1>3, <1>4 DEF Edit

-----------------------------------------------------------------------------
(* The verification of a Bundle                                            *)

\* What a verified Bundle was, since the listing began.
WasThere ==
  /\ <<"manifest", text>> \in seen
  /\ \A i \in ImplsOf(text): <<i.path, i.digest>> \in seen
  /\ always \subseteq {"manifest"} \cup {i.path: i \in ImplsOf(text)}

\* What was summarized was seen, and a path that was always there is summarized, being read or
\* still to come.
Listed ==
  /\ \A p \in Paths: summary[p] # "none" => <<p, summary[p]>> \in seen
  /\ always \subseteq Paths
  /\ \A p \in always: p \in todo \/ summary[p] # "none" \/ (at # "next" /\ cursor = p)

ReaderTypes ==
  /\ at \in {"idle", "inspect", "open", "read", "next"} /\ phase \in {"manifest", "list", "artifact"}
  /\ cursor \in Paths /\ todo \subseteq Paths /\ summary \in [Paths -> Contents \cup {"none"}]

\* The file that is opened has been at no other path, and what it holds when it is read was at
\* its path; a Bundle that passed the comparison was there.
ReaderInv ==
  /\ ReaderTypes
  /\ at \in {"open", "read"} => inode \in 1..Created /\ \A n \in Paths: dir[n] = inode => n = cursor
  /\ at = "read" /\ phase # "manifest" => <<cursor, disk[inode]>> \in seen
  /\ at # "idle" => verdict # "ok"
  /\ at # "idle" /\ phase = "manifest" => \A p \in Paths: summary[p] = "none"
  /\ at # "idle" /\ phase = "list" => Listed
  /\ at # "idle" /\ phase = "artifact" => WasThere
  /\ verdict = "ok" => WasThere

\* What is watched only grows.
LEMMA WatchingGrows ==
  ASSUME Watched, at' # "idle", phase' # "manifest"
  PROVE  seen \subseteq seen' /\ Entries' \subseteq seen' /\ always' \subseteq always \cap Present'
  BY DEF Watched

\* Nothing is forgotten when the verification is over.
LEMMA WatchingEnds ==
  ASSUME Watched, at' = "idle", WasThere, text' = text
  PROVE  WasThere'
  BY DEF Watched, WasThere

\* What was there stays so, whatever is seen later.
LEMMA StaysThere ==
  ASSUME Watched, WasThere, text' = text, at' = "idle" \/ phase' # "manifest"
  PROVE  WasThere'
  <1>1. seen \subseteq seen' /\ always' \subseteq always
    BY DEF Watched
  <1> QED BY <1>1 DEF WasThere

\* What the others do does not disturb it.
LEMMA ReaderKept ==
  ASSUME MaxInode \in Nat, FilesSound, FilesSound', ChangesGently, UNCHANGED reader, Watched, ReaderInv
  PROVE  ReaderInv'
  <1>1. UNCHANGED <<at, phase, client, cursor, inode, text, todo, summary, verdict>>
    BY DEF reader
  <1>2. ReaderTypes'
    BY <1>1 DEF ReaderInv, ReaderTypes
  <1>3. Created \in 0..MaxInode /\ Created' \in 0..MaxInode
    BY DEF FilesSound
  <1>4. ASSUME at \in {"open", "read"}
        PROVE  /\ inode \in 1..Created' /\ inode \in 1..Created
               /\ \A n \in Paths: dir'[n] = inode => n = cursor
    <2>1. inode \in 1..Created /\ \A n \in Paths: dir[n] = inode => n = cursor
      BY <1>4 DEF ReaderInv
    <2>2. inode \in 1..Created'
      BY <1>3, <2>1 DEF ChangesGently
    <2>3. \A n \in Paths: dir'[n] = inode => dir[n] = inode
      BY <1>3, <2>1 DEF ChangesGently
    <2> QED BY <2>1, <2>2, <2>3
  <1>5. ASSUME at = "read", phase # "manifest"
        PROVE  <<cursor, disk'[inode]>> \in seen'
    <2>1. seen \subseteq seen' /\ Entries' \subseteq seen'
      BY <1>1, <1>5, WatchingGrows
    <2>2. <<cursor, disk[inode]>> \in seen
      BY <1>5 DEF ReaderInv
    <2>3. CASE disk'[inode] = disk[inode]
      BY <2>1, <2>2, <2>3
    <2>4. CASE disk'[inode] # disk[inode]
      <3>1. PICK n \in Paths: dir[n] = inode /\ dir'[n] = inode
        BY <1>4, <1>5, <2>4 DEF ChangesGently
      <3>2. n = cursor /\ inode # 0
        BY <1>3, <1>4, <1>5, <3>1
      <3>3. <<cursor, disk'[dir'[cursor]]>> \in Entries'
        BY <3>1, <3>2 DEF Entries, Present
      <3> QED BY <2>1, <3>1, <3>2, <3>3
    <2> QED BY <2>3, <2>4
  <1>6. ASSUME at # "idle", phase = "list"
        PROVE  Listed'
    <2>1. seen \subseteq seen' /\ always' \subseteq always
      BY <1>1, <1>6, WatchingGrows
    <2> QED BY <1>1, <1>6, <2>1 DEF ReaderInv, Listed
  <1>7. ASSUME (at # "idle" /\ phase = "artifact") \/ verdict = "ok"
        PROVE  WasThere'
    <2>1. WasThere /\ (at' = "idle" \/ phase' # "manifest")
      BY <1>1, <1>7 DEF ReaderInv
    <2> QED BY <1>1, <2>1, StaysThere
  <1> QED BY <1>1, <1>2, <1>4, <1>5, <1>6, <1>7 DEF ReaderInv

\* A failed verification promises nothing.
LEMMA FailureIsKept ==
  ASSUME ReaderInv, Ends("failed")
  PROVE  ReaderInv'
  <1>1. at' = "idle" /\ verdict' = "failed" /\ UNCHANGED <<phase, cursor, inode, text, todo, summary>>
    BY DEF Ends
  <1> QED BY <1>1 DEF ReaderInv, ReaderTypes

\* A verification begins with nothing read.
LEMMA VerificationBegins ==
  ASSUME ReaderInv, NEW c, Verify(c)
  PROVE  ReaderInv'
  <1>1. /\ at' = "inspect" /\ phase' = "manifest" /\ cursor' = "manifest" /\ todo' = {}
        /\ summary' = [n \in Paths |-> "none"] /\ verdict' = "none"
    BY DEF Verify
  <1>2. ReaderTypes'
    BY <1>1 DEF ReaderTypes, Paths
  <1>3. \A p \in Paths: summary'[p] = "none"
    BY <1>1
  <1> QED BY <1>1, <1>2, <1>3 DEF ReaderInv

\* A file is looked at and opened: what is opened is at its path, and nowhere else.
LEMMA FileIsOpened ==
  ASSUME MaxInode \in Nat, FilesSound, ReaderInv, Watched, Inspect \/ Open
  PROVE  ReaderInv'
  <1>1. UNCHANGED <<dir, disk>> /\ Created' = Created
    BY DEF Inspect, Open, files, Created
  <1>2. CASE Ends("failed")
    BY <1>2, FailureIsKept
  <1>3. CASE ~Ends("failed")
    <2>1. UNCHANGED <<phase, cursor, text, todo, summary, verdict>> /\ at # "idle" /\ at # "next"
          /\ at' \in {"open", "read"}
      BY <1>3 DEF Inspect, Open
    <2>2. /\ dir[cursor] = inode' /\ inode' \in 1..Created
          /\ at' = "read" => dir[cursor] = inode'
      <3>1. CASE Inspect
        <4>1. cursor \in Present /\ inode' = dir[cursor]
          BY <1>3, <3>1 DEF Inspect
        <4>2. dir[cursor] \in 0..Created /\ dir[cursor] # 0
          BY <4>1 DEF Present, FilesSound, SoundWith
        <4>3. Created \in Nat
          BY DEF FilesSound
        <4> QED BY <4>1, <4>2, <4>3
      <3>2. CASE Open
        BY <1>3, <3>2 DEF Open, ReaderInv
      <3> QED BY <3>1, <3>2
    <2>3. inode' # 0 /\ \A n \in Paths: dir[n] = inode' => n = cursor
      <3>1. inode' # 0
        BY <2>2 DEF FilesSound
      <3>2. cursor \in Paths
        BY DEF ReaderInv, ReaderTypes
      <3> QED BY <2>2, <3>1, <3>2 DEF FilesSound, SoundWith
    <2>4. <<cursor, disk[inode']>> \in Entries'
      <3>1. cursor \in Paths
        BY DEF ReaderInv, ReaderTypes
      <3> QED BY <1>1, <2>2, <2>3, <3>1 DEF Entries, Present
    <2>5. phase # "manifest" => seen \subseteq seen' /\ Entries' \subseteq seen' /\ always' \subseteq always
      BY <2>1, WatchingGrows
    <2>6. phase = "list" => Listed'
      BY <2>1, <2>5 DEF ReaderInv, Listed
    <2>7. phase = "artifact" => WasThere'
      BY <2>1, StaysThere DEF ReaderInv
    <2>8. ReaderTypes'
      BY <2>1 DEF ReaderInv, ReaderTypes
    <2> QED BY <1>1, <2>1, <2>2, <2>3, <2>4, <2>5, <2>6, <2>7, <2>8 DEF ReaderInv
  <1> QED BY <1>2, <1>3

\* An exact closure of what was listed was there.
LEMMA ClosureWasThere ==
  ASSUME ReaderInv, at = "next", phase = "list", todo = {}, ManifestKept, ValidManifest(text), ExactClosure
  PROVE  WasThere
  <1>1. text \in DOMAIN Manifests /\ Listed /\ ReaderTypes
    BY DEF ReaderInv, ValidManifest
  <1>2. <<"manifest", text>> \in seen
    BY <1>1 DEF Listed, ManifestKept, Manifests, Paths
  <1>3. ASSUME NEW p \in Paths \ {"manifest"}
        PROVE  {summary[p]} \ {"none"} = {i.digest: i \in {j \in ImplsOf(text): j.path = p}}
    BY DEF ExactClosure
  <1>4. ASSUME NEW i \in ImplsOf(text)
        PROVE  <<i.path, i.digest>> \in seen
    <2>1. i.path \in Paths \ {"manifest"}
      BY <1>1, StagedFiles DEF ImplsOf, Paths
    <2>2. i.digest \in {summary[i.path]} \ {"none"}
      BY <1>3, <2>1
    <2> QED BY <1>1, <2>1, <2>2 DEF Listed
  <1>5. ASSUME NEW p \in always, p # "manifest"
        PROVE  \E i \in ImplsOf(text): i.path = p
    <2>1. p \in Paths \ {"manifest"} /\ summary[p] # "none"
      BY <1>1, <1>5 DEF Listed
    <2> QED BY <1>3, <2>1
  <1> QED BY <1>2, <1>4, <1>5 DEF WasThere

\* The Manifest is read, and the directory listed.
LEMMA ManifestIsRead ==
  ASSUME ReaderInv, Watched, ReadManifest
  PROVE  ReaderInv'
  <1>1. /\ phase = "manifest" /\ at = "read" /\ phase' = "list" /\ at' = "next" /\ todo' = Present
        /\ UNCHANGED <<dir, disk, cursor, summary, verdict>>
    BY DEF ReadManifest, files
  <1>2. always' \subseteq Present'
    BY <1>1, WatchingGrows
  <1>3. Present' = Present /\ Present \subseteq Paths
    BY <1>1 DEF Present
  <1>4. \A p \in Paths: summary'[p] = "none"
    BY <1>1 DEF ReaderInv
  <1>5. Listed'
    BY <1>1, <1>2, <1>3, <1>4 DEF Listed
  <1> QED BY <1>1, <1>3, <1>5 DEF ReaderInv, ReaderTypes

\* The next file of the listing, or of the Artifacts, is taken.
LEMMA NextIsTaken ==
  ASSUME ReaderInv, Watched, NEW n \in Paths, ListNext(n) \/ ReadNext(n)
  PROVE  ReaderInv'
  <1>1. /\ at = "next" /\ at' = "inspect" /\ cursor' = n /\ todo' = todo \ {n}
        /\ UNCHANGED <<phase, text, summary, verdict>> /\ phase \in {"list", "artifact"}
    BY DEF ListNext, ReadNext
  <1>2. seen \subseteq seen' /\ always' \subseteq always
    BY <1>1, WatchingGrows
  <1>3. phase = "list" => Listed'
    BY <1>1, <1>2 DEF ReaderInv, Listed
  <1>4. phase = "artifact" => WasThere'
    BY <1>1, StaysThere DEF ReaderInv
  <1>5. ReaderTypes'
    BY <1>1 DEF ReaderInv, ReaderTypes
  <1> QED BY <1>1, <1>3, <1>4, <1>5 DEF ReaderInv

\* A file of the listing is summarized.
LEMMA FileIsSummarized ==
  ASSUME MaxInode \in Nat, FilesSound, ReaderInv, Watched, Summarize
  PROVE  ReaderInv'
  <1>1. CASE Ends("failed")
    BY <1>1, FailureIsKept
  <1>2. CASE ~Ends("failed")
    <2>1. /\ at = "read" /\ phase = "list" /\ at' = "next" /\ summary' = [summary EXCEPT ![cursor] = disk[inode]]
          /\ UNCHANGED <<phase, cursor, text, todo, verdict>>
      BY <1>2 DEF Summarize
    <2>2. <<cursor, disk[inode]>> \in seen /\ inode \in 1..Created /\ Listed /\ ReaderTypes
      BY <2>1 DEF ReaderInv
    <2>3. disk[inode] \in Contents \cup {"none"} /\ disk[inode] # "none"
      <3>1. inode \in 1..MaxInode /\ inode <= Created
        BY <2>2 DEF FilesSound
      <3>2. disk \in [1..MaxInode -> Contents \cup {"none"}] /\ (disk[inode] # "none" <=> inode <= Created)
        BY <3>1 DEF FilesSound, SoundWith
      <3> QED BY <3>1, <3>2
    <2>4. seen \subseteq seen' /\ always' \subseteq always
      BY <2>1, WatchingGrows
    <2>5. ReaderTypes'
      BY <2>1, <2>2, <2>3 DEF ReaderTypes
    <2>6. Listed'
      <3>1. \A p \in Paths: summary'[p] = IF p = cursor THEN disk[inode] ELSE summary[p]
        BY <2>1, <2>2 DEF ReaderTypes
      <3> QED BY <2>1, <2>2, <2>3, <2>4, <3>1 DEF Listed, ReaderTypes
    <2> QED BY <2>1, <2>5, <2>6 DEF ReaderInv
  <1> QED BY <1>1, <1>2

\* The comparison is passed by what was there.
LEMMA ComparisonIsPassed ==
  ASSUME ReaderInv, Watched, Compare
  PROVE  ReaderInv'
  <1>1. CASE Ends("failed")
    BY <1>1, FailureIsKept
  <1>2. CASE ~Ends("failed")
    <2>1. /\ at = "next" /\ phase = "list" /\ todo = {} /\ ManifestKept /\ ValidManifest(text) /\ ExactClosure
          /\ phase' = "artifact" /\ todo' = {i.path: i \in WasmOf(text)}
          /\ UNCHANGED <<at, cursor, text, summary, verdict>>
      BY <1>2 DEF Compare
    <2>2. WasThere'
      BY <2>1, ClosureWasThere, StaysThere
    <2>3. todo' \subseteq Paths
      <3>1. \A i \in ImplsOf(text): i.path \in Paths
        BY <2>1, StagedFiles DEF ValidManifest, ImplsOf, Paths
      <3> QED BY <2>1, <3>1 DEF WasmOf
    <2>4. ReaderTypes'
      BY <2>1, <2>3 DEF ReaderInv, ReaderTypes
    <2> QED BY <2>1, <2>2, <2>4 DEF ReaderInv
  <1> QED BY <1>1, <1>2

\* The Artifacts are read, and the Bundle is verified.
LEMMA ArtifactsAreRead ==
  ASSUME ReaderInv, Watched, ReadArtifact \/ Verified
  PROVE  ReaderInv'
  <1>1. CASE Ends("failed")
    BY <1>1, FailureIsKept
  <1>2. CASE ~Ends("failed")
    <2>1. /\ at # "idle" /\ phase = "artifact" /\ UNCHANGED <<phase, cursor, text, todo, summary>>
          /\ (at' = "next" /\ UNCHANGED verdict) \/ (at' = "idle" /\ verdict' = "ok")
      BY <1>2 DEF ReadArtifact, Verified, Ends
    <2>2. WasThere'
      BY <2>1, StaysThere DEF ReaderInv
    <2>3. ReaderTypes'
      BY <2>1 DEF ReaderInv, ReaderTypes
    <2> QED BY <2>1, <2>2, <2>3 DEF ReaderInv
  <1> QED BY <1>1, <1>2

\* What a builder or another process does.
OthersStep ==
  \/ \E b \in Builders: BeginBuild(b) \/ WriteStaged(b) \/ BuildFails(b) \/ BuilderDies(b) \/ Publish(b)
  \/ \E n \in Paths: Edit(n)

\* What a step of the others does to the files.
LEMMA OthersChange ==
  ASSUME MaxInode \in Nat, FilesSound, BuildersSound, OthersStep
  PROVE  FilesSound' /\ ChangesGently /\ UNCHANGED reader
  <1>1. ASSUME NEW b \in Builders, BeginBuild(b) \/ WriteStaged(b) \/ BuildFails(b) \/ BuilderDies(b)
        PROVE  FilesSound' /\ ChangesGently /\ UNCHANGED reader
    <2>1. UNCHANGED <<dir, disk>> /\ UNCHANGED reader
      BY <1>1 DEF BeginBuild, WriteStaged, BuildFails, BuilderDies, files
    <2> QED BY <2>1, FilesStay
  <1>2. ASSUME NEW b \in Builders, Publish(b)
        PROVE  FilesSound' /\ ChangesGently /\ UNCHANGED reader
    <2>1. UNCHANGED reader
      BY <1>2 DEF Publish
    <2> QED BY <1>2, <2>1, PublishChanges
  <1>3. ASSUME NEW n \in Paths, Edit(n)
        PROVE  FilesSound' /\ ChangesGently /\ UNCHANGED reader
    <2>1. UNCHANGED reader
      BY <1>3 DEF Edit
    <2> QED BY <1>3, <2>1, EditChanges
  <1> QED BY <1>1, <1>2, <1>3 DEF OthersStep

\* A step of the verification.
ReaderStep ==
  \/ \E n \in Paths: ListNext(n) \/ ReadNext(n)
  \/ \E c \in Builders \cup {"host"}: Verify(c)
  \/ Inspect \/ Open \/ ReadManifest \/ Summarize \/ Compare \/ ReadArtifact \/ Verified

\* It leaves the files alone, and its own promises hold.
LEMMA ReaderSteps ==
  ASSUME MaxInode \in Nat, FilesSound, ReaderInv, ReaderStep, Watched
  PROVE  FilesSound' /\ ReaderInv' /\ UNCHANGED <<exists, dir, disk, written, edits>>
  <1>1. UNCHANGED <<exists, dir, disk, written, edits>>
    BY DEF ReaderStep, ListNext, ReadNext, Verify, Inspect, Open, ReadManifest, Summarize, Compare,
           ReadArtifact, Verified, files, builds
  <1>2. FilesSound'
    BY <1>1, FilesStay
  <1>3. ReaderInv'
    BY VerificationBegins, FileIsOpened, ManifestIsRead, NextIsTaken, FileIsSummarized, ComparisonIsPassed,
       ArtifactsAreRead DEF ReaderStep
  <1> QED BY <1>1, <1>2, <1>3

\* The builders go from step to step.
LEMMA BuildersStep ==
  ASSUME BuildersSound, BundleNext
  PROVE  BuildersSound'
  <1> DEFINE Stages == {"new", "staging", "published", "dead", "refused", "failed", "ok"}
  <1>1. ASSUME NEW b \in Builders, NEW s \in Stages, builder' = [builder EXCEPT ![b] = s], UNCHANGED written,
               s = "staging" => ValidManifest(Builds[b])
        PROVE  BuildersSound'
    BY <1>1 DEF BuildersSound
  <1>2. UNCHANGED <<builder, written>> => BuildersSound'
    BY DEF BuildersSound
  <1>3. ASSUME NEW v \in {"failed", "ok"}, Ends(v), UNCHANGED written
        PROVE  BuildersSound'
    BY <1>1, <1>2, <1>3 DEF Ends
  <1>4. ASSUME NEW b \in Builders,
               BeginBuild(b) \/ WriteStaged(b) \/ BuildFails(b) \/ BuilderDies(b) \/ Publish(b)
        PROVE  BuildersSound'
    <2>1. CASE WriteStaged(b)
      BY <2>1 DEF WriteStaged, BuildersSound
    <2>2. CASE BeginBuild(b)
      BY <1>1, <2>2 DEF BeginBuild, Moves
    <2>3. CASE BuildFails(b) \/ BuilderDies(b) \/ Publish(b)
      BY <1>1, <2>3 DEF BuildFails, BuilderDies, Publish, Moves
    <2> QED BY <1>4, <2>1, <2>2, <2>3
  <1>5. ASSUME (\E n \in Paths: Edit(n) \/ ListNext(n) \/ ReadNext(n))
                 \/ (\E c \in Builders \cup {"host"}: Verify(c)) \/ ReadManifest
        PROVE  BuildersSound'
    BY <1>2, <1>5 DEF Edit, ListNext, ReadNext, Verify, ReadManifest, builds
  <1>6. ASSUME Inspect \/ Open \/ Summarize \/ Compare \/ ReadArtifact \/ Verified
        PROVE  BuildersSound'
    BY <1>2, <1>3, <1>6 DEF Inspect, Open, Summarize, Compare, ReadArtifact, Verified
  <1> QED BY <1>4, <1>5, <1>6 DEF BundleNext

\* The whole invariant of a Bundle.
BundleInv == FilesSound /\ BuildersSound /\ ReaderInv

\* It holds at the start, and every step keeps it.
LEMMA BundleInvHolds ==
  ASSUME BundleFits
  PROVE  BundleSpec => []BundleInv
  <1>1. BundleInit => BundleInv
    <2> SUFFICES ASSUME BundleInit PROVE BundleInv
      OBVIOUS
    <2>1. ReaderInv
      BY DEF BundleInit, ReaderInv, ReaderTypes, Paths
    <2> QED BY <2>1, FilesStart DEF BundleInv
  <1>2. BundleInv /\ [BundleNext]_bundle => BundleInv'
    <2>1. ASSUME BundleInv, BundleNext
          PROVE  BundleInv'
      <3>1. MaxInode \in Nat /\ Watched /\ FilesSound /\ BuildersSound /\ ReaderInv /\ BuildersSound'
        BY <2>1, BuildersStep DEF BundleInv, BundleNext, BundleFits
      <3>2. CASE OthersStep
        BY <3>1, <3>2, OthersChange, ReaderKept DEF BundleInv
      <3>3. CASE ReaderStep
        BY <3>1, <3>3, ReaderSteps DEF BundleInv
      <3> QED BY <2>1, <3>2, <3>3 DEF BundleNext, OthersStep, ReaderStep
    <2>2. ASSUME BundleInv, UNCHANGED bundle
          PROVE  BundleInv'
      <3>1. /\ UNCHANGED <<dir, disk, builder, written, seen, always>>
            /\ UNCHANGED <<at, phase, cursor, inode, text, todo, summary, verdict>>
        BY <2>2 DEF bundle, files, builds, reader
      <3>2. FilesSound' /\ Created' = Created
        BY <2>2, <3>1, FilesStay DEF BundleInv
      <3>3. BuildersSound'
        BY <2>2, <3>1 DEF BundleInv, BuildersSound
      <3>4. (WasThere <=> WasThere') /\ (Listed <=> Listed') /\ (ReaderTypes <=> ReaderTypes')
        BY <3>1 DEF WasThere, Listed, ReaderTypes
      <3>5. ReaderInv'
        BY <2>2, <3>1, <3>2, <3>4 DEF BundleInv, ReaderInv
      <3> QED BY <3>2, <3>3, <3>5 DEF BundleInv
    <2> QED BY <2>1, <2>2
  <1> QED BY <1>1, <1>2, PTL DEF BundleSpec

\* A verified Bundle was there, whoever changed it meanwhile and however often, for any number of
\* builders, files and verifications.
THEOREM VerifiedBundlesWereThere ==
  ASSUME BundleFits
  PROVE  BundleSpec => []VerifiedWasThere
  <1>1. BundleInv => VerifiedWasThere
    BY DEF BundleInv, ReaderInv, WasThere, VerifiedWasThere
  <1> QED BY <1>1, BundleInvHolds, PTL

-----------------------------------------------------------------------------
(* What builders leave                                                     *)

\* What is staged for a valid Manifest is at a path of its own.
LEMMA StagedOnce ==
  ASSUME NEW m, ValidManifest(m)
  PROVE  \A i, j \in DOMAIN Staged(m): Staged(m)[i][1] = Staged(m)[j][1] => i = j
  <1> DEFINE I == Manifests[m].impls
             k == Len(Staged(m))
  <1>1. m \in DOMAIN Manifests /\ \A i, j \in DOMAIN I: i # j => I[i].path # I[j].path
    BY DEF ValidManifest
  <1>2. /\ DOMAIN Staged(m) = 1..k /\ DOMAIN I = 1..(k - 1) /\ k \in Nat \ {0}
        /\ \A i \in DOMAIN I: Staged(m)[i] = <<I[i].path, I[i].digest>> /\ I[i].path \in {"a", "b"}
        /\ Staged(m)[k] = <<"manifest", m>>
    BY <1>1, StagedFiles
  <1> HIDE DEF I, k
  <1>3. \A i \in DOMAIN I: Staged(m)[i][1] = I[i].path /\ I[i].path # "manifest"
    BY <1>2
  <1>4. Staged(m)[k][1] = "manifest"
    BY <1>2
  <1>5. \A i \in 1..k: i \in DOMAIN I \/ i = k
    BY <1>2
  <1> QED BY <1>1, <1>2, <1>3, <1>4, <1>5

\* A whole Bundle of a valid Manifest has every file of it, and no other.
LEMMA BundleIsWhole ==
  ASSUME MaxInode \in Nat, NEW m, ValidManifest(m), NEW u \in Nat, u + Len(Staged(m)) <= MaxInode,
         NEW D, NEW E, SoundWith(D, E, u)
  PROVE  LET N == DirOf(m, Len(Staged(m)), u)
             F == DiskOf(m, Len(Staged(m)), u, E)
         IN  /\ N["manifest"] # 0
             /\ {<<n, F[N[n]]>>: n \in {p \in Paths: N[p] # 0}} = Holds(m)
  <1> DEFINE k == Len(Staged(m))
             N == DirOf(m, k, u)
             F == DiskOf(m, k, u, E)
  <1>1. m \in DOMAIN Manifests
    BY DEF ValidManifest
  <1>2. /\ DOMAIN Staged(m) = 1..k /\ k \in Nat \ {0} /\ Staged(m)[k] = <<"manifest", m>>
        /\ Staged(m) \in Seq(Paths \X Contents)
    BY <1>1, StagedFiles
  <1>3. \A n \in Paths: N[n] # 0 => N[n] - u \in 1..k /\ Staged(m)[N[n] - u][1] = n
    BY <1>1, <1>2, DirOfBundle
  <1>4. \A n \in Paths: N[n] \in Nat
    <2>1. N \in [Paths -> 0..(u + k)]
      BY <1>1, DirOfBundle
    <2> HIDE DEF N, k
    <2> QED BY <1>2, <2>1
  <1>5. ASSUME NEW i \in 1..k
        PROVE  /\ Staged(m)[i][1] \in Paths /\ N[Staged(m)[i][1]] = u + i
               /\ Staged(m)[i] = <<Staged(m)[i][1], Staged(m)[i][2]>>
    <2>1. Staged(m)[i] \in Paths \X Contents
      BY <1>2
    <2>2. Staged(m)[i][1] \in Paths /\ Staged(m)[i] = <<Staged(m)[i][1], Staged(m)[i][2]>>
      BY <2>1
    <2>3. i \in Places(m, Staged(m)[i][1])
      <3>1. \A j \in DOMAIN Staged(m): j > i => Staged(m)[j][1] # Staged(m)[i][1]
        BY <1>2, StagedOnce
      <3> QED BY <1>2, <3>1 DEF Places
    <2>4. N[Staged(m)[i][1]] # 0
      BY <1>1, <2>2, <2>3, DirOfBundle
    <2>5. N[Staged(m)[i][1]] - u = i
      <3>1. \A a, b \in 1..k: Staged(m)[a][1] = Staged(m)[b][1] => a = b
        BY <1>2, StagedOnce
      <3> HIDE DEF N, k
      <3> QED BY <1>3, <2>2, <2>4, <3>1
    <2>6. N[Staged(m)[i][1]] \in Nat
      BY <1>4, <2>2
    <2> HIDE DEF N, k
    <2> QED BY <2>2, <2>5, <2>6
  <1>6. \A i \in 1..k: F[u + i] = Staged(m)[i][2]
    BY <1>1, BundleIsSound
  <1> HIDE DEF N, F, k
  <1>7. N["manifest"] # 0
    <2>1. k \in 1..k /\ Staged(m)[k][1] = "manifest"
      BY <1>2
    <2>2. N["manifest"] = u + k
      BY <1>5, <2>1
    <2> QED BY <1>2, <2>2
  <1>8. ASSUME NEW n \in Paths, N[n] # 0
        PROVE  <<n, F[N[n]]>> \in Holds(m)
    <2> DEFINE i == N[n] - u
    <2>1. i \in 1..k /\ Staged(m)[i][1] = n /\ N[n] = u + i
      BY <1>3, <1>4, <1>8
    <2> HIDE DEF i
    <2>2. <<n, F[N[n]]>> = Staged(m)[i]
      BY <1>5, <1>6, <2>1
    <2> QED BY <1>2, <2>1, <2>2 DEF Holds
  <1>9. ASSUME NEW x \in Holds(m)
        PROVE  \E n \in {p \in Paths: N[p] # 0}: x = <<n, F[N[n]]>>
    <2>1. PICK i \in 1..k: x = Staged(m)[i]
      BY <1>2 DEF Holds
    <2>2. Staged(m)[i][1] \in Paths /\ N[Staged(m)[i][1]] = u + i /\ u + i # 0
      BY <1>2, <1>5
    <2>3. x = <<Staged(m)[i][1], F[u + i]>>
      BY <1>5, <1>6, <2>1
    <2> QED BY <2>2, <2>3
  <1>10. {<<n, F[N[n]]>>: n \in {p \in Paths: N[p] # 0}} = Holds(m)
    BY <1>8, <1>9
  <1> QED BY <1>7, <1>10 DEF N, F, k

\* Who verifies is a builder that published, or the Host; and without other processes the
\* directory is nothing, or what every builder that published it holds.
OutputInv ==
  /\ edits \in Nat
  /\ at # "idle" /\ client \in Builders => builder[client] = "published"
  /\ edits = 0 /\ Found = "none" =>
       /\ exists => Present # {} /\ \E b \in Builders: Entries = Holds(Builds[b])
       /\ \A b \in Builders: builder[b] \in {"published", "ok"} => exists /\ Entries = Holds(Builds[b])

\* Who did not publish before has not by a step that leaves the files.
LEMMA OutputKept ==
  ASSUME OutputInv, UNCHANGED <<exists, dir, disk, edits>>,
         at' # "idle" /\ client' \in Builders => builder'[client'] = "published",
         \A b \in Builders: builder'[b] \in {"published", "ok"} => builder[b] \in {"published", "ok"}
  PROVE  OutputInv'
  <1>1. Present' = Present /\ Entries' = Entries /\ edits' = edits /\ (exists' <=> exists)
    BY DEF Present, Entries
  <1> QED BY <1>1 DEF OutputInv

\* The first to publish leaves its whole Bundle; the others are refused.
LEMMA PublishedWhole ==
  ASSUME MaxInode \in Nat, BundleInv, OutputInv, NEW b \in Builders, Publish(b)
  PROVE  OutputInv'
  <1>1. /\ UNCHANGED <<edits, at, client>> /\ builder[b] = "staging" /\ written[b] = Len(Staged(Builds[b]))
        /\ builder' \in {[builder EXCEPT ![b] = "refused"], [builder EXCEPT ![b] = "published"]}
    BY DEF Publish, Complete, Moves, reader
  <1>2. builder \in [Builders -> {"new", "staging", "published", "dead", "refused", "failed", "ok"}]
    BY DEF BundleInv, BuildersSound
  <1>3. at' # "idle" /\ client' \in Builders => builder'[client'] = "published"
    BY <1>1, <1>2 DEF OutputInv
  <1>4. CASE exists /\ Present # {}
    <2>1. UNCHANGED <<exists, dir, disk>> /\ builder' = [builder EXCEPT ![b] = "refused"]
      BY <1>4 DEF Publish, Moves, files
    <2>2. \A c \in Builders: builder'[c] \in {"published", "ok"} => builder[c] \in {"published", "ok"}
      BY <1>2, <2>1
    <2> QED BY <1>1, <1>3, <2>1, <2>2, OutputKept
  <1>5. CASE ~(exists /\ Present # {})
    <2> DEFINE m == Builds[b]
               k == Len(Staged(m))
               u == Created
    <2>1. /\ exists' = TRUE /\ builder' = [builder EXCEPT ![b] = "published"]
          /\ dir' = DirOf(m, k, u) /\ disk' = DiskOf(m, k, u, disk) /\ u + k <= MaxInode
      BY <1>1, <1>5 DEF Publish, Moves
    <2>2. ValidManifest(m) /\ u \in Nat /\ SoundWith(dir, disk, u)
      BY <1>1 DEF BundleInv, BuildersSound, FilesSound
    <2> HIDE DEF m, u
    <2>3. /\ dir'["manifest"] # 0
          /\ {<<n, disk'[dir'[n]]>>: n \in {p \in Paths: dir'[p] # 0}} = Holds(m)
      BY <2>1, <2>2, BundleIsWhole
    <2>4. Present' # {} /\ Entries' = Holds(m)
      BY <2>3 DEF Present, Entries, Paths
    <2>5. edits = 0 /\ Found = "none" => \A c \in Builders: builder[c] \notin {"published", "ok"}
      BY <1>5 DEF OutputInv
    <2>6. \A c \in Builders: c # b => builder'[c] = builder[c]
      BY <1>2, <2>1
    <2>7. exists'
      BY <2>1
    <2>8. edits' = 0 /\ Found = "none" =>
            \A c \in Builders: builder'[c] \in {"published", "ok"} => Entries' = Holds(Builds[c])
      BY <1>1, <2>4, <2>5, <2>6 DEF m
    <2>9. \E c \in Builders: Entries' = Holds(Builds[c])
      BY <2>4 DEF m
    <2> QED BY <1>1, <1>3, <2>4, <2>7, <2>8, <2>9 DEF OutputInv
  <1> QED BY <1>4, <1>5

\* Every step keeps it.
LEMMA OutputStep ==
  ASSUME MaxInode \in Nat, HostIsNoBuilder, BundleInv, OutputInv, BundleNext
  PROVE  OutputInv'
  <1>0. builder \in [Builders -> {"new", "staging", "published", "dead", "refused", "failed", "ok"}]
    BY DEF BundleInv, BuildersSound
  <1>1. ASSUME NEW b \in Builders, BeginBuild(b) \/ WriteStaged(b) \/ BuildFails(b) \/ BuilderDies(b)
        PROVE  OutputInv'
    <2>1. UNCHANGED <<exists, dir, disk, edits, at, client>>
      BY <1>1 DEF BeginBuild, WriteStaged, BuildFails, BuilderDies, files, reader
    <2>2. /\ builder' = builder
             \/ \E s \in {"staging", "refused", "dead"}: builder' = [builder EXCEPT ![b] = s]
          /\ builder' # builder => builder[b] # "published" \/ client # b
      BY <1>1 DEF BeginBuild, WriteStaged, BuildFails, BuilderDies, Moves
    <2>3. \A c \in Builders: builder'[c] \in {"published", "ok"} => builder[c] \in {"published", "ok"}
      BY <1>0, <2>2
    <2>4. at' # "idle" /\ client' \in Builders => builder'[client'] = "published"
      BY <1>0, <2>1, <2>2 DEF OutputInv
    <2> QED BY <2>1, <2>3, <2>4, OutputKept
  <1>2. ASSUME NEW b \in Builders, Publish(b)
        PROVE  OutputInv'
    BY <1>2, PublishedWhole
  <1>3. ASSUME NEW n \in Paths, Edit(n)
        PROVE  OutputInv'
    <2>1. edits' = edits + 1 /\ UNCHANGED <<builder, at, client>>
      BY <1>3 DEF Edit, builds, reader
    <2> QED BY <2>1 DEF OutputInv
  <1>4. ASSUME NEW c \in Builders \cup {"host"}, Verify(c)
        PROVE  OutputInv'
    <2>1. /\ UNCHANGED <<exists, dir, disk, edits, builder>> /\ client' = c
          /\ (c \in Builders /\ builder[c] = "published") \/ c = "host"
      BY <1>4 DEF Verify, files, builds
    <2> QED BY <2>1, OutputKept DEF HostIsNoBuilder
  <1>5. ASSUME ReaderStep, ~\E c \in Builders \cup {"host"}: Verify(c)
        PROVE  OutputInv'
    <2>1. UNCHANGED <<exists, dir, disk, edits>> /\ at # "idle"
      BY <1>5 DEF ReaderStep, ListNext, ReadNext, Inspect, Open, ReadManifest, Summarize, Compare,
           ReadArtifact, Verified, files
    <2>2. CASE UNCHANGED <<builder, client>>
      BY <2>1, <2>2, OutputKept DEF OutputInv
    <2>3. CASE \E v \in {"failed", "ok"}: Ends(v)
      <3>1. /\ at' = "idle"
            /\ client \notin Builders => builder' = builder
            /\ client \in Builders => \E v \in {"failed", "ok"}: builder' = [builder EXCEPT ![client] = v]
        <4>1. PICK v \in {"failed", "ok"}: Ends(v)
          BY <2>3
        <4>2. at' = "idle" /\ (client \in Builders => builder' = [builder EXCEPT ![client] = v])
              /\ (client \notin Builders => builder' = builder)
          BY <4>1, Zenon DEF Ends
        <4> QED BY <4>1, <4>2
      <3>2. \A b \in Builders: builder'[b] \in {"published", "ok"} => builder[b] \in {"published", "ok"}
        BY <1>0, <2>1, <3>1 DEF OutputInv
      <3> QED BY <2>1, <3>1, <3>2, OutputKept
    <2> QED BY <1>5, <2>2, <2>3 DEF ReaderStep, ListNext, ReadNext, Inspect, Open, ReadManifest, Summarize,
           Compare, ReadArtifact, Verified, builds
  <1> QED BY <1>1, <1>2, <1>3, <1>4, <1>5 DEF BundleNext, ReaderStep

\* Builders that race for one output leave nothing or a whole Bundle of one of them, and one that
\* answers with a verified Bundle published it, for any number of builders that fail and die.
THEOREM OutputsAreWhole ==
  ASSUME BundleFits, HostIsNoBuilder
  PROVE  BundleSpec => []OutputWhole
  <1>1. BundleInit => OutputInv
    <2> SUFFICES ASSUME BundleInit PROVE OutputInv
      OBVIOUS
    <2>1. edits = 0 /\ at = "idle" /\ \A b \in Builders: builder[b] = "new"
      BY DEF BundleInit
    <2>2. Found = "none" => ~exists
      BY Zenon DEF BundleInit
    <2> QED BY <2>1, <2>2 DEF OutputInv
  <1>2. BundleInv /\ OutputInv /\ [BundleNext]_bundle => OutputInv'
    <2>1. BundleInv /\ OutputInv /\ BundleNext => OutputInv'
      BY OutputStep DEF BundleFits
    <2>2. OutputInv /\ UNCHANGED bundle => OutputInv'
      <3> SUFFICES ASSUME OutputInv, UNCHANGED bundle PROVE OutputInv'
        OBVIOUS
      <3>1. UNCHANGED <<exists, dir, disk, edits>> /\ UNCHANGED <<at, client, builder>>
        BY DEF bundle, files, builds, reader
      <3>2. at' # "idle" /\ client' \in Builders => builder'[client'] = "published"
        BY <3>1 DEF OutputInv
      <3>3. \A b \in Builders: builder'[b] \in {"published", "ok"} => builder[b] \in {"published", "ok"}
        BY <3>1
      <3> QED BY <3>1, <3>2, <3>3, OutputKept
    <2> QED BY <2>1, <2>2
  <1>3. OutputInv => OutputWhole
    BY DEF OutputInv, OutputWhole
  <1> QED BY <1>1, <1>2, <1>3, BundleInvHolds, PTL DEF BundleSpec

-----------------------------------------------------------------------------
(* The preparation of a Plan                                               *)

ClassOf(i) == plan.instance[i].class

PreparationTypes ==
  /\ plan \in Plans /\ build \in Products
  /\ thread \in [Instances -> {"none", "loading", "ready"}]
  /\ copy \in [Instances -> {"admitted", "changed"}]
  /\ ran \in [Instances -> {"none", "admitted", "changed"}]
  /\ declared \in [Instances -> {"none", "as_planned", "otherwise", "dead"}]

\* One Instance at most is loading, and it is one of those that are prepared.
Loading ==
  /\ step \in {"instances", "recreate", "bind"} => class \in Guests /\ waiting \subseteq Of(class)
  /\ \A i \in Instances: thread[i] = "loading" => i \in waiting /\ step \in {"instances", "recreate"}
  /\ \A i, j \in Instances: thread[i] = "loading" /\ thread[j] = "loading" => i = j

\* Instance i speaks by the only codec registered for it.
OneCodec(i) ==
  \A k \in DOMAIN Provides(i): Cardinality(Registered(ClassOf(i), Provides(i)[k])) = 1

\* What a thread runs was admitted, and what is ready declared what the Plan says.
Admitted ==
  \A i \in Instances:
    /\ thread[i] # "none" /\ ClassOf(i) # "dylib" => ran[i] = "admitted" /\ OneCodec(i)
    /\ thread[i] = "ready" => declared[i] = "as_planned"

BindingKinds == {"request", "stream"}

\* The bindings of the adapters that have finished are there, with every kind they are served by;
\* and each is served by one.
Bound ==
  /\ step \notin {"catalog", "failed"} =>
       /\ bound = {x \in plan.bindings \X BindingKinds:
                     ClassOf(x[1].provider) \in finished \cap Guests /\ x[2] \in BoundKinds(x[1])}
       /\ \A b \in plan.bindings: ClassOf(b.provider) \in finished \cap Guests => BoundKinds(b) # {}
  /\ step = "catalog" => finished = {} /\ bound = {}
  /\ step \in {"prepared", "recreate"} => Selected \subseteq finished

PreparationInv == PreparationTypes /\ Loading /\ Admitted /\ Bound

\* The steps leave the Plan and the product alone.
LEMMA PlanIsKept ==
  ASSUME PreparationNext
  PROVE  /\ UNCHANGED <<plan, build>>
         /\ \A i: ClassOf(i)' = ClassOf(i) /\ Provides(i)' = Provides(i) /\ (OneCodec(i)' <=> OneCodec(i))
         /\ \A b: BoundKinds(b)' = BoundKinds(b)
         /\ Selected' = Selected /\ \A c: Of(c)' = Of(c)
  <1>1. UNCHANGED <<plan, build>>
    BY DEF PreparationNext, Assemble, PrepareRequestApp, BeginClass, PrepareInstance, GuestDeclares,
           Loaded, Recreate, CopyChanges, Prepared
  <1> QED BY <1>1 DEF ClassOf, Provides, OneCodec, Registered, Codecs, BoundKinds, Serves, Endpoints, Selected, Of

\* A guest that speaks by one codec only was admitted by Wasm's and QuickJS's checks.
LEMMA AdmittedHasOneCodec ==
  ASSUME PlansAreClosed, CodecsAreLists, PreparationTypes, NEW i \in Instances,
         class = ClassOf(i), class \in Guests, GuestAdmits(i)
  PROVE  OneCodec(i)
  <1> SUFFICES ASSUME NEW k \in DOMAIN Provides(i)
               PROVE  Cardinality(Registered(class, Provides(i)[k])) = 1
    BY DEF OneCodec
  <1> DEFINE p == Provides(i)[k]
  <1>1. p \in Capabilities
    BY DEF PlansAreClosed, PreparationTypes, Provides
  <1>2. Registered(class, p) # {}
    <2>1. Agreement(class, p) = "all"
      BY DEF GuestAdmits, CodecsForInstance
    <2> QED BY <2>1 DEF Agreement
  <1>3. IsFiniteSet(Registered(class, p))
    <2>1. IsFiniteSet(DOMAIN Codecs(class))
      BY DEF CodecsAreLists, PreparationTypes, Codecs
    <2>2. Registered(class, p) \subseteq DOMAIN Codecs(class)
      BY DEF Registered
    <2> QED BY <2>1, <2>2, FS_Subset
  <1>4. ~(Cardinality(Registered(class, p)) > 1)
    BY <1>1 DEF GuestAdmits, Duplicated
  <1>5. Cardinality(Registered(class, p)) \in Nat /\ Cardinality(Registered(class, p)) # 0
    BY <1>2, <1>3, FS_CardinalityType, FS_EmptySet
  <1> QED BY <1>4, <1>5

\* A guest of Wasm or QuickJS serves a binding by every kind its Capability has, or by none.
LEMMA GuestsServeAllKinds ==
  ASSUME NEW b, ClassOf(b.provider) \in {"wasm", "quickjs"}, BoundKinds(b) # {}
  PROVE  BoundKinds(b) = {kind \in BindingKinds: kind \in Kinds[b.capability]}
  <1> DEFINE Served == {k \in DOMAIN Provides(b.provider): Provides(b.provider)[k] = b.capability}
  <1>1. \A kind: Serves(b.provider, kind, b.capability) <=> Served # {} /\ kind \in Kinds[b.capability]
    BY DEF Serves, Endpoints, ClassOf
  <1>2. Served # {}
    BY <1>1 DEF BoundKinds
  <1> QED BY <1>1, <1>2 DEF BoundKinds, BindingKinds

\* An empty Host has prepared nothing.
LEMMA PreparationStarts == PreparationInit => PreparationInv
  <1> SUFFICES ASSUME PreparationInit PROVE PreparationInv
    OBVIOUS
  <1>1. PreparationTypes
    BY DEF PreparationInit, PreparationTypes, Nothing
  <1>2. step = "catalog" /\ \A i \in Instances: thread[i] = "none"
    BY DEF PreparationInit, Nothing
  <1>3. Loading
    BY <1>2 DEF Loading
  <1>4. Admitted
    BY <1>2 DEF Admitted
  <1>5. Bound
    BY DEF PreparationInit, Bound
  <1> QED BY <1>1, <1>3, <1>4, <1>5 DEF PreparationInv

\* A refusal drops everything.
LEMMA RefusedHasNothing ==
  ASSUME PreparationInv, PreparationNext, Refuse, copy' = copy
  PROVE  PreparationInv'
  <1>1. step' = "failed" /\ \A i \in Instances: thread'[i] = "none"
    BY DEF Refuse, Nothing
  <1>2. UNCHANGED <<plan, build>>
    BY PlanIsKept
  <1>3. PreparationTypes'
    BY <1>2 DEF Refuse, Nothing, PreparationInv, PreparationTypes
  <1>4. Loading' /\ Admitted' /\ Bound'
    BY <1>1 DEF Loading, Admitted, Bound
  <1> QED BY <1>3, <1>4 DEF PreparationInv

\* While no adapter finishes and no step to another part is taken, the bindings stay right.
LEMMA BoundStays ==
  ASSUME PreparationInv, PreparationNext, UNCHANGED <<bound, finished>>,
         step = "catalog" <=> step' = "catalog", step # "failed",
         step' \in {"prepared", "recreate"} => step \in {"prepared", "recreate"} \/ Selected \subseteq finished
  PROVE  Bound'
  <1>1. /\ UNCHANGED <<plan, build>>
        /\ \A i: ClassOf(i)' = ClassOf(i)
        /\ \A b: BoundKinds(b)' = BoundKinds(b)
        /\ Selected' = Selected
    BY PlanIsKept
  <1>2. step' \notin {"catalog", "failed"} =>
          /\ bound' = {x \in plan'.bindings \X BindingKinds:
                         ClassOf(x[1].provider)' \in finished' \cap Guests /\ x[2] \in BoundKinds(x[1])'}
          /\ \A b \in plan'.bindings: ClassOf(b.provider)' \in finished' \cap Guests => BoundKinds(b)' # {}
    <2> SUFFICES ASSUME step' \notin {"catalog", "failed"} PROVE
          /\ bound = {x \in plan.bindings \X BindingKinds:
                         ClassOf(x[1].provider) \in finished \cap Guests /\ x[2] \in BoundKinds(x[1])}
          /\ \A b \in plan.bindings: ClassOf(b.provider) \in finished \cap Guests => BoundKinds(b) # {}
      BY <1>1
    <2> QED BY DEF PreparationInv, Bound
  <1>3. step' = "catalog" => finished' = {} /\ bound' = {}
    BY DEF PreparationInv, Bound
  <1>4. step' \in {"prepared", "recreate"} => Selected' \subseteq finished'
    BY <1>1 DEF PreparationInv, Bound
  <1> QED BY <1>2, <1>3, <1>4 DEF Bound

\* A thread that is not started anew, nor told ready, goes on with what it has.
LEMMA AdmittedStays ==
  ASSUME PreparationInv, PreparationNext,
         \A i \in Instances: thread'[i] # "none" =>
           thread'[i] = thread[i] /\ ran'[i] = ran[i] /\ (thread[i] = "ready" => declared'[i] = declared[i])
  PROVE  Admitted'
  <1>1. \A i: ClassOf(i)' = ClassOf(i) /\ (OneCodec(i)' <=> OneCodec(i))
    BY PlanIsKept
  <1> SUFFICES ASSUME NEW i \in Instances, thread'[i] # "none"
               PROVE  /\ ClassOf(i)' # "dylib" => ran'[i] = "admitted" /\ OneCodec(i)'
                      /\ thread'[i] = "ready" => declared'[i] = "as_planned"
    BY DEF Admitted
  <1>2. thread[i] # "none" /\ ran'[i] = ran[i]
    BY Zenon
  <1>3. ClassOf(i) # "dylib" => ran[i] = "admitted" /\ OneCodec(i)
    BY <1>2, Zenon DEF PreparationInv, Admitted
  <1>4. thread'[i] = "ready" => declared'[i] = "as_planned"
    BY DEF PreparationInv, Admitted
  <1>5. ClassOf(i)' # "dylib" => ran'[i] = "admitted" /\ OneCodec(i)'
    BY <1>1, <1>2, <1>3, Zenon
  <1> QED BY <1>4, <1>5

\* The catalog is put together, or the Plan refused.
LEMMA CatalogIsAssembled ==
  ASSUME PreparationInv, PreparationNext, Assemble
  PROVE  PreparationInv'
  <1>1. CASE Refuse
    BY <1>1, RefusedHasNothing DEF Assemble
  <1>2. CASE ~Refuse
    <2>1. step = "catalog" /\ step' = "prepare" /\ UNCHANGED <<waiting, thread, ran, declared, bound>>
      BY <1>2 DEF Assemble
    <2>2. UNCHANGED <<plan, build, class, finished, copy>>
      BY DEF Assemble
    <2>3. PreparationTypes'
      BY <2>1, <2>2 DEF PreparationInv, PreparationTypes
    <2>4. Loading'
      BY <2>1, <2>2 DEF PreparationInv, Loading
    <2>5. Admitted'
      BY <2>1, AdmittedStays
    <2>6. Bound'
      BY <2>1, <2>2 DEF PreparationInv, Bound
    <2> QED BY <2>3, <2>4, <2>5, <2>6 DEF PreparationInv
  <1> QED BY <1>1, <1>2

\* An adapter with no guest here is done at once; the others begin with all of theirs.
LEMMA ClassBegins ==
  ASSUME PlansAreClosed, PreparationInv, PreparationNext, NEW c \in catalog, BeginClass(c)
  PROVE  PreparationInv'
  <1>1. step = "prepare" /\ UNCHANGED <<plan, build, catalog, copy, thread, ran, declared, bound>>
    BY DEF BeginClass
  <1>2. PreparationTypes'
    BY <1>1 DEF PreparationInv, PreparationTypes
  <1>3. Admitted'
    BY <1>1, AdmittedStays
  <1>4. \A i \in Instances: thread'[i] # "loading"
    BY <1>1 DEF PreparationInv, Loading
  <1>5. Loading'
    <2>1. step' \in {"instances", "recreate", "bind"} => class' \in Guests /\ waiting' \subseteq Of(class)'
      BY <1>1 DEF BeginClass, Of
    <2> QED BY <1>4, <2>1 DEF Loading
  <1>6. CASE c \in Guests /\ Of(c) # {}
    <2>1. step' = "instances" /\ UNCHANGED <<bound, finished>>
      BY <1>1, <1>6 DEF BeginClass
    <2>2. Bound'
      BY <1>1, <2>1, BoundStays
    <2> QED BY <1>2, <1>3, <1>5, <2>2 DEF PreparationInv
  <1>7. CASE ~(c \in Guests /\ Of(c) # {})
    <2>1. step' = "prepare" /\ finished' = finished \cup {c}
      BY <1>1, <1>7 DEF BeginClass
    <2>2. \A b \in plan.bindings: ClassOf(b.provider) \in finished' \cap Guests
                                    <=> ClassOf(b.provider) \in finished \cap Guests
      <3>1. \A b \in plan.bindings: b.provider \in Instances
        BY DEF PlansAreClosed, PreparationInv, PreparationTypes
      <3> QED BY <1>7, <2>1, <3>1 DEF Of, ClassOf
    <2>3. /\ bound = {x \in plan.bindings \X BindingKinds:
                        ClassOf(x[1].provider) \in finished \cap Guests /\ x[2] \in BoundKinds(x[1])}
          /\ \A b \in plan.bindings: ClassOf(b.provider) \in finished \cap Guests => BoundKinds(b) # {}
      BY <1>1 DEF PreparationInv, Bound
    <2>4. /\ bound = {x \in plan.bindings \X BindingKinds:
                        ClassOf(x[1].provider) \in finished' \cap Guests /\ x[2] \in BoundKinds(x[1])}
          /\ \A b \in plan.bindings: ClassOf(b.provider) \in finished' \cap Guests => BoundKinds(b) # {}
      BY <2>2, <2>3
    <2>5. /\ UNCHANGED plan
          /\ \A i: ClassOf(i)' = ClassOf(i)
          /\ \A b: BoundKinds(b)' = BoundKinds(b)
      BY PlanIsKept
    <2>6. Bound'
      BY <1>1, <2>1, <2>4, <2>5 DEF Bound
    <2> QED BY <1>2, <1>3, <1>5, <2>6 DEF PreparationInv
  <1> QED BY <1>6, <1>7

\* Only what is admitted gets a thread.
LEMMA InstanceIsPrepared ==
  ASSUME PlansAreClosed, CodecsAreLists, PreparationInv, PreparationNext,
         NEW i \in Instances, PrepareInstance(i)
  PROVE  PreparationInv'
  <1>1. /\ step \in {"instances", "recreate"} /\ i \in waiting /\ \A j \in Instances: thread[j] # "loading"
        /\ UNCHANGED <<plan, build, class, catalog, finished, copy>>
    BY DEF PrepareInstance
  <1>2. CASE Refuse
    BY <1>1, <1>2, RefusedHasNothing
  <1>3. CASE ~Refuse /\ ~Admits(i)
    <2>1. step = "recreate" /\ step' = "prepared" /\ waiting' = {} /\ UNCHANGED <<thread, ran, declared, bound>>
      BY <1>3 DEF PrepareInstance
    <2>2. PreparationTypes'
      BY <1>1, <2>1 DEF PreparationInv, PreparationTypes
    <2>3. Loading'
      BY <1>1, <2>1 DEF Loading
    <2>4. Admitted'
      BY <2>1, AdmittedStays
    <2>5. Bound'
      BY <1>1, <2>1, BoundStays
    <2> QED BY <2>2, <2>3, <2>4, <2>5 DEF PreparationInv
  <1>4. CASE Admits(i)
    <2>1. /\ thread' = [thread EXCEPT ![i] = "loading"] /\ ran' = [ran EXCEPT ![i] = copy[i]]
          /\ UNCHANGED <<step, waiting, declared, bound>>
      BY <1>4 DEF PrepareInstance
    <2>2. PreparationTypes'
      BY <1>1, <2>1 DEF PreparationInv, PreparationTypes
    <2>3. \A j \in Instances: thread'[j] = "loading" <=> j = i
      BY <1>1, <2>1 DEF PreparationInv, PreparationTypes
    <2>4. class \in Guests /\ waiting \subseteq Of(class)
      BY <1>1 DEF PreparationInv, Loading
    <2>5. Loading'
      <3>1. class' \in Guests /\ waiting' \subseteq Of(class)'
        BY <1>1, <2>1, <2>4 DEF Of
      <3>2. \A j \in Instances: thread'[j] = "loading" => j \in waiting' /\ step' \in {"instances", "recreate"}
        BY <1>1, <2>1, <2>3
      <3> QED BY <2>3, <3>1, <3>2 DEF Loading
    <2>6. Bound'
      BY <1>1, <2>1, BoundStays
    <2>7. class = ClassOf(i)
      BY <1>1, <2>4 DEF Of, ClassOf
    <2>8. class # "dylib" => copy[i] = "admitted" /\ OneCodec(i)
      <3> SUFFICES ASSUME class # "dylib" PROVE copy[i] = "admitted" /\ OneCodec(i)
        OBVIOUS
      <3>1. GuestAdmits(i)
        BY <1>4, <2>4 DEF Guests, Admits
      <3> QED BY <2>4, <2>7, <3>1, AdmittedHasOneCodec DEF PreparationInv, GuestAdmits
    <2>9. Admitted'
      <3> SUFFICES ASSUME NEW j \in Instances
                   PROVE  /\ thread'[j] # "none" /\ ClassOf(j)' # "dylib" => ran'[j] = "admitted" /\ OneCodec(j)'
                          /\ thread'[j] = "ready" => declared'[j] = "as_planned"
        BY DEF Admitted
      <3>1. ClassOf(j)' = ClassOf(j) /\ (OneCodec(j)' <=> OneCodec(j))
        BY PlanIsKept
      <3>2. thread'[j] = "ready" => declared'[j] = "as_planned"
        BY <2>1, <2>3 DEF PreparationInv, Admitted, PreparationTypes
      <3>3. CASE j = i
        <4>1. ran'[j] = copy[i]
          BY <2>1, <3>3 DEF PreparationInv, PreparationTypes
        <4>2. ClassOf(j) # "dylib" => ran'[j] = "admitted" /\ OneCodec(j)
          BY <2>7, <2>8, <3>3, <4>1, Zenon
        <4>3. ClassOf(j)' # "dylib" => ran'[j] = "admitted" /\ OneCodec(j)'
          BY <3>1, <4>2, Zenon
        <4> QED BY <3>2, <4>3, Zenon
      <3>4. CASE j # i
        <4>1. thread'[j] = thread[j] /\ ran'[j] = ran[j]
          BY <2>1, <3>4 DEF PreparationInv, PreparationTypes
        <4>2. thread[j] # "none" /\ ClassOf(j) # "dylib" => ran[j] = "admitted" /\ OneCodec(j)
          BY Zenon DEF PreparationInv, Admitted
        <4>3. thread'[j] # "none" /\ ClassOf(j)' # "dylib" => ran'[j] = "admitted" /\ OneCodec(j)'
          BY <3>1, <4>1, <4>2, Zenon
        <4> QED BY <3>2, <4>3, Zenon
      <3> QED BY <3>3, <3>4
    <2> QED BY <2>2, <2>5, <2>6, <2>9 DEF PreparationInv
  <1> QED BY <1>2, <1>3, <1>4

\* A guest declares while it loads, once.
LEMMA GuestHasDeclared ==
  ASSUME PreparationInv, PreparationNext, NEW i \in Instances, GuestDeclares(i)
  PROVE  PreparationInv'
  <1>1. /\ thread[i] = "loading"
        /\ UNCHANGED <<plan, build, step, class, waiting, catalog, finished, copy, thread, ran, bound>>
    BY DEF GuestDeclares
  <1>2. PICK d \in {"as_planned", "otherwise", "dead"}: declared' = [declared EXCEPT ![i] = d]
    BY DEF GuestDeclares
  <1>3. PreparationTypes'
    BY <1>1, <1>2 DEF PreparationInv, PreparationTypes
  <1>4. Loading'
    BY <1>1 DEF PreparationInv, Loading, Of
  <1>5. \A j \in Instances: thread[j] = "ready" => declared'[j] = declared[j]
    BY <1>1, <1>2 DEF PreparationInv, PreparationTypes
  <1>6. Admitted'
    BY <1>1, <1>5, AdmittedStays
  <1>7. step # "failed" /\ (step' \in {"prepared", "recreate"} => step \in {"prepared", "recreate"})
    BY <1>1 DEF PreparationInv, Loading
  <1>8. Bound'
    BY <1>1, <1>7, BoundStays
  <1> QED BY <1>3, <1>4, <1>6, <1>8 DEF PreparationInv

\* What is ready declared what the Plan says.
LEMMA GuestIsLoaded ==
  ASSUME PreparationInv, PreparationNext, NEW i \in Instances, Loaded(i)
  PROVE  PreparationInv'
  <1>1. /\ thread[i] = "loading" /\ i \in waiting /\ step \in {"instances", "recreate"}
        /\ UNCHANGED <<plan, build, class, catalog, finished, copy>>
    BY DEF Loaded, PreparationInv, Loading
  <1>2. class \in Guests /\ waiting \subseteq Of(class)
    BY <1>1 DEF PreparationInv, Loading
  <1>3. \A j \in Instances: thread[j] = "loading" => j = i
    BY <1>1 DEF PreparationInv, Loading
  <1>4. CASE Refuse
    BY <1>1, <1>4, RefusedHasNothing
  <1>5. CASE thread' = [thread EXCEPT ![i] = "ready"] /\ declared[i] = "as_planned"
    <2>1. /\ waiting' = waiting \ {i} /\ UNCHANGED <<ran, declared, bound>>
          /\ step' = IF waiting # {i} THEN step ELSE IF step = "recreate" THEN "prepared" ELSE "bind"
      <3>1. thread'[i] = "ready"
        BY <1>5 DEF PreparationInv, PreparationTypes
      <3> QED BY <1>5, <3>1 DEF Loaded, Refuse, Nothing, PreparationInv, PreparationTypes
    <2>2. PreparationTypes'
      BY <1>1, <1>5, <2>1 DEF PreparationInv, PreparationTypes
    <2>3. \A j \in Instances: thread'[j] # "loading"
      BY <1>3, <1>5 DEF PreparationInv, PreparationTypes
    <2>4. class' \in Guests /\ waiting' \subseteq Of(class)'
      BY <1>1, <1>2, <2>1 DEF Of
    <2>5. Loading'
      BY <2>3, <2>4 DEF Loading
    <2>6. /\ UNCHANGED <<bound, finished>> /\ step # "failed" /\ step # "catalog" /\ step' # "catalog"
          /\ step' \in {"prepared", "recreate"} => step \in {"prepared", "recreate"}
      BY <1>1, <2>1
    <2>7. Bound'
      BY <2>6, BoundStays
    <2>8. Admitted'
      <3> SUFFICES ASSUME NEW j \in Instances
                   PROVE  /\ thread'[j] # "none" /\ ClassOf(j)' # "dylib" => ran'[j] = "admitted" /\ OneCodec(j)'
                          /\ thread'[j] = "ready" => declared'[j] = "as_planned"
        BY DEF Admitted
      <3>1. ClassOf(j)' = ClassOf(j) /\ (OneCodec(j)' <=> OneCodec(j))
        BY PlanIsKept
      <3>2. thread'[j] # "none" => thread[j] # "none"
        BY <1>1, <1>5 DEF PreparationInv, PreparationTypes
      <3>3. thread[j] # "none" /\ ClassOf(j) # "dylib" => ran[j] = "admitted" /\ OneCodec(j)
        BY Zenon DEF PreparationInv, Admitted
      <3>4. ran'[j] = ran[j] /\ declared'[j] = declared[j]
        BY <2>1
      <3>5. thread'[j] # "none" /\ ClassOf(j)' # "dylib" => ran'[j] = "admitted" /\ OneCodec(j)'
        BY <3>1, <3>2, <3>3, <3>4, Zenon
      <3>6. thread'[j] = "ready" => declared[j] = "as_planned"
        BY <1>5 DEF PreparationInv, PreparationTypes, Admitted
      <3> QED BY <3>4, <3>5, <3>6, Zenon
    <2> QED BY <2>2, <2>5, <2>7, <2>8 DEF PreparationInv
  <1>6. CASE /\ step = "recreate" /\ thread' = [thread EXCEPT ![i] = "none"]
             /\ ran' = [ran EXCEPT ![i] = "none"] /\ declared' = [declared EXCEPT ![i] = "none"]
             /\ step' = "prepared" /\ waiting' = {} /\ UNCHANGED bound
    <2>1. PreparationTypes'
      BY <1>1, <1>6 DEF PreparationInv, PreparationTypes
    <2>2. \A j \in Instances: thread'[j] # "loading"
      BY <1>3, <1>6 DEF PreparationInv, PreparationTypes
    <2>3. Loading'
      BY <1>6, <2>2 DEF Loading
    <2>4. \A j \in Instances: thread'[j] # "none" =>
            thread'[j] = thread[j] /\ ran'[j] = ran[j] /\ declared'[j] = declared[j]
      BY <1>6 DEF PreparationInv, PreparationTypes
    <2>5. Admitted'
      BY <2>4, AdmittedStays
    <2>6. Bound'
      BY <1>1, <1>6, BoundStays
    <2> QED BY <2>1, <2>3, <2>5, <2>6 DEF PreparationInv
  <1> QED BY <1>4, <1>5, <1>6, Zenon DEF Loaded

\* The bindings of the class that was prepared join those of the others.
LEMMA BindingsArePrepared ==
  ASSUME PlansAreClosed, PreparationInv, PreparationNext, PrepareRequestApp
  PROVE  PreparationInv'
  <1>1. /\ step = "bind" /\ finished' = finished \cup {class}
        /\ UNCHANGED <<plan, build, class, catalog, copy>>
    BY DEF PrepareRequestApp
  <1>2. CASE Refuse
    BY <1>1, <1>2, RefusedHasNothing
  <1>3. CASE ~Refuse
    <2> DEFINE provided == {b \in plan.bindings: b.provider \in Of(class)}
    <2>1. /\ \A b \in provided: BoundKinds(b) # {}
          /\ bound' = bound \cup UNION {{<<b, kind>>: kind \in BoundKinds(b)}: b \in provided}
          /\ step' = "prepare" /\ UNCHANGED <<waiting, thread, ran, declared>>
      BY <1>3 DEF PrepareRequestApp
    <2>2. PreparationTypes'
      BY <1>1, <2>1 DEF PreparationInv, PreparationTypes
    <2>3. \A i \in Instances: thread'[i] # "loading"
      BY <1>1, <2>1 DEF PreparationInv, Loading
    <2>4. Loading'
      BY <2>1, <2>3 DEF Loading
    <2>5. Admitted'
      BY <2>1, AdmittedStays
    <2>6. class \in Guests
      BY <1>1 DEF PreparationInv, Loading
    <2>7. \A b: b \in provided <=> b \in plan.bindings /\ ClassOf(b.provider) = class
      <3>1. \A b \in plan.bindings: b.provider \in Instances
        BY DEF PlansAreClosed, PreparationInv, PreparationTypes
      <3> QED BY <3>1 DEF Of, ClassOf
    <2>8. /\ bound = {x \in plan.bindings \X BindingKinds:
                        ClassOf(x[1].provider) \in finished \cap Guests /\ x[2] \in BoundKinds(x[1])}
          /\ \A b \in plan.bindings: ClassOf(b.provider) \in finished \cap Guests => BoundKinds(b) # {}
      BY <1>1 DEF PreparationInv, Bound
    <2>9. \A b: BoundKinds(b) \subseteq BindingKinds
      BY DEF BoundKinds, BindingKinds
    <2>10. bound' = {x \in plan.bindings \X BindingKinds:
                       ClassOf(x[1].provider) \in finished' \cap Guests /\ x[2] \in BoundKinds(x[1])}
      <3>1. \A x: x \in UNION {{<<b, kind>>: kind \in BoundKinds(b)}: b \in provided}
                    <=> /\ x \in plan.bindings \X BindingKinds
                        /\ ClassOf(x[1].provider) = class /\ x[2] \in BoundKinds(x[1])
        BY <2>7, <2>9
      <3>2. \A x: x \in bound' <=> x \in bound \/ x \in UNION {{<<b, kind>>: kind \in BoundKinds(b)}: b \in provided}
        BY <2>1
      <3>3. \A x: x \in bound' <=> /\ x \in plan.bindings \X BindingKinds
                                   /\ ClassOf(x[1].provider) \in finished' \cap Guests /\ x[2] \in BoundKinds(x[1])
        <4> HIDE DEF provided
        <4> QED BY <1>1, <2>6, <2>8, <3>1, <3>2
      <3> HIDE DEF provided
      <3> QED BY <3>3
    <2>11. \A b \in plan.bindings: ClassOf(b.provider) \in finished' \cap Guests => BoundKinds(b) # {}
      BY <1>1, <2>1, <2>7, <2>8
    <2>12. /\ UNCHANGED plan
           /\ \A i: ClassOf(i)' = ClassOf(i)
           /\ \A b: BoundKinds(b)' = BoundKinds(b)
      BY PlanIsKept
    <2> HIDE DEF provided
    <2>13. Bound'
      BY <2>1, <2>10, <2>11, <2>12 DEF Bound
    <2> QED BY <2>2, <2>4, <2>5, <2>13 DEF PreparationInv
  <1> QED BY <1>2, <1>3

\* The generation that is prepared has all its adapters' parts; one of its Instances is made anew;
\* and somebody writes to a copy.
LEMMA OthersOfPreparation ==
  ASSUME PreparationInv, PreparationNext,
         Prepared \/ \E i \in Instances: Recreate(i) \/ CopyChanges(i)
  PROVE  PreparationInv'
  <1>1. CASE Prepared
    <2>1. /\ step = "prepare" /\ step' = "prepared" /\ Selected \subseteq finished
          /\ UNCHANGED <<plan, build, class, waiting, catalog, finished, copy, thread, ran, declared, bound>>
      BY <1>1 DEF Prepared
    <2>2. PreparationTypes' /\ Loading'
      BY <2>1 DEF PreparationInv, PreparationTypes, Loading
    <2>3. Admitted' /\ Bound'
      BY <2>1, AdmittedStays, BoundStays
    <2> QED BY <2>2, <2>3 DEF PreparationInv
  <1>2. ASSUME NEW i \in Instances, Recreate(i) PROVE PreparationInv'
    <2>1. /\ step = "prepared" /\ ClassOf(i) \in Guests /\ thread[i] = "ready"
          /\ step' = "recreate" /\ class' = ClassOf(i) /\ waiting' = {i}
          /\ thread' = [thread EXCEPT ![i] = "none"] /\ ran' = [ran EXCEPT ![i] = "none"]
          /\ declared' = [declared EXCEPT ![i] = "none"]
          /\ UNCHANGED <<plan, build, catalog, finished, copy, bound>>
      BY <1>2 DEF Recreate, ClassOf
    <2>2. PreparationTypes'
      BY <2>1 DEF PreparationInv, PreparationTypes
    <2>3. \A j \in Instances: thread'[j] # "loading"
      BY <2>1 DEF PreparationInv, PreparationTypes, Loading
    <2>4. class' \in Guests /\ waiting' \subseteq Of(class)'
      BY <2>1 DEF Of, ClassOf
    <2>5. Loading'
      BY <2>3, <2>4 DEF Loading
    <2>6. \A j \in Instances: thread'[j] # "none" =>
            thread'[j] = thread[j] /\ ran'[j] = ran[j] /\ declared'[j] = declared[j]
      BY <2>1 DEF PreparationInv, PreparationTypes
    <2>7. Admitted' /\ Bound'
      BY <2>1, <2>6, AdmittedStays, BoundStays
    <2> QED BY <2>2, <2>5, <2>7 DEF PreparationInv
  <1>3. ASSUME NEW i \in Instances, CopyChanges(i) PROVE PreparationInv'
    <2>1. /\ copy' = [copy EXCEPT ![i] = "changed"]
          /\ UNCHANGED <<plan, build, step, class, waiting, catalog, finished, thread, ran, declared, bound>>
      BY <1>3 DEF CopyChanges
    <2>2. PreparationTypes' /\ Loading'
      BY <2>1 DEF PreparationInv, PreparationTypes, Loading, Of
    <2>3. Admitted'
      BY <2>1, AdmittedStays
    <2>4. Bound'
      <3>1. /\ \A j: ClassOf(j)' = ClassOf(j)
            /\ \A b: BoundKinds(b)' = BoundKinds(b)
            /\ Selected' = Selected
        BY PlanIsKept
      <3> QED BY <2>1, <3>1 DEF PreparationInv, Bound
    <2> QED BY <2>2, <2>3, <2>4 DEF PreparationInv
  <1> QED BY <1>1, <1>2, <1>3

\* Every step of the preparation keeps its invariant.
LEMMA PreparationStep ==
  ASSUME PlansAreClosed, CodecsAreLists, PreparationInv, [PreparationNext]_preparation
  PROVE  PreparationInv'
  <1>1. CASE PreparationNext
    BY <1>1, Zenon, CatalogIsAssembled, ClassBegins, InstanceIsPrepared, GuestHasDeclared, GuestIsLoaded,
       BindingsArePrepared, OthersOfPreparation DEF PreparationNext
  <1>2. CASE UNCHANGED preparation
    <2>1. UNCHANGED <<plan, build, step, class, waiting, finished, copy, thread, ran, declared, bound>>
      BY <1>2 DEF preparation
    <2>2. PreparationTypes'
      BY <2>1 DEF PreparationInv, PreparationTypes
    <2>3. Loading'
      BY <2>1 DEF PreparationInv, Loading, Of
    <2>4. /\ \A i: ClassOf(i)' = ClassOf(i) /\ (OneCodec(i)' <=> OneCodec(i))
          /\ \A b: BoundKinds(b)' = BoundKinds(b)
          /\ Selected' = Selected
      BY <2>1 DEF ClassOf, Provides, OneCodec, Registered, Codecs, BoundKinds, Serves, Endpoints, Selected
    <2>5. Admitted'
      <3> SUFFICES ASSUME NEW i \in Instances
                   PROVE  /\ thread'[i] # "none" /\ ClassOf(i)' # "dylib" => ran'[i] = "admitted" /\ OneCodec(i)'
                          /\ thread'[i] = "ready" => declared'[i] = "as_planned"
        BY DEF Admitted
      <3>1. /\ thread[i] # "none" /\ ClassOf(i) # "dylib" => ran[i] = "admitted" /\ OneCodec(i)
            /\ thread[i] = "ready" => declared[i] = "as_planned"
        BY Zenon DEF PreparationInv, Admitted
      <3> QED BY <2>1, <2>4, <3>1, Zenon
    <2>6. Bound'
      BY <2>1, <2>4 DEF PreparationInv, Bound
    <2> QED BY <2>2, <2>3, <2>5, <2>6 DEF PreparationInv
  <1> QED BY <1>1, <1>2

\* The invariant makes what is prepared the Plan.
LEMMA PreparationPromise ==
  ASSUME PlansAreClosed, PreparationInv
  PROVE  PreparedAsPlanned
  <1> SUFFICES ASSUME step = "prepared" PROVE PreparedAsPlanned
    BY DEF PreparedAsPlanned
  <1>1. \A b \in plan.bindings: ClassOf(b.provider) \in finished
    <2>1. \A b \in plan.bindings: b.provider \in Instances
      BY DEF PlansAreClosed, PreparationInv, PreparationTypes
    <2> QED BY <2>1 DEF PreparationInv, Bound, Selected, ClassOf
  <1>2. \A x: x \in bound <=> /\ x \in plan.bindings \X BindingKinds
                              /\ ClassOf(x[1].provider) \in Guests /\ x[2] \in BoundKinds(x[1])
    BY <1>1 DEF PreparationInv, Bound
  <1>3. \A b \in plan.bindings: ClassOf(b.provider) \in {"wasm", "quickjs"} =>
          \A kind \in BindingKinds: kind \in BoundKinds(b) <=> kind \in Kinds[b.capability]
    <2> SUFFICES ASSUME NEW b \in plan.bindings, ClassOf(b.provider) \in {"wasm", "quickjs"}
                 PROVE  \A kind \in BindingKinds: kind \in BoundKinds(b) <=> kind \in Kinds[b.capability]
      OBVIOUS
    <2>1. BoundKinds(b) # {}
      BY <1>1 DEF PreparationInv, Bound, Guests
    <2> QED BY <2>1, GuestsServeAllKinds
  <1>4. \A x: x \in bound /\ ClassOf(x[1].provider) # "dylib" <=>
          /\ x \in plan.bindings \X BindingKinds
          /\ ClassOf(x[1].provider) \in {"wasm", "quickjs"} /\ x[2] \in Kinds[x[1].capability]
    BY <1>2, <1>3 DEF Guests
  <1>5. {x \in bound: ClassOf(x[1].provider) # "dylib"} =
          {<<b, kind>>: b \in {d \in plan.bindings: ClassOf(d.provider) \in {"wasm", "quickjs"}},
                        kind \in BindingKinds}
            \ {x \in plan.bindings \X BindingKinds: x[2] \notin Kinds[x[1].capability]}
    BY <1>4
  <1>6. \A i \in Instances: thread[i] = "ready" =>
          /\ declared[i] = "as_planned"
          /\ ClassOf(i) # "dylib" =>
               /\ ran[i] = "admitted"
               /\ \A k \in DOMAIN Provides(i): Cardinality(Registered(ClassOf(i), Provides(i)[k])) = 1
    BY DEF PreparationInv, Admitted, OneCodec
  <1> QED BY <1>5, <1>6 DEF PreparedAsPlanned, ClassOf, BindingKinds

\* What is prepared is the Plan, for any Plans and products, whatever the guests declare and
\* however often they are made anew, and also when somebody writes to the copies.
THEOREM PlansArePrepared ==
  ASSUME PlansAreClosed, CodecsAreLists
  PROVE  PreparationSpec => []PreparedAsPlanned
  <1>1. PreparationInit => PreparationInv
    BY PreparationStarts
  <1>2. PreparationInv /\ [PreparationNext]_preparation => PreparationInv'
    BY PreparationStep
  <1>3. PreparationInv => PreparedAsPlanned
    BY PreparationPromise
  <1> QED BY <1>1, <1>2, <1>3, PTL DEF PreparationSpec
=============================================================================
