----------------------- MODULE ImplementationSelection -----------------------
(***************************************************************************)
(* Which implementation of a Plugin Release a Host takes                   *)
(* (lenso-plugin-bundle/src/selection.rs): the runtimes the Host admits are *)
(* gone through in the Host's order of preference, and every candidate that *)
(* is passed over gets a reason.                                           *)
(*                                                                         *)
(* One step for each admission.  A runtime stands for execution class and  *)
(* profile; features the protocol does not know are outside Known.         *)
(***************************************************************************)
EXTENDS Naturals, Sequences, FiniteSets

CONSTANTS Runtimes, Known,
          Odd,             \* a feature outside Known
          MaxCandidates, MaxAdmissions

VARIABLES candidates, runtimes,   \* what the Manifest offers, what the policy admits, in order
          turn,                   \* the admission that is looked at next
          chosen,                 \* the selected candidate: 0, or its place
          rejected                \* reasons given, as <<place, reason>> (place 0: the policy itself)

selection == <<candidates, runtimes, turn, chosen, rejected>>

\* The features of the protocol are not the odd one.
OddIsUnknown == Odd \notin Known

\* A candidate: its runtime, whether a target of its Artifact is the Host's, and the features its
\* descriptor asks for, itself or by the kinds of its operations.
Candidates == [runtime: Runtimes, fits: BOOLEAN, needs: {{}, Known, {Odd}}]
\* An admission: the runtime, and the features its profile declares, or a profile that is not valid.
Admissions == [runtime: Runtimes, features: {{}, Known}, valid: {TRUE}]
                \cup [runtime: Runtimes, features: {{}}, valid: {FALSE}]

SelectionInit ==
  /\ candidates \in UNION {[1..n -> Candidates]: n \in 1..MaxCandidates}
  /\ runtimes \in UNION {[1..n -> Admissions]: n \in 0..MaxAdmissions}
  /\ turn = 1 /\ chosen = 0 /\ rejected = {}

Running == chosen = 0 /\ turn <= Len(runtimes) + 1

\* candidate_matches_admission
Matches(c, a) == candidates[c].runtime = runtimes[a].runtime

\* record_target_match
TargetReason(c) == IF candidates[c].fits THEN {} ELSE {"target"}

\* record_capability_match
CapabilityReason(c, a) ==
  IF Odd \in candidates[c].needs THEN {"requirement"}
  ELSE IF candidates[c].needs \ runtimes[a].features # {} THEN {"missing"}
  ELSE {}

\* The first reason against candidate c under admission a.
Reason(c, a) ==
  IF ~runtimes[a].valid THEN {"profile"}
  ELSE IF TargetReason(c) # {} THEN TargetReason(c)
  ELSE CapabilityReason(c, a)

Compatible(a) == {c \in DOMAIN candidates: Matches(c, a) /\ Reason(c, a) = {}}
Refusals(a) ==
  UNION {{<<c, w>>: w \in Reason(c, a)}: c \in {d \in DOMAIN candidates: Matches(d, a)}}

\* One admission: its only compatible candidate is taken; several are ambiguous, and no other
\* runtime is tried.
Admit ==
  /\ Running /\ turn <= Len(runtimes)
  /\ rejected' = rejected \cup Refusals(turn)
                   \cup (IF Cardinality(Compatible(turn)) > 1 THEN {<<0, "ambiguous">>} ELSE {})
  /\ \/ Compatible(turn) = {} /\ turn' = turn + 1 /\ UNCHANGED chosen
     \/ \E c \in Compatible(turn): Compatible(turn) = {c} /\ chosen' = c /\ UNCHANGED turn
     \/ Cardinality(Compatible(turn)) > 1 /\ turn' = Len(runtimes) + 2 /\ UNCHANGED chosen
  /\ UNCHANGED <<candidates, runtimes>>

\* record_unadmitted_runtimes
Unadmitted == {c \in DOMAIN candidates: \A a \in DOMAIN runtimes: ~Matches(c, a)}

RecordUnadmitted ==
  /\ Running /\ turn = Len(runtimes) + 1
  /\ rejected' = rejected \cup {<<c, "runtime">>: c \in Unadmitted}
  /\ turn' = turn + 1 /\ UNCHANGED <<candidates, runtimes, chosen>>

SelectionNext == Admit \/ RecordUnadmitted

SelectionSpec == SelectionInit /\ [][SelectionNext]_selection

-----------------------------------------------------------------------------
(* Properties                                                              *)

\* What a candidate may run on, by the policy alone.
MayRun(c, a) ==
  /\ candidates[c].runtime = runtimes[a].runtime /\ runtimes[a].valid
  /\ candidates[c].fits /\ candidates[c].needs \subseteq runtimes[a].features

\* The choice is the Host's: what is selected may run on the first admitted runtime on which
\* anything may run, and nothing else may run there, so the order of the Manifest decides nothing;
\* and if nothing is selected, no candidate is left without a reason.
ChoiceIsThePolicys ==
  /\ chosen # 0 =>
       \E a \in DOMAIN runtimes:
         /\ {c \in DOMAIN candidates: MayRun(c, a)} = {chosen}
         /\ \A b \in 1..(a - 1), c \in DOMAIN candidates: ~MayRun(c, b)
  /\ ~Running /\ chosen = 0 =>
       \/ \E a \in DOMAIN runtimes: Cardinality({c \in DOMAIN candidates: MayRun(c, a)}) > 1
       \/ \A c \in DOMAIN candidates: \E w \in rejected: w[1] = c
=============================================================================
