------------------------------ MODULE MCRelease ------------------------------
(***************************************************************************)
(* The way of a release into a running Host, side by side: a Plugin bundle *)
(* that two builders write ("race") or that a Host verifies while it       *)
(* changes ("check"), the choice of an implementation, a distribution that *)
(* is opened and resolved, the preparation of a Plan's Instances, the      *)
(* in-memory supervisor that routes to them (GenerationSupervisor) and a   *)
(* session of host control (ApplicationControl), the modules this one      *)
(* extends, a native library and a provided stream.  They share no state:  *)
(* a behaviour runs one of them, `part', and the others stay in an initial *)
(* state.                                                                  *)
(***************************************************************************)
EXTENDS GenerationSupervisor, ApplicationControl, Integers, Sequences

VARIABLE part
VARIABLES exists, dir, disk, builder, written, edits, checks, at, phase, client, cursor, inode,
          text, todo, summary, verdict, seen, always
VARIABLES candidates, runtimes, turn, chosen, rejected
VARIABLES releaseDisk, updates, distributionAt, missing, current, lock, entries, kept, got,
          copies, child, pipe, sent, drained, resolution, authority
VARIABLES plan, build, prepareAt, class, instances, catalog, finished, copy, preparedWorker, ran,
          declared, bound
VARIABLES library, commands, retired, busy, libraryWorker, job, libraryOutcome, libraryCall,
          reply, last
VARIABLES incoming, outgoing, cancelled, input, receive, closed, outcomeSeen, gone, given, doing,
          item, sendClosed, terminated, completing, dropped, outputsSent

bundles == <<exists, dir, disk, builder, written, edits, checks, at, phase, client, cursor,
             inode, text, todo, summary, verdict, seen, always>>
choice == <<candidates, runtimes, turn, chosen, rejected>>
distributions == <<releaseDisk, updates, distributionAt, missing, current, lock, entries, kept,
                   got, copies, child, pipe, sent, drained, resolution, authority>>
preparations == <<plan, build, prepareAt, class, instances, catalog, finished, copy,
                  preparedWorker, ran, declared, bound>>
memory == <<active, slots, routingEpoch, held, pending, edge, live>>
libraries == <<library, commands, retired, busy, libraryWorker, job, libraryOutcome,
               libraryCall, reply, last>>
provisions == <<incoming, outgoing, cancelled, input, receive, closed, outcomeSeen, gone, given,
                doing, item, sendClosed, terminated, completing, dropped, outputsSent>>
release == <<bundles, choice, distributions, preparations, memory, control, libraries,
             provisions>>

-----------------------------------------------------------------------------
(* Instances                                                               *)

Race == INSTANCE PluginBundle WITH
  Builders <- {"b1", "b2"}, Builds <- [b1 |-> "two", b2 |-> "twice"], Found <- "none",
  MaxFiles <- 3, MaxEdits <- 0, MaxChecks <- 0, MaxInode <- 5
Verification == INSTANCE PluginBundle WITH
  Builders <- {}, Builds <- [b \in {} |-> "two"], Found <- "two",
  MaxFiles <- 3, MaxEdits <- 2, MaxChecks <- 1, MaxInode <- 5
Selection == INSTANCE ImplementationSelection WITH
  Runtimes <- {"wasm", "process"}, Known <- {"stream"}, Odd <- "odd",
  MaxCandidates <- 2, MaxAdmissions <- 2

Artifact(s, v) == [slot |-> s, release |-> v]
Entry(s, v, x) == [slot |-> s, release |-> v, identity |-> x]
Distribution == INSTANCE HostDistribution WITH
  tree <- releaseDisk, stage <- distributionAt, answer <- resolution,
  Planned <- {"i1", "i2"}, MaxUpdates <- 2,
  \* what the resolver may say: of two Artifacts, of one for both, of an older and a newer one
  Pick <- [both |-> [i1 |-> Artifact("a1", 1), i2 |-> Artifact("a2", 1)],
           same |-> [i1 |-> Artifact("a1", 1), i2 |-> Artifact("a1", 1)],
           newer |-> [i1 |-> Artifact("a1", 2), i2 |-> Artifact("a2", 1)]],
  \* the second has the same entry twice, and two that disagree
  Inventories <- <<<<Entry("a1", 1, "x"), Entry("a2", 1, "y")>>,
                   <<Entry("a1", 1, "x"), Entry("a1", 1, "x"), Entry("a2", 1, "y"),
                     Entry("a2", 1, "z")>>>>

Instance(c, p, r) == [class |-> c, provides |-> p, requires |-> r, form |-> "entry", authoring |-> 1]
Binding(c, p, x) == [consumer |-> c, provider |-> p, capability |-> x]
PlanOf(i, j, bindings) == [instance |-> [i |-> i, j |-> j], bindings |-> bindings]
ProviderPlans == {
  PlanOf(Instance("wasm", <<"d", "c">>, {}), Instance("quickjs", <<>>, {"c", "d"}),
         {Binding("j", "i", "d"), Binding("j", "i", "c")}),
  PlanOf(Instance("quickjs", <<"d">>, {"c"}), Instance("quickjs", <<"c">>, {}),
         {Binding("i", "j", "c")}),
  PlanOf(Instance("native", <<>>, {"d"}), Instance("dylib", <<"d">>, {}),
         {Binding("i", "j", "d")})}
RefusedPlans == {
  PlanOf(Instance("native", <<>>, {"e"}), Instance("quickjs", <<"e">>, {}),
         {Binding("i", "j", "e")}),
  PlanOf(Instance("native", <<>>, {}), [Instance("wasm", <<"c">>, {"d"}) EXCEPT !.authoring = 2],
         {}),
  PlanOf(Instance("outer", <<>>, {}), [Instance("quickjs", <<"c">>, {}) EXCEPT !.form = "no_entry"],
         {Binding("i", "j", "c")}),
  PlanOf(Instance("outer", <<>>, {}), Instance("dylib", <<"c", "c">>, {}),
         {Binding("i", "j", "c")})}
Codec(c, a) == [capability |-> c, agrees |-> a]
Build(base, codecs, deferred, verifier, trusted) ==
  [base |-> base, codecs |-> [c \in {"wasm", "quickjs", "dylib"} |-> codecs],
   deferred |-> deferred, verifier |-> verifier, trusted |-> trusted]
Codecs == <<Codec("c", "all"), Codec("d", "all"), Codec("e", "all")>>
Preparing == INSTANCE Preparation WITH
  step <- prepareAt, waiting <- instances, thread <- preparedWorker,
  Instances <- {"i", "j"}, Capabilities <- {"c", "d", "e"},
  Kinds <- [c |-> {"request"}, d |-> {"request", "stream"}, e |-> {"event"}],
  Plans <- ProviderPlans \cup RefusedPlans,
  Products <- {Build({"native"}, Codecs, {"outer"}, TRUE, {"i", "j"}),
             Build({"native"}, Codecs, {}, FALSE, {}),
             Build({"native", "outer"}, <<Codec("c", "version"), Codec("d", "all")>>, {}, TRUE, {"j"}),
             Build({"native", "outer"}, <<Codec("c", "none"), Codec("d", "all"), Codec("c", "all")>>,
                   {}, TRUE, {"j"})}

\* The Generations of the in-memory supervisor: two that keep their state in versions of their
\* own, and one without state.
ThreeGenerations == {"g1", "g2", "g3"}
StateOfThree == [g1 |-> "v1", g2 |-> "v2", g3 |-> "none"]
Library == INSTANCE DylibAdapter WITH
  host <- library, failed <- retired, worker <- libraryWorker, outcome <- libraryOutcome,
  call <- libraryCall, Calls <- {"c1", "c2", "c3"}, Large <- {"c3"}
Provided == INSTANCE ProviderStream WITH
  ended <- outcomeSeen, sent <- outputsSent,
  Sends <- {"s1"}, Receives <- {"r1", "r2"}, Messages <- {"m1"}, Capacity <- 0

\* What ReleaseProofs assumes of the constants holds of these.
ASSUME ReleaseAssumption ==
  /\ Race!BundleFits /\ Race!HostIsNoBuilder
  /\ Verification!BundleFits /\ Verification!HostIsNoBuilder
  /\ Selection!OddIsUnknown
  /\ Distribution!InventoriesAreLists
  /\ Preparing!PlansAreClosed /\ Preparing!CodecsAreLists

-----------------------------------------------------------------------------

ReleaseParts == {"race", "check", "choice", "distribution", "preparation", "memory", "control",
                 "library", "provision"}

ReleaseInit ==
  /\ IF part = "check" THEN Verification!BundleInit ELSE Race!BundleInit
  /\ IF part = "choice" THEN Selection!SelectionInit
     ELSE candidates = <<>> /\ runtimes = <<>> /\ turn = 1 /\ chosen = 0 /\ rejected = {}
  /\ Distribution!DistributionInit
  /\ IF part = "preparation" THEN Preparing!PreparationInit
     ELSE /\ plan = "none" /\ build = "none" /\ prepareAt = "none" /\ class = "none"
          /\ instances = {} /\ catalog = {} /\ finished = {} /\ copy = <<>>
          /\ preparedWorker = <<>> /\ ran = <<>> /\ declared = <<>> /\ bound = {}
  /\ MemoryInit /\ ControlInit /\ Library!DylibInit /\ Provided!ProvidedInit

ReleaseNext ==
  \/ /\ \/ part = "race" /\ Race!BundleNext
        \/ part = "check" /\ Verification!BundleNext
     /\ UNCHANGED <<choice, distributions, preparations, memory, control, libraries, provisions>>
  \/ /\ part = "choice" /\ Selection!SelectionNext
     /\ UNCHANGED <<bundles, distributions, preparations, memory, control, libraries, provisions>>
  \/ /\ part = "distribution" /\ Distribution!DistributionNext
     /\ UNCHANGED <<bundles, choice, preparations, memory, control, libraries, provisions>>
  \/ /\ part = "preparation" /\ Preparing!PreparationNext
     /\ UNCHANGED <<bundles, choice, distributions, memory, control, libraries, provisions>>
  \/ /\ part = "memory" /\ MemoryNext
     /\ UNCHANGED <<bundles, choice, distributions, preparations, control, libraries, provisions>>
  \/ /\ part = "control" /\ ControlNext
     /\ UNCHANGED <<bundles, choice, distributions, preparations, memory, libraries, provisions>>
  \/ /\ part = "library" /\ Library!DylibNext
     /\ UNCHANGED <<bundles, choice, distributions, preparations, memory, control, provisions>>
  \/ /\ part = "provision" /\ Provided!ProvidedNext
     /\ UNCHANGED <<bundles, choice, distributions, preparations, memory, control, libraries>>

\* serve runs; so do a library's thread and the Host's, and the ends of a stream.
ReleaseFair ==
  /\ WF_control(part = "control" /\ ServeStep)
  /\ WF_libraries(part = "library" /\ (Library!WorkerStep \/ Library!Started))
  /\ WF_libraries(part = "library" /\ Library!StopStep)
  /\ WF_libraries(part = "library" /\ \E c \in {"c1", "c2", "c3"}: Library!CallStep(c))
  /\ WF_provisions(part = "provision" /\ Provided!ConsumerStep)
  /\ WF_provisions(part = "provision" /\ Provided!ProviderStep)

-----------------------------------------------------------------------------
(* Properties                                                              *)

\* From a builder's output to a prepared Generation, what runs is what was released: a Bundle is
\* verified only as it was at one time, or whole as one builder wrote it; the implementation is
\* the one the Host's policy names; the Artifacts are those of one locked release; the Instances
\* are bound as the Plan says; and a native library that was retired runs no more than the call
\* it is in.
RunsWhatWasReleased ==
  /\ part = "race" => Race!VerifiedWasThere /\ Race!OutputWhole
  /\ part = "check" => Verification!VerifiedWasThere /\ Verification!OutputWhole
  /\ part = "choice" => Selection!ChoiceIsThePolicys
  /\ part = "distribution" => Distribution!PreparedIsOneRelease
  /\ part = "preparation" => Preparing!PreparedAsPlanned
  /\ Library!OneLastCall
=============================================================================
