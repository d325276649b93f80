----------------------------- MODULE Preparation -----------------------------
(***************************************************************************)
(* Preparing the Instances of a Plan (MultiExecutionCatalogFactory of      *)
(* lenso-plugin-control-plane, prepare of the adapters that run a guest in *)
(* the Host's process, and prepare_request_app of lenso-runtime-codec): a  *)
(* catalog of the adapters the Plan selects, a generation of every         *)
(* Instance, and the bindings of the Plan to what the generations serve.   *)
(*                                                                         *)
(* A codec is told apart by how much of the Plan's Capability it agrees    *)
(* with, a guest by whether it declares what the Plan says.  External: the *)
(* base catalog, the Kernel that calls prepare for every adapter of the    *)
(* catalog and recreates Instances, the guests; the other adapters (of a   *)
(* class that is not below) are not followed further.                      *)
(***************************************************************************)
EXTENDS Naturals, Sequences, FiniteSets

CONSTANTS Instances, Capabilities,
          Kinds,     \* Kinds[c]: "request", "stream", "event": the operations Capability c has
          Plans,     \* instance: of every Instance its class, Capabilities and form; bindings
          Products   \* what the product put into the Host

Guests == {"wasm", "quickjs", "dylib"}

\* A Plan's bindings are to its Instances, and what they provide is a Capability of the Host; the
\* codecs of a product are lists.
PlansAreClosed ==
  \A p \in Plans:
    /\ \A b \in p.bindings: b.provider \in Instances
    /\ \A i \in Instances: \A k \in DOMAIN p.instance[i].provides: p.instance[i].provides[k] \in Capabilities
CodecsAreLists == \A q \in Products: \A c \in Guests: IsFiniteSet(DOMAIN q.codecs[c])

VARIABLES plan, build,
          step, class, waiting,  \* the step, the class and Instances that are being prepared
          catalog,           \* the adapters, and those whose Instances are prepared
          finished,
          copy,              \* copy[i]: the Host's copy of the Artifact: admitted or changed
          thread, ran,       \* the thread of i and the content it runs
          declared,          \* what guest i declares: as_planned, otherwise, or none
          bound              \* prepared bindings, with the kind

preparation == <<plan, build, step, class, waiting, catalog, finished, copy, thread, ran, declared, bound>>

Nothing == [i \in Instances |-> "none"]

PreparationInit ==
  /\ plan \in Plans /\ build \in Products
  /\ step = "catalog" /\ class = "none" /\ waiting = {} /\ catalog = {} /\ finished = {}
  /\ copy = [i \in Instances |-> "admitted"]
  /\ thread = Nothing /\ ran = Nothing /\ declared = Nothing /\ bound = {}

Selected == {plan.instance[i].class: i \in Instances}
Of(c) == {i \in Instances: plan.instance[i].class = c}
Provides(i) == plan.instance[i].provides
Requires(i) == plan.instance[i].requires

\* An error drops what was prepared, and so stops the threads.
Refuse ==
  /\ step' = "failed" /\ waiting' = {} /\ bound' = {}
  /\ thread' = Nothing /\ ran' = Nothing /\ declared' = Nothing

-----------------------------------------------------------------------------
(* The catalog                                                             *)

\* The selected adapters the build knows are added to the base's.  A class cannot be there twice,
\* and a dylib needs a verifier; what is still missing must be left to an outer factory.
KnownClass(c) == c \in Guests \cup {"process", "remote"}
Assembled == build.base \cup {c \in Selected: KnownClass(c)}
CanAssemble ==
  /\ \A c \in Selected: KnownClass(c) => c \notin build.base
  /\ "dylib" \in Selected => build.verifier
  /\ Selected \subseteq Assembled \cup build.deferred

Assemble ==
  /\ step = "catalog"
  /\ IF CanAssemble
     THEN catalog' = Assembled /\ step' = "prepare" /\ UNCHANGED <<waiting, thread, ran, declared, bound>>
     ELSE Refuse /\ UNCHANGED catalog
  /\ UNCHANGED <<plan, build, class, finished, copy>>

-----------------------------------------------------------------------------
(* prepare_instance                                                        *)

\* The codecs that were registered for a class, in order.
Codecs(c) == build.codecs[c]
Registered(c, p) == {k \in DOMAIN Codecs(c): Codecs(c)[k].capability = p}
Duplicated(c) == \E p \in Capabilities: Cardinality(Registered(c, p)) > 1

\* The one that counts for Capability p: the last.  It agrees with the Plan's descriptor in all,
\* in its version only, or not even in that.
Agreement(c, p) ==
  IF Registered(c, p) = {} THEN "none"
  ELSE Codecs(c)[CHOOSE k \in Registered(c, p): \A l \in Registered(c, p): l <= k].agrees

CodecsForInstance(i) ==
  \A k \in DOMAIN Provides(i): Agreement(class, Provides(i)[k]) = "all"
CodecsForRequirements(i) ==
  \A p \in Requires(i): Agreement(class, p) \in {"all", "version"}

\* The checks of QuickJS and of Wasm before anything runs; the bytes are hashed again.
GuestAdmits(i) ==
  /\ plan.instance[i].form = "entry"
  /\ ~Duplicated(class)
  /\ copy[i] = "admitted"
  /\ CodecsForInstance(i) /\ CodecsForRequirements(i)
\* Wasm takes no guest of the second authoring version that requires anything.
WasmAdmits(i) == ~(plan.instance[i].authoring = 2 /\ Requires(i) # {})
\* A dylib is trusted by the digest it was admitted with.  A second codec just takes the place of
\* the first.
DylibAdmits(i) ==
  /\ plan.instance[i].form \in {"entry", "no_entry"}
  /\ i \in build.trusted /\ CodecsForInstance(i)

Admits(i) ==
  CASE class = "quickjs" -> GuestAdmits(i)
    [] class = "wasm" -> WasmAdmits(i) /\ GuestAdmits(i)
    [] class = "dylib" -> DylibAdmits(i)

BeginClass(c) ==
  /\ step = "prepare" /\ c \in catalog \ finished
  /\ IF c \in Guests /\ Of(c) # {}
     THEN class' = c /\ waiting' = Of(c) /\ step' = "instances" /\ UNCHANGED finished
     ELSE finished' = finished \cup {c} /\ UNCHANGED <<class, waiting, step>>
  /\ UNCHANGED <<plan, build, catalog, copy, thread, ran, declared, bound>>

\* The generation of Instance i gets a thread, and the Host's thread waits for it.
PrepareInstance(i) ==
  /\ step \in {"instances", "recreate"} /\ i \in waiting /\ \A j \in Instances: thread[j] # "loading"
  /\ IF Admits(i)
     THEN /\ thread' = [thread EXCEPT ![i] = "loading"] /\ ran' = [ran EXCEPT ![i] = copy[i]]
          /\ UNCHANGED <<step, waiting, declared, bound>>
     ELSE IF step = "recreate"
          THEN step' = "prepared" /\ waiting' = {} /\ UNCHANGED <<thread, ran, declared, bound>>
          ELSE Refuse
  /\ UNCHANGED <<plan, build, class, catalog, finished, copy>>

\* External: the guest.
GuestDeclares(i) ==
  /\ thread[i] = "loading" /\ declared[i] = "none"
  /\ \E d \in {"as_planned", "otherwise", "dead"}: declared' = [declared EXCEPT ![i] = d]
  /\ UNCHANGED <<plan, build, step, class, waiting, catalog, finished, copy, thread, ran, bound>>

\* A Capability can be declared once, and not with events.
Declarable(i) ==
  /\ \A k, l \in DOMAIN Provides(i): Provides(i)[k] = Provides(i)[l] => k = l
  /\ \A k \in DOMAIN Provides(i): "event" \notin Kinds[Provides(i)[k]]

\* Ready: the declaration is the Plan's; else the thread is joined.
Loaded(i) ==
  /\ thread[i] = "loading" /\ declared[i] # "none"
  /\ IF declared[i] = "as_planned" /\ (class = "dylib" \/ Declarable(i))
     THEN /\ thread' = [thread EXCEPT ![i] = "ready"] /\ waiting' = waiting \ {i}
          /\ step' = IF waiting # {i} THEN step ELSE IF step = "recreate" THEN "prepared" ELSE "bind"
          /\ UNCHANGED <<ran, declared, bound>>
     ELSE IF step = "recreate"
          THEN /\ thread' = [thread EXCEPT ![i] = "none"] /\ ran' = [ran EXCEPT ![i] = "none"]
               /\ declared' = [declared EXCEPT ![i] = "none"]
               /\ step' = "prepared" /\ waiting' = {} /\ UNCHANGED bound
          ELSE Refuse
  /\ UNCHANGED <<plan, build, class, catalog, finished, copy>>

-----------------------------------------------------------------------------
(* prepare_request_app                                                     *)

\* The endpoints of Instance i of a kind: places of its Capabilities.  A dylib has an endpoint for
\* requests, whatever its Capability has.
Endpoints(i, kind) ==
  IF plan.instance[i].class = "dylib"
  THEN {k \in DOMAIN Provides(i): kind = "request"}
  ELSE {k \in DOMAIN Provides(i): kind \in Kinds[Provides(i)[k]]}
Serves(i, kind, p) == \E k \in Endpoints(i, kind): Provides(i)[k] = p

Duplicate(i) ==
  \E kind \in {"request", "stream"}: \E k, l \in Endpoints(i, kind):
    k # l /\ Provides(i)[k] = Provides(i)[l]

\* Mutant: a binding that has a request endpoint is not looked at for streams.
FirstKind(b) == {kind \in {"request", "stream"}: /\ Serves(b.provider, kind, b.capability)
                                                /\ kind = "stream" => ~Serves(b.provider, "request", b.capability)}

BoundKinds(b) == {kind \in {"request", "stream"}: Serves(b.provider, kind, b.capability)}

PrepareRequestApp ==
  /\ step = "bind"
  /\ LET provided == {b \in plan.bindings: b.provider \in Of(class)} IN
       IF (\E i \in Of(class): Duplicate(i)) \/ (\E b \in provided: BoundKinds(b) = {}) THEN Refuse
       ELSE /\ bound' = bound \cup UNION {{<<b, kind>>: kind \in BoundKinds(b)}: b \in provided}
            /\ step' = "prepare" /\ UNCHANGED <<waiting, thread, ran, declared>>
  /\ finished' = finished \cup {class}
  /\ UNCHANGED <<plan, build, class, catalog, copy>>

\* External: the Kernel has every adapter's part.
Prepared ==
  /\ step = "prepare" /\ catalog = finished /\ Selected \subseteq catalog /\ step' = "prepared"
  /\ UNCHANGED <<plan, build, class, waiting, catalog, finished, copy, thread, ran, declared, bound>>

\* External: the Kernel stops Instance i and asks for another generation of it.
Recreate(i) ==
  /\ step = "prepared" /\ plan.instance[i].class \in Guests /\ thread[i] = "ready"
  /\ step' = "recreate" /\ class' = plan.instance[i].class /\ waiting' = {i}
  /\ thread' = [thread EXCEPT ![i] = "none"] /\ ran' = [ran EXCEPT ![i] = "none"]
  /\ declared' = [declared EXCEPT ![i] = "none"]
  /\ UNCHANGED <<plan, build, catalog, finished, copy, bound>>

\* External: somebody writes to the Host's copy.
CopyChanges(i) ==
  /\ copy[i] = "admitted" /\ copy' = [copy EXCEPT ![i] = "changed"]
  /\ UNCHANGED <<plan, build, step, class, waiting, catalog, finished, thread, ran, declared, bound>>

PreparationNext ==
  \/ Assemble \/ PrepareRequestApp \/ Prepared
  \/ \E c \in catalog: BeginClass(c)
  \/ \E i \in Instances: PrepareInstance(i) \/ GuestDeclares(i) \/ Loaded(i) \/ Recreate(i) \/ CopyChanges(i)

PreparationSpec == PreparationInit /\ [][PreparationNext]_preparation

-----------------------------------------------------------------------------
(* Properties                                                              *)

\* What is prepared is the Plan, however far preparation or a recreation got before: every binding
\* to a Wasm or QuickJS Instance is there with each kind its Capability has, no other is, and its
\* generation runs the admitted bytes, declared what the Plan says and speaks by the only codec
\* registered for it.  (A dylib's bindings are of requests alone, whatever the Capability has.)
PreparedAsPlanned ==
  step = "prepared" =>
    /\ {x \in bound: plan.instance[x[1].provider].class # "dylib"} =
         {<<b, kind>>: b \in {d \in plan.bindings: plan.instance[d.provider].class \in {"wasm", "quickjs"}},
                       kind \in {"request", "stream"}}
           \ {x \in plan.bindings \X {"request", "stream"}: x[2] \notin Kinds[x[1].capability]}
    /\ \A i \in Instances: thread[i] = "ready" =>
         /\ declared[i] = "as_planned"
         /\ plan.instance[i].class # "dylib" =>
              /\ ran[i] = "admitted"
              /\ \A k \in DOMAIN Provides(i): Cardinality(Registered(plan.instance[i].class, Provides(i)[k])) = 1
=============================================================================
