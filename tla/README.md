# Verification of the Lenso runtime (Rust)

TLA+ models, TLC runs and TLAPS proofs for `lenso-runtime-rust`. The models are
translated from the source under `src/`; line numbers below refer to it. The
Kernel (`lenso-kernel`) and the App plan (`lenso-app-plan`) are external crates.

## 1. Inventory

### 1.1 The control plane (`crates/lenso-plugin-control-plane`, `crates/lenso/src/host.rs`)

| Component | State | Operations | Interacts with |
|---|---|---|---|
| Durable control state (`durable.rs`) | one `DurableControlState` per App: revision, supervisor epoch, routing epoch, suspended flag, route, one record per Generation | `load`, `compare_and_swap` (memory and file stores), `validate` | shared by every Host incarnation of an App |
| Durable Supervisor (`durable_supervisor.rs`, `host_suspension.rs`) | its copy of the durable state; a slot map of live runtimes with lease counts | `open`, `recover`, `replace_suspended_host`, `transition`, `rollback`, `lease_at_epoch`, lease drop, `maintain` (failure detection, drain, standby, retirement), `begin_shutdown`, `suspend_host`, `drain_and_suspend_host` | the store, `GenerationRuntime`s, the clock |
| Controller (`controller.rs`) | command queue of 64, suspension watch, interval timer, shutting-down flag, published state and events | `run` (select loop), `handle_command`, `start_shutdown`, suspension requests, `join` | owns one Supervisor; serves many clients |
| Host facade (`host.rs`) | Controller task handle | `build`/`recover`/`replace_suspended` then `start`; `shutdown`, `suspend`, `drain_and_suspend`, `join_consistent` | Controller |
| In-memory Supervisor (`supervisor.rs`) | routed digest and epoch, a slot per staged Generation with its status and lease count | `transition`, `rollback`, `close_rollback_window`, `retire`, `lease` | `GenerationRuntime`s |
| Host control (`lenso/src/host/control.rs`) | a reader task with a channel of 8 and a stop watch; the announced revision | `serve`, `session`, `read_requests`, `emit` | a native owner behind two pipes, one Host and its other clients |
| Validation (`validate_edge`, `validate_state_compatibility`, `canonical.rs`, `resolver.rs`) | none | pure | used by both Supervisors |

What is hard: an operation of the Supervisor is a sequence of commits and
awaits; a crash, a fenced commit, an I/O error *after* the write took effect, a
terminal runtime failure, a lease drop on another thread or the clock may come
between any two. Two Host processes may hold the same store. A Host that starts
later must handle whatever state the last one left.

What makes it correct: only one Supervisor can still commit; an epoch identifies
one route (or one incarnation) for good; a runtime with open leases is not
stopped before its drain deadline; slots and records agree whenever the
Controller is between operations; a failed Generation is not left routed; a
suspended App has no runtime; drains, shutdowns and suspensions end.

### 1.2 Execution

| Component | State | Hard part | Correctness |
|---|---|---|---|
| Replicated runner (`lenso-runner/src/replicated*`) | one thread and Kernel per lane, shared admission, terminal cell, transfer and interaction tables | lanes start, fail and stop on threads of their own; a ready deadline; transfers between lanes race the stop of either | every call admitted is answered once; one terminal failure brings all lanes down; shutdown ends |
| Process owner (`process_owner/*`) | guard process, relay sockets, child | the guard must outlive and reap the child whatever dies first | termination proof only after the child is gone |
| Remote adapter (`lenso-remote-adapter`) | pending table, uncertain cancels, two bounded queues, a state word per request, worker threads | caller's drop guard, workers and shutdown move the same state word and tables | no table leaks; an orphaned call stays known until it is cancelled; nothing is posted after the end; a shutdown ends without working off the queue |
| Process adapters v1/v2 and SDK | pending table, reader thread, child process, lifecycle phase | reader failure against insertion into the pending table; deadlines against late frames | every call ends; no call is answered with another's result |
| QuickJS and Wasm adapters, imports (`lenso-quickjs-adapter`, `lenso-wasm-component-adapter`, `JsonHostImports`) | a queue of one, a worker thread that owns the engine, interrupt flags or an epoch and a deadline thread, stream slots, the tables of imports and host streams | calls are given up, time out and import while the guest runs; stop against a looping guest; one interrupt for whatever runs | limits hold, a retired generation runs one more command at most, callers and the Host thread are let go |
| Dylib adapter (`lenso-dylib-adapter`) | a queue of one, a worker thread with the library, flags `failed` and `busy` | native code cannot be interrupted: stop must decide whether to join | a retired library is entered once more at most; nobody waits for a worker that is not inside it |
| Guest SDK (`lenso-guest-sdk`) | binding table, clients, stream handles, session ids | handles dropped, finished or abandoned while the Host's table moves on | the guest's handles are the Host's streams |
| Provider streams (`lenso/src/provider_stream.rs`) | a bounded channel each way, a cancellation, flags of both ends | futures judged when made and acting when polled; drops; several receives | the outcome is the last word; an end that left holds nobody |
| Workers runtime (`packages/workers-runtime`) | one Wasm instance per generation, the pending events, a quarantine, a timer per event, a scope of native I/O each | all events share the instance; a trap or deadline of one rejects all; native I/O and timers outlive their generation | nothing is admitted while an abandoned event may have native I/O; admission opens again; every event ends |

### 1.3 From a release to a Generation

| Component | State | Hard part | Correctness |
|---|---|---|---|
| Plugin Bundles (`lenso-plugin-bundle/src/lib.rs`) | a directory: Manifest and Artifacts | builders race and die; files change under the verifier between its looks | what is verified was there; an output is whole |
| Implementation selection (`selection.rs`) | candidates, admissions, reasons | order of preference against ambiguity and refusals | the choice is the Host's policy's |
| Host distribution (`lenso-host-distribution`, `ArtifactHandle`, `resolver.rs`) | the lock, the resolver's process and pipes, open files and copies | nothing is locked: an updater replaces and rewrites files meanwhile | a prepared Generation is of one release |
| Preparation (`multi_execution.rs`, `prepare` of the adapters, `prepare_request_app`) | the catalog, a worker per Instance, prepared bindings | codecs missing, duplicated or of another version; guests that declare something else; recreation | what is prepared is the Plan |

Encodings, macros, SDK types and drivers hold no protocol state; PROJECT.json lists them with
the reason they are left out.

## 2. Modules and how they correspond to the code

* `ControlState` - the durable state and the pure updates the Supervisor builds
  from it, one operator per update (`StageCandidate`, `Switch`, `Roll`,
  `FenceActive`, `BeginShutdown`, `ReplaceSuspended`, ...). A Generation is its
  digest and a transition its content, as in the code, where digests are
  content-addressed. `"Absent"` stands for a digest without an entry.
* `DurableSupervisor` - a set of Hosts over one store. `mem[h]` is
  `self.state`, `slots`/`leases` the slot map and its counters, `dead` the
  runtimes whose `terminal_failure()` answers, `plan[h]` the `next` that
  `recover` builds up, `op[h]` the operation in progress with its local variables.
  A commit and the code up to the next await or commit are one action.
  `Commit`/`CommitFails` is `commit()`: it succeeds, is refused (fenced, or
  `validate` rejects the state), or fails with an I/O error before or after
  the rename (`FileControlStateStore::write_locked` reports a failed directory
  fsync *after* the rename, 235-255). What the Controller does with an error is
  part of the action: it replies to a failed command and goes on, and it ends
  after a failed `maintain`, `begin_shutdown`, or unclean suspension.
  `expect("...")` that fails is `Panic`.
* `SupervisorProperties` - everything promised of it, and the inductive invariant.
* `GenerationRouting` - the abstract specification: a stage per Generation, one route
  and its epoch, changed by withdrawing, nominating and switching. A caller that
  pins a route relies on nothing else. `SupervisorProperties!ImplementsRouting`
  is the refinement: stages are the lifecycles of the stored records.
* `Controller` - the loop of `controller.rs` and its clients. `kind`/`at`/`answer`
  is a call as its caller sees it, `queue` and `open` the `mpsc` channel,
  `request` the suspension watch (the call whose deadline it holds), `result` the
  suspension result watch, `loop` where `run` stands, `owed` its
  `shutdown_replies`. The biased `select!` is three steps: `Poll` (the suspension
  branch), then one of `Tick`, `Receive`, `ChannelClosed` or `Park`, so that a
  suspension may be requested after its branch was polled. `Return` is `run`
  returning: the receiver and every reply not sent are dropped. An operation of
  the Supervisor is a duration and an outcome here; `DurableSupervisor` says
  what is in it, and the two meet at the outcomes (success, rejection, another
  error, panic).
* `RemoteWorkers` - one Remote Generation. Its threads share a state word per request,
  the pending table, the uncertain cancels and two bounded queues, each under its
  own lock or atomic; a step is what a thread does from one such access to the next.
  `caller`/`reply` is an invoke future and its oneshot channel, `workerAt`/`workerId`
  and `cancellerAt`/`cancellerId` the program counters of the two kinds of workers,
  `handAt` where the App's thread is in `RemotePendingGuard::drop`, `spawn_cancel` or
  `begin_stop` (it runs one at a time), `job` the shutdown job. `heard` is a ghost.
  `Invoke` is one step although it takes the pending lock and then tries the queue: in
  between, other threads can only make room, and `Invoke` might as well have come later.
* `ProcessV1` - one generation of the Process adapter, protocol 1, and its child: the
  pipes, the child's serial loop (`serve_with_limit`), the reader thread, the Host
  thread and the pending table. What the Host does between two awaits is one step for
  its other tasks but not for the reader, hence the guard `HostFree`: while one call is
  between two accesses of the shared state (`failed`, `stopped`, the table), no other
  Host task moves. `nextId` has the width of the code's counter (3 instead of 2^64).
* `ProcessWire`, `ProcessHostV2`, `ProcessGuestV2` - protocol 2: the two pipes and the
  frames with their scopes (`construct`, `cleanup`, invocations, outbound calls), the
  Host's side (`crates/lenso-process-adapter/src/v2.rs`: lifecycle, pending table, reader,
  monitor, termination timers, imports) and the child's (`crates/lenso-process-sdk/src/v2.rs`: the
  main loop, one thread per piece of work). `ProcessSession` composes them over one wire.
  `MCProcess` runs either protocol: `part` says which, and the other one rests.
* `LaneSet` - a replicated App (`lenso-runner/src/replicated.rs`, `terminal.rs`, `admission.rs`,
  `transfer.rs`). `owner` is where the caller of `start` stands and later the holder of the App,
  `handle[l]` the `LaneHandle` whose senders a lane's thread waits on, `thread[l]`/`report[l]`
  the thread and its startup channel, `outcome[l]` its answer to the shutdown, `failure` the
  terminal cell. `queue` is the command channel of the provider's lane, `call`/`task` the two
  sides of one call, `signalled`/`watch` the `TransferredCancellation` word and the future
  that polls it, in the three accesses of its `poll`.
* `LaneStreams` - streams between lanes (`interaction_transfer.rs`): `table` is
  `stream_sessions` of the provider's lane, `word` the cancellation word both lanes see,
  `cleaner` the cleanup task.
* `ProcessOwner` - `lenso-process-owner` (`process_owner/mod.rs`, `relay.rs`, `wire.rs`): `main` is
  where `run`, `settle` and `finish` stand; the other variables are the threads that read and
  write the control pipes and the relay, the queues between them, and the group (`leader`,
  `others`). `StopFits` says whether the stop frame fits into the child's pipe.
* `RootGuard` - the registry of roots (`process_owner/guard.rs`): two files per owner, each with a
  lock and a record. Their order of locking, marking, settling and releasing is the code's;
  a helper may be killed (`Ends`) between any two accesses, a group lives on.
* `HostImports` - the imports of a guest (`JsonHostImports` of the runtime codec): `bindings` is
  its `Option` of the binding table, `hostStreams`/`nextHostStream` its table of streams. What an
  import needs no provider for is `Refusal`; what it does when the provider answers is `Landed`.
* `QuickJsAdapter`, `WasmAdapter` - one generation each, on top of `HostImports`. A call is a task
  of the Host thread (`call[c]`: where it awaits, its import, its reply), `queue` the `sync_channel(1)`,
  `worker` what the worker thread is at. `interrupt` and `turnOver` are QuickJS's interrupt flag
  and turn clock; `epochDue` says that the Wasm engine's epoch has passed the deadline of the
  running command, `timer`/`timerCommands` are the deadline thread. `active` is the count of streams.
* `GuestSdk` - the guest's side of `HostImports`: an import and what the SDK does with its reply are
  one step, because the guest is blocked meanwhile. `handles[s]` is a `GuestStream` and its
  `finished` flag, `nextId`/`sessions` the `GuestSessions` a plugin keeps for what it provides.
* `DylibAdapter` - `worker` and `job` are the native worker thread, `failed`/`busy` the atomics,
  `host` the Host's thread in `start` and `stop`. What the Host's thread does between two awaits is
  split only where the worker may come between (`CheckRetired` and `Submit`).
* `ProviderStream` - `input[s]`/`receive[r]` are futures of the consumer, `doing`/`item` what the
  provider's task awaits. An item is in its queue at once and its sender waits until it is among
  the first `Capacity`, as `futures::channel::mpsc` does.
* `GenerationSupervisor` - the in-memory Supervisor. `pending`/`edge` are the awaits of `transition`
  and `retire`, which borrow it; `held` are the leases, each counted by the slot it was taken from
  (`staged` tells two slots of one digest apart). It implements `GenerationRouting` as the durable one does.
* `ApplicationControl` - `reader`/`requests`/`stop` are the reader's task, its channel and its
  watch, `serving` where `serve` is, `line` the frames it is about to write, `host` the Host behind it.
* `PluginBundle` - a file system of inodes, builders up to their `rename`, and
  `verify_bundle_directory` in the steps in which it looks at the disk (inspect, open and read
  are three). `ImplementationSelection` - one step per admission of the policy.
* `HostDistribution` - `tree[n]` are the blocks at a path, by the release they are from; the Host's
  steps from `open` to the closed set of copies, the resolver's process, and an updater.
* `Preparation` - the catalog, `prepare_instance` with its checks in order, the guest's declaration, the
  bindings of `prepare_request_app`, `recreate`.
* `EventRunner` - the event runner of a Worker (`packages/workers-runtime/runner.mjs`) and its events'
  scopes (`scope.mjs`). `at[e]` is where `execute` stands, `admittedNow` is `pending`, `fenced`/`owners` the
  quarantine, `armed` the events whose `event.timer` runs, `late` (of `at`) an event whose finalizer could not
  confirm the release of its native I/O (`io`, `unreleased`). A step runs from one await to the next. Between the
  outcome of an event and its finalizer no timer fires, since both are microtasks. That `execute` finds a
  generation full and idle (109-114) is unreachable, because the last finalizer retires it (`RetiresWhenIdle`).
* `MCRunner` (with `MCRelease`), `MCAdapters`, `MCProcess` and `MCOwner` run modules side by side that
  share no state: `part` says which one a behaviour is of, the others rest in an initial state. `MCProcess`
  extends `ProcessV1` and `ProcessSession`, `MCAdapters` `RemoteWorkers` and `EventRunner`, `MCRunner` `LaneSet` and
  `GuestSdk`, and `MCRelease` `GenerationSupervisor` and `ApplicationControl`, so that the runs check the very formulas that are proved.
* `MCSupervisor`, `MCController` with their `.cfg` files - the other instances TLC checks.
* `SupervisorProofs` and `OrderProofs`, which is on top of it - the proofs about
  the durable Supervisor; `RemoteProofs` (`RemoteWorkers` and `EventRunner`), `ProcessProofs` (both
  protocols), `OwnerProofs` (`RootGuard`, `ProcessOwner`, `ApplicationControl`, `Controller`), `CallerProofs`
  (`GenerationSupervisor`, `LaneStreams`, `LaneSet`, `GuestSdk`, `ProviderStream`), `GuestProofs` (`QuickJsAdapter`,
  `WasmAdapter`, `HostImports`), `ReleaseProofs` (`PluginBundle`, `ImplementationSelection`, `HostDistribution`,
  `Preparation`, `DylibAdapter`) - the others.

Time: `now` is a bounded clock whose last instant stands for all later ones;
deadlines beyond it are clipped to it (`After`), so every deadline can pass.

One simplification of time: a pass of `maintain` uses the instant it was called
with, as the code does; `shutdown` of a runtime takes one step, whatever its
duration, and other steps may come before it.

## 3. Runs

Every bound is a constant of the `.cfg`: `MaxTime`, `MaxFaults` (over all kinds in
`FaultKinds`), `MaxCommands`, `MaxStarts`, `MaxLeases`.

| Run | Instance | Question |
|---|---|---|
| `lifecycle` | 1 Host, 3 Generations, 3 commands, 2 starts, 1 fault of stage/shutdown/terminal | do slots, records, leases, windows and failures stay consistent while the store works? Also checks all invariants of the proofs (`Orderly`) |
| `recovery` | up to 3 successive Hosts, 2 faults of all seven kinds, 3 commands | what does a crash or store error between any two steps leave behind, and does the store still implement `GenerationRouting`? |
| `fencing` | 2 concurrent Hosts, 3 starts, lost acknowledgements | who may still write? Also checks the part of the invariants that needs no hypothesis (`Inductive`) |
| `liveness` | 1 Host, fair scheduling, a terminal failure | do drains and shutdowns end, does a failed Generation lose the route? |
| `controller` | 3 calls of any kind, a channel of 1, fair scheduling | are callers told the truth about the end, do they agree, does admission stay closed, is every call answered, does a bounded suspension end the Host? |
| `adapters` | Remote: a cancellation still queued, 3 more requests, 2 invoke workers, 1 cancel worker, 2 places; QuickJS and Wasm: 2 calls and 1 stream without imports, 1 call with 3 imports (limit 2) of every kind and 1 host stream; a Worker with 2 events and places for both | do the tables leak, is an orphaned call forgotten, is anything posted after the end, does a guest adapter hold what it counted and no more, does a Worker admit past a quarantine or stay closed without cause? |
| `process` | protocol 1: 3 calls, 2 places, ids of width 3, 1 fault; protocol 2: 2 invocations, 1 outbound call, 1 place, 1 mishap; fair scheduling | is a call answered with its own result, does the generation fail only for a cause, do entries and children outlive their owner (`NothingLeft` of protocol 1, `EntriesHaveOwners` and `FailureHasCause` of protocol 2; the first two include the invariants of the proofs, `V1Inv` and `SessionInv`), does every call and every stop end? |
| `runner` | 2 lanes; 2 calls from outside, 1 transfer or 1 event between lanes, a queue of 1, 1 fault; 2 streams and 2 actions; a QuickJS guest with 2 calls, a Wasm guest with 1 call, a stream and imports; a guest with its SDK: 2 calls of 3 imports, 2 host streams, ids of 2 bits; a library with 3 calls, one too large; a provided stream with 1 send, 2 receives, 1 message, no buffer; and the parts of `MCRelease`: 2 builders, 2 edits during a verification; 2 candidates and 2 admissions; a distribution of 2 releases, 2 Artifacts and 2 updates; 7 Plans for 4 builds; 3 Generations and 2 leases; a control session with a channel of 1; a Worker with 2 events, whose generation takes one; fair scheduling | is an Ok shutdown clean, can what was retired tell, do both ends of a stream agree, is what runs what was released, do leases pin, does the in-memory Supervisor implement `GenerationRouting`, is an owner told the truth, do lanes, callers and streams end? |
| `owner` | the process owner with queues of 1 and 2, 2 frames, 1 fault; 2 owners, 2 paths, 2 directories, 1 rename; a Remote generation with 1 worker of each kind, 2 requests, 2 places; fair scheduling | is a confirmed end one, is a foreign process signalled, can a root have two executions or be lost, does what is told to stop end? |
| `panic`, `fallback`, `ownerstop` | 1 Host; 1 process owner | the findings of section 5 |

Why the bounds suffice: three Generations are the smallest instance with a
routed Generation, a retained predecessor and another one still draining, which
is what `OnePredecessor` and `FailureFencedAtRest` need; three commands reach
transition - transition - rollback; `DrainTimeout` 1 < `RollbackWindow` 2 lets
the two deadlines pass separately; one lease more than zero is the only
distinction the code makes. `MaxFaults = 2` lets a recovery from a fault fail too.
Generations are symmetric; liveness is checked without symmetry.
Two lanes are a caller and a provider; the calls of one behaviour are those of one of three
mixes (`CallMixes`), because calls of different kinds meet in the queue and the terminal state only,
which two routed calls cover. Two streams are what a clash of session ids needs. Two owners, two
paths and two directories give every way their files can overlap, one rename the case that a
path and its directory part.
For the Controller a channel of one (64 in the code) is full as soon as one command
waits; three calls are one being handled, one queued and one waiting for room, or
two callers of `drain_and_suspend` and a command; the proofs cover the rest.
For `RemoteWorkers` (4 invoke and 2 cancel workers, 64 places by default in the code) two workers
are what a race of workers needs, two places make both tables and both queues fill up,
and three requests leave one queued while two are in flight; workers are symmetric. For
the cancel queue to fill up while something is still pending, `adapters` starts
(`UsedInit`) after a first request that was given up and whose cancellation is queued.
For the guests one stream is a limit that a second open meets; an import over the limit of two
is refused; two calls are one that runs and one in the queue of one. With two builders and two
edits a file can be changed and changed back between two looks of the verifier; two blocks are
the least that can be read from two releases. A queue of one command (as in the code) and three
calls are one inside the library, one queued and one that is refused. Two events of a Worker are
one that fails and a peer that is abandoned with it (`adapters`), or one that waits for the other's
generation to retire (`runner`); 96 admissions, 32 waiting and 32 concurrent events are 1 or 2 here. The Plans of `MCRelease` name
each class, a Capability of two kinds, several bindings to one Instance, and each reason to refuse.
`CHECK_DEADLOCK FALSE` because a Host that is down may stay down and all budgets
can be spent.

The properties that relate slots to records (`RecordsHold`, `NoPanic`) hold only while no commit
fails with an I/O error and one Host is up at a time; under these two hypotheses they are proved
(section 4). With a store fault `NoPanic` and, after a failed commit, `SlotsMatchRecords` fail; the
run `panic` shows the first.

Fairness (`FairSpec`): the clock advances, `Tick(h)` and `Continue(h)` are weakly
fair - the tokio interval of `controller.rs` keeps firing and a future the
Controller awaits is polled. Nothing is assumed of operators, of clients that
hold leases (`Release` is not fair), of `RecoverRecord`, or of faults.

Fairness of `Controller`: the task is polled (`WF` of `Run`); ticks and commands
recur strongly fairly although `select!` is biased, because the interval uses
`MissedTickBehavior::Delay` and is assumed longer than a pass of `maintain` (if
passes took longer than the interval, ticks could starve commands); senders are
admitted in order by the channel's semaphore (`SF` of `Enqueue`); a shutdown in
progress ends, which is `ShutdownTerminates` of `DurableSupervisor`. Callers may
leave but need not, and nobody must drop the clients.

Fairness of `MCProcess`: a reader thread, the Host thread, each call's future, each
import, the child's main loop and each of its threads run (one `WF` each; a condition
covers the same kind of thread of both parts, since only one part moves). Callers that
cancel or leave, deadlines, faults and the termination timers are not fair. That an
import ends is assumed of the Kernel. `CallsSettle` is checked of one call: calls are
interchangeable, and each protocol has its own conjunct.

Fairness of `RemoteWorkers`: every thread runs (`WF` of `Worker`, `Canceller`, `Shutdown`,
`Hand`), which includes that an HTTP request ends - each has a timeout. A worker looks
at its flag before every request and at least every 10 ms, so `Exit` is strongly fair
against a queue that keeps it busy; so is polling an invoke future that has an answer.
Giving up, `Invoke` and `BeginStop` are not fair.

Fairness of `MCRunner`: the owner's thread (what it does after a decision to start, to shut down or
to drop), each lane's thread, the provider's tasks, each caller's future, the two ends of a
stream, the worker thread of a guest adapter, the Wasm deadline thread, the tasks of the calls, the
worker of a library when it is not inside the library, `serve`, the ends of a provided stream, and
the finalizer and the timer of each event of a Worker run (one `WF` each). A guest need not return, import or answer; it is ended by its turn's clock.
Faults, giving up, and the decision to shut down are not fair; that the Kernel's shutdown, the
start and the suspension of a Host end is assumed (each has a timeout). "Nobody waits for ever" is
one formula, `Waits ~> ~Waits`: the parts do not run together, so it says it of each. Its one
exception is `Stranded`, the stop of a guest adapter that section 5 describes.

Fairness of `MCOwner`: the main thread, the relay's writer (`StopFits`: a blocked writer is the
finding `ownerstop`), the input thread between its two stores, and the clock; neither the child,
nor its group, nor the launcher need ever move. The Remote part has the fairness above.

## 4. Proofs

Hosts, Generations, Reasons, workers, calls, lanes, owners and paths are arbitrary sets; the bounds are
arbitrary naturals. Assumptions on constants, each next to the constants it is about and evaluated by the
runs: `NoneAssumption`, `TimeAssumption`, `ReasonAssumption`, `BoundsAssumption` (`None` is not a
Generation, a number or a reason; timeouts and budgets are naturals), `QueueAssumption` (capacity at least
1), `CallsAssumption`, `RemoteAssumption`, `V1Assumption` (more than one id; "nobody" and the Host are not
calls), `SessionAssumption` (an invocation is not a lifecycle scope), `ControlAssumption` (ids up to a natural),
`RetirementAssumption` (`RetireAt` is 1 to `HardLimit`, as `runner.mjs:31-37` validates), `NumbersAssumption` (numbers of streams are
naturals, the first is 1; `IdCount` is a natural over 1). `RootGuard`, `ProcessOwner`, `LaneStreams` and `LaneSet` need none, and `GenerationSupervisor`
has `None \notin Generations` as a hypothesis of its two theorems, `GuestProofs` that the limits are naturals
(`LimitsAreNumbers`); calls, host stream numbers and imports are any there. The hypotheses of `ReleaseProofs` are
defined in the modules they are about: a Bundle that is found fits the files there are (`BundleFits`) and no builder is
the Host (`HostIsNoBuilder`); the odd feature is not one of the known (`OddIsUnknown`); inventories and codecs are lists
(`InventoriesAreLists`, `CodecsAreLists`); a Plan speaks of its own Instances and of the Capabilities there are (`PlansAreClosed`: what a
`ResolvedAppPlan` of the external `lenso-app-plan` is; `prepare_request_app` does not look at a binding to anybody else).
`ReleaseAssumption` (of `MCRelease`) has TLC evaluate them for the instances
of the run.

### 4.1 The durable Supervisor

All of it has one shape: a predicate of a step (`Sound`, `Tended`, `Neat`, `Hushed`, `Attends`),
a lemma that such a step preserves the invariant, and one lemma per action of `Next` that it is such
a step. The later predicates use the earlier invariants. Some results need hypotheses: `Exclusive` (one Host is
up at a time, the constant of the model), `StoreWorks` (no commit fails with an I/O error) and `NoCrash`.

| Theorem | States | Under |
|---|---|---|
| `Invariance`, `TypeCorrectness`, `Fencing`, `Incarnations` | `[]FencingInv`, `[]TypeOK`, `[]FencedOrExact`, `[]EpochOwners` | any number of Hosts, every fault |
| `Authority` | `[]SoleAuthority` | the same |
| `RoutingEpochs` | `RoutingEpochPinsGeneration` | the same |
| `RecordsMakeSense`, `InductiveHolds` | `[]RecordsInv`, `[]Inductive` | the same |
| `StoreRoutes` | `ImplementsRouting`: the store implements `GenerationRouting` | the same |
| `OneTarget` | `[]OnePredecessor` | the same |
| `PromisesKept` | `RuntimesKept`: leases and deadlines outlive what may stop a runtime | the same |
| `StaysQuiet`, `SuspendedIsQuiet` | `[]QuietInv`, `[]SuspensionQuiescent` | `Exclusive` |
| `SlotsHold`, `RecordsKept`, `NoneUnwinds` | `[]SlotsInv`, `[]RecordsHold`, `[]NoPanic` | `Exclusive`, `StoreWorks` |
| `AllInOrder`, `FailuresFenced` | `[]Orderly`, `[]FailureFencedAtRest` | `Exclusive`, `StoreWorks`, `NoCrash` |

The hypotheses are needed: the runs `panic` and `fallback` are the counterexamples without
`StoreWorks` and without `NoCrash`.

`SupervisorProofs`, first part: every update of `ControlState` `Follows` the state it is built from (same
supervisor epoch; the routing epoch does not go back, and if it stays the route stays or is
withdrawn), or, for the three first commits of a new Host, `TakesOver` (the next supervisor epoch).
Second part: every action is `Sound`: it leaves the store alone or replaces *exactly the state its author
had read*, by an update that follows it (`Advanced`), and the author's memory afterwards is what it
was, nothing, or the new durable state. Sound steps preserve `FencingInv`:

* `FencedOrExact` is not inductive alone: a successful compare-and-swap only
  compares revisions, so the types and `InitialRevision` (a Host that stops
  forgets its state; its empty memory has revision 0, which must mean the initial
  state) are needed.
* `EpochOwners` needs `FencedOrExact`: a Host that takes the next supervisor epoch
  takes it from the store it has read, and it is new only if that is the store.
* `RecoveryPlan` ties the state `recover` builds over many steps to the one it fenced.
* `EdgeKnown` gives the type of the edge a transition resumes with.

Third part, what is stored. `Sane` says that a state is one `validate()` accepts (`Closed`),
and that a live record names a transition from or to its Generation and has the deadline by which its
lifecycle is judged. One lemma per update (`...Changes`, `...Proper`) says under which guard it keeps a state
`Sane` and which step of `GenerationRouting` it is (nominate, switch, withdraw). That the guards hold
where the code commits is `Fits`: the candidate is Staged or Ready in the steps of a transition that need it
so (`TransitionFits`), the records a pass still has to visit are there (`PassFits`), and while `recover`
restages, the plan differs from memory by retired records and revisions only (`PlanFits`). `OnePredecessor`
follows from `Closed`, the refinement from the same lemmas. `KeptInv` adds what a runtime is stopped for:
a slot that an operation will stop is failed, past its deadline or without leases (`Justified`, `Unleasing`); lease
counts are of slots that are there (`LeasesFit`), and a Host starts in the steps of a start only (`ModeFits`).

`OrderProofs` is about what lives in memory. `SlotsInv`: the slot map of a running Host is exactly the live
records except those its operation has yet to bring in or has already shut down (`Expected`, `Away`).
It needs that the one Host that is up knows the durable state (`UpToDate`), which an I/O error after the rename
would break. `RecordsHold` and `NoPanic` follow at the places where the code looks. `QuietInv` says of the steps of a
Host whether its App is suspended and what it has in slots; it holds whatever the store does.
`FailuresDealtWith` says of each recorded failure of a live Generation that the pass has it at hand or in its
list, or that it is draining, so that nothing Failed is routed or kept when the pass is over; a crash between the two
commits of `mark_generation_failed` breaks it (section 5).

### 4.2 The other components

| Module | Theorem | States |
|---|---|---|
| `OwnerProofs` | `ControllerTypes`, `AgreeingAnswers`, `AdmissionCloses` | types, `[]AnswersAgree`, `AdmissionStaysClosed` |
| `RemoteProofs` | `TablesDoNotLeak`, `OrphansStayKnown`, `ClosedStaysClosed` | `[]TablesOwned`, `[]OrphansKnown`, `ClosedMeansClosed` |
| `RemoteProofs` | `EventsAreContained` | `[]EventsContained` |
| `ProcessProofs` | `V1Holds`, `OwnAnswers`, `NothingIsLeft` | `[]V1Inv`, `[]OwnAnswer`, `[]NothingLeft` |
| `ProcessProofs` | `SessionHolds`, `FailuresHaveCauses`, `OwnersOfEntries` | `[]SessionInv`, `[]FailureHasCause`, `[]EntriesHaveOwners` |
| `OwnerProofs` | `RootsAreExclusive`, `ConfirmedRootsAreFree` | `[]OneExecution`, `[]ConfirmationFrees` |
| `OwnerProofs` | `ConfirmationIsTrue`, `SignalsStayInGroup` | `[]ConfirmedIsGone`, `[]NoStraySignal` |
| `OwnerProofs` | `OwnersHearTruth` | `[]OwnerIsTold` |
| `CallerProofs` | `LeasesKept`, `SupervisorRoutes` | `[]LeasesPin`, `RoutesAlike` |
| `CallerProofs` | `OwnStreamOnly` | `[]OwnStream` |
| `CallerProofs` | `OkIsClean`, `OrphansAreTold` | `[]OkMeansClean`, `[]OrphansKnowIt` |
| `CallerProofs` | `HandlesAreStreams`, `SessionIdsAreFresh` | `[]HandlesMatchStreams`, `[]SessionIdsFresh` |
| `CallerProofs` | `OutcomeComesLast` | `[]OutcomeIsLast` |
| `GuestProofs` | `QuickHoldsSlots`, `QuickRetiresOnce`, `QuickImportsAreSound` | `[]QuickSlotsHeld`, `[]QuickRetiredRunsOnce`, `[]ImportTableSound` |
| `GuestProofs` | `WasmHoldsSlots`, `WasmRetiresOnce`, `WasmImportsAreSound` | `[]WasmSlotsHeld`, `[]WasmRetiredRunsOnce`, `[]ImportTableSound` |
| `GuestProofs` | `WasmTimesTheGuest` | `[]WasmTimesGuests` |
| `ReleaseProofs` | `OutputsAreWhole`, `VerifiedBundlesWereThere` | `[]OutputWhole`, `[]VerifiedWasThere` |
| `ReleaseProofs` | `PolicyChooses`, `PreparedGenerationsAreOneRelease` | `[]ChoiceIsThePolicys`, `[]PreparedIsOneRelease` |
| `ReleaseProofs` | `PlansArePrepared`, `LibraryRunsOneLastCall` | `[]PreparedAsPlanned`, `[]OneLastCall` |

The Controller (in `OwnerProofs`) has one inductive invariant, `ControllerInv`: what makes it
inductive is that only commands, never a `drain_and_suspend`, are queued, handled or
owed a reply, that a command being handled has a caller, and that nobody is told
of an end before `outcome` is set. Each action changes the calls either not at all
(`SilentKeeps`), by answering commands (`QuietKeeps`), or by returning (`ReturnKeeps`). That
admission stays closed is an action property, proved of each action from the same invariant.

`RemoteProofs` proves the two leak properties from `RemoteInv`. They are not inductive
alone: that a worker vouches for a pending entry until it removes it needs
`Distinct` (a request is in one place of the queue or with one worker), and that a
guard which read "dispatched" and still found the entry may mark the call needs
`Placed` (a dispatched state word has a worker that is calling) and `Removing` (between
the guard's two accesses the request cannot be back in the queue). `Stopping` says
that nothing is pending once `begin_stop` has taken the table.
A second invariant over it, `KnownInv`, is about calls whose caller is gone: a worker's call
that was abandoned is among the uncertain, unless its guard is just about to mark it (`Known`).
For that the guard must find its entry (`Found`), hence the pending table has every request that
is queued or with a worker and not abandoned, until `begin_stop` takes it (`Tracked`), and nobody
has been answered meanwhile (`Unanswered`). Once the Generation is closed, what is still queued is
about to be abandoned (`Closed`).
The Worker: `EventsContained` speaks of events whose generation was abandoned, and `EventInv` says how it comes to know
them. The pending events are those underway in this generation (`Pending`), the owners of a quarantine exactly the
stale ones (`Quarantine`), and a generation is closed for a quarantine or a failed reset only, and empty then
(`ClosedGeneration`). A watchdog needs `Watched`: it is stopped with its event's outcome but for the one that a
cancellation arms during the finalizer, which is why `overdue` is part of the invariant.

`ProcessProofs`, protocol 1: that a call gets its own answer follows from ids that are drawn once (`DrawnOnce`: also when
the counter wraps, because the generation fails at 0 before an id is drawn again) and from what names a call by
its id - entries, requests at the child, frames in the pipe (`Named`). That nothing is left needs in addition
which place the Host's thread is at (`HostFits`, `EndFits`), that a call which was sent, or is about to be, has its entry
until it is answered (`Held`), and, for the only way a call is stranded, that a child which keeps to the protocol answers
each request once and is dead when the reader ends (`Kept`). The two hard steps are the reader's: between
marking the generation as failed and taking the table out, the Host may still put an entry in.
Protocol 2: `SessionInv` is about two processes and two pipes. Whatever goes wrong, an invocation is being
sent only while the generation is active and a task that awaits an outbound call is still there (`TasksFit`);
a stop is the last frame to the guest but answers, it is obeyed only when nothing is active, and the report of it is the
last frame of all (`StopObeyed`); and a call that waits is on its way, active or settling (`Accounted`). Hence the
only call the reader leaves behind is one whose settlement a stop overtook. While nothing goes wrong,
`Agreed` says more: for each piece of work - an invocation, the construction, the cleanup - it says which frames
about it are in which pipe or channel and what its thread does (`Asked`, `Works`, `Ending`, `Settled`, `Rests`). Each step is
about one piece of work, and a frame that comes or goes keeps what is said of all others (`ApartKeeps`); so
every frame finds its receiver (`ReaderKeepsOrder`) and the generation fails only where the guest leaves:
at its limit of retired ids, or at a stop.

`OwnerProofs`, roots: `OneExecution` is not inductive, since it speaks of live groups only and an
owner may be gone while its group lives. `GuardInv` adds who holds which lock (`Holding`,
`Exclusive`), what the two records say at each step (`Written`), and that a live group's records
say "Owned" while no other owner has its files (`Kept`). The owner: the order of settlement carries both
properties. The leader is unreaped until the group was killed (`Unreaped`), a confirmed verdict comes after
an absent group, then the record, the release and the event (`Ordered`), and nothing is left to
do when the launcher hears "confirmed" (`ToldLast`).
A session of host control: `OwnerIsTold` is about frames that were written, so `ControlInv` says what each place of
the session must hold (`Talks`) and that the frames still on the line fit what went before (`Opens`, `Replying`,
`Concludes`). Answers are in order because ids grow from the frames over the request being answered to those
in the channel (`IdsGrow`); a last word stays true because the Host no longer changes once it is drained (`True`).
A Host that was announced is up only while `serve` will drain it or has lost events.

`CallerProofs`, leases: a lease pins its Generation because whoever leases at an epoch is on
a slot (`LeaseHasSlot`), the route is a Generation with an active slot (`RouteHasSlot`), and what
is awaited has no slot any more (`AwaitedOutside`). From the same invariant the in-memory Supervisor
implements `GenerationRouting`: one lemma per action shows that its step is a step of the abstract
routing or a stutter. Streams: ids are drawn once (`Drawn`) and a table has a stream under its
own id only (`Filed`), so that the two cleanups of an abandoned open meet nobody else's entry. Lanes: the
queue has each task once and only tasks of calls that were sent (`QueueFits`), hence a task that begins has a caller or its
cancellation; and `OkMeansClean` looks at the answers of the lanes and at the terminal cell at two times, which agree because a
lane that panicked or lost its callers never answers (`FailureFits`). A guest's handles: `HandlesMatchStreams` needs that
no stream or handle has a number that is yet to be given (`Numbered`), so that a new stream is not taken for one that was
dropped, and that a guest without bindings has nothing (`Untouched`). A provided stream: what was given and what
is still in the channel are one sequence (`Words`), whose last word the outcome is because `terminated` is set before it is
sent and refuses all that follows (`LastWord`); a receive fails only after the provider left (`Failures`).

`GuestProofs`: the two guest adapters are one design, so their steps are shown to be steps of three kinds which both
have - of the Host thread for a call (`HostStep`), of the generation's life (`LifeStep`), of the worker (`WorkerStep`) - and one
invariant, `GuestInv`, is proved of those. `GuestSlots` counts the open streams and the calls that are opening one: a call leaves the
second set when its outcome is settled, at which it becomes a stream or its slot may be given back, and a stream leaves the
first set once, although `finish` may be called three times. That the tables of imports stay sound although an open awaits
its provider after the limit was checked needs `Listening`: only the call the worker is blocked at has an import or a
reply, so no other import lands in between, and a deactivation finds no call in flight. The deadline thread is told last what is
the case (`TimerInv`), and takes what it is told in order.

`ReleaseProofs`: each part of `RunsWhatWasReleased` from an invariant of its own. A Bundle (`BundleInv`): an inode is at one
path at most, whatever others write, replace or remove (`FilesSound`), so that the inode a verification has opened is
at no path but the one it is reading, and its content, whenever it is read, has been at that path (`ReaderInv`); a file that was there all the time is summarized, being read or still to come
(`Listed`), and so nothing undeclared escapes the comparison. The output of builders (`OutputInv`) needs
that only a builder which published verifies. The choice (`SelectionInv`): before the current admission nothing is
compatible and whoever matched one has a reason. A distribution (`ReleaseInv`): after the resolver was heard to the end
nothing more comes of it, and an Instance that is no longer missing has its Artifact whole; a copy is kept only under a
digest, which a mixture of two releases has not. The preparation (`PreparationInv`): one Instance at most is loading and is
of the class at hand (`Loading`), the bindings that are there are those of the adapters that have finished (`Bound`), and whatever
has a thread passed the checks (`Admitted`), also when it is made anew. A native library: a worker that has entered a retired
library is past its last call (`LastCallInv`), because it looks at the flag before it takes another.

### 4.3 Only model-checked

Of `StreamsAgree`, `GuestsContained` and `RunsWhatWasReleased` each part is proved, as a theorem of its own module; that
they hold side by side is what the runs check.
`FailureFallsBack` and `OwnerEnds` do not hold (section 5). Everything about liveness (`DrainsEnd`,
`FailureLosesRoute`, `CallsAreAnswered`, `SuspensionEndsHost`, `CallsSettle`, `LifeEnds`, `LanesEnd`, `CallersAreReleased`, `StopsEnd`)
stays with TLC: the prover has no rule for fairness or `ENABLED`.

## 5. Findings

1. `panic` - a maintenance transition takes the predecessor's slot out and shuts it
   down (453-457) before the commit that clears the route (474). If that commit
   fails with an I/O error the Controller replies and goes on, with a route to a
   Generation without a slot; the next tick fails `expect("active slot must be
   live")` (733).
2. `fallback` - `mark_generation_failed` records the failure (690) and reacts to it
   in a second commit (709/713), where the comment at 719-721 promises an
   atomic switch. After a crash in between, `recover` routes the Failed
   Generation again and `reconcile_active_generation` returns early for it (730).
3. `ownerstop` - the relay's writer keeps the mutex of the stop slot while it writes the stop
   (`relay.rs:34`: the guard in the scrutinee of `if let` lives until the end of its body). When
   the child does not read its stdin, the main thread's `relay.stop(None)` (`mod.rs:92`) blocks on
   that mutex, so the deadline and the KILL never come, against `PROCESS_OWNER.md:52` ("outer
   cleanup escalates to KILL") and `:59` ("A blocked output writer cannot block cleanup").

Seen while modelling, without a run of its own:

* a record left Staged or Ready by a failed commit is not retired by a later shutdown (933-936,
  954-956), although the Host promises to retire all Generations (`lenso/src/host.rs:189`);
* a Cancel frame of protocol 2 that crosses the end of its invocation is answered `accepted =
  false`, which the Host takes for a breach of the protocol: it fails the whole generation
  (`lenso-process-adapter/src/v2.rs:952-957`), where `advisor-plans/f06-process-deadline-cleanup.md:12`
  says "explicit cancellation retains its existing request-level result semantics";
* `begin_stop` of the Remote adapter abandons the pending requests one by one (377-381) before
  the workers' stop flag is raised (673), so more ids may be collected than
  `take(REMOTE_INVOKE_WORKERS)` (385) keeps: a call in flight is then not cancelled, against the
  test `shutdown_prioritizes_every_dispatched_invoke_...` (1059);
* the process owner resolves the path of its root again when it spawns the child
  (`process_owner/mod.rs:32`): a rename after `acquire` makes it execute in a directory whose files
  it does not hold. `RootGuard` states what holds: of roots as their owners saw them.
* guest adapters: `stop()` puts its Shutdown in a queue of one with `try_send` and ignores a full
  queue. If a StreamCancel is in it the worker takes that, waits for a next command and never gets
  one, and `stop` joins it for ever (`lenso-quickjs-adapter/src/lib.rs:552`,
  `lenso-wasm-component-adapter/src/lib.rs:446`). This is `Stranded`, which `CallersAreReleased` excepts;
* QuickJS: the `interrupt.store(false)` at the start of a turn (928) erases an interrupt that a stop or a
  cancellation has just raised: that turn runs until its own limit;
* guest adapters: an open whose future is dropped, or that answers with an id that is not a u64, keeps
  its stream slot counted; the epoch of the Wasm engine is one for all that runs on it; a guest over its
  import limit is refused the cancel that dropping a stream handle sends, and the Host's stream stays,
  where `lenso-guest-sdk/src/lib.rs:818` says that cancel "releases its Adapter-local identity";
* the in-memory Supervisor stops the predecessor of a maintenance replacement before it knows whether
  the candidate can be staged at all;
* a bundle builder renames its output before it verifies it: after a failed verification the output stays, and
  the next build answers "already exists"; a crash leaves its `.lenso-plugin-` directory behind;
* a distribution: `bundles.json` and the resolver are read and spawned by path when they are needed,
  not compared with the lock again (`RunsWhatWasReleased` says what holds nevertheless); the deadline
  of the resolver covers its `try_wait` loop only, not the joins of the threads that drain its pipes, and
  an error of `try_wait` leaves the child running;
* Host control: a session that is overtaken by 64 events emits a terminal "failed" and returns
  Ok without shutting the Host down, although `lenso/src/host.rs:127` asks its caller to finish with
  `drain_and_suspend` or `shutdown`; a Controller that ends by an error sends no event;
* the dylib adapter: `stop` may join a worker that has just taken a call from the queue, because `busy` is
  set after that, although `lenso-dylib-adapter/src/lib.rs:394-396` says that a stuck worker is detached; a call whose
  caller gave up in the queue still runs once; one oversized request retires the generation; a
  second codec for a Capability silently replaces the first, which the other adapters refuse;
* provider streams: a send made before `close_send` and polled after it arrives after the
  `PeerHalfClosed`; a send counts as sent when the receiver is gone; a dropped `finish` leaves the
  stream without an outcome; of two concurrent receives the second hears "ended without a terminal
  outcome" after the first took the terminal;
* the Workers runtime: `session.cancel()` asks only whether its event is still pending (`runner.mjs:230-232`), which
  it is while its finalizer awaits the scope. A cancellation then arms a timer (153-156) that nothing clears; when
  it fires it abandons whatever generation there is: healthy peers are rejected, and if there are none
  the quarantine is an empty set that no release ever finds, so admission stays closed for good, where
  `packages/workers-runtime/README.md:180-182` says "keeps the replacement closed until every abandoned owner's cleanup
  confirms release". `EventRunner` has these steps; `ClosedForAReason` excepts them by the history variable
  `overdue`, and does not hold without it. A waiting event keeps its place of the rotation queue until it is
  finished (132-135).

## 6. Plan

In order of importance:

1. `ControlState`, `DurableSupervisor` and their proofs - done.
2. `GenerationRouting` and the refinement by `DurableSupervisor`, with its proof - done.
3. `Controller` and its proofs - done.
4. `RemoteWorkers` and its proofs - done.
5. `ProcessV1` with its proofs, and `ProcessSession` (`ProcessWire`, `ProcessHostV2`, `ProcessGuestV2`) - done.
6. `LaneSet`, `LaneStreams`, `ProcessOwner`, `RootGuard` and their proofs - done.
7. `GenerationSupervisor` (in memory), with the receipts of `validate_state_compatibility` - done.
8. Guest and dylib adapters, `GuestSdk`, `ProviderStream`; `ApplicationControl`; `PluginBundle`,
   `ImplementationSelection`, `HostDistribution`, `Preparation`; `EventRunner` - done.
9. Left: a Generation's runtime over the Kernel (`kernel_runtime.rs`), whose behaviour is mostly the
   external Kernel's; the HTTP side of the Workers runtime (`http.mjs`, `callback.mjs`); the limits of the runtime codec.

## 7. Not modelled

* Encodings and digests, schema versions, diagnostics and log text, and events (a broadcast of what the
  commits already show). A digest is the identity of what it is taken of.
* The native adapter and its macros, the runtime codec and the SDKs' typed layers: they generate or
  convert, and keep no state of their own.
* The Tokio driver, the browser and WASI drivers, the deterministic test kit: clocks, spawning and file I/O
  behind a trait; what they do is the environment of the models.
* Of the Workers package `host.mjs`, `http.mjs`, `request-body.mjs` and `callback.mjs`, which adapt `fetch` and a
  platform's bindings to the event runner; in `EventRunner` they are the operations and preparations.
* `ready_timeout` is part of "stage fails". `complete_drain` and `expire_rollback_window` of the durable
  Supervisor are called by tests only and repeat one record's share of `maintain`.

PROJECT.json lists every component, with the reason for those without a module.
