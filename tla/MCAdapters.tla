------------------------------ MODULE MCAdapters ------------------------------
(***************************************************************************)
(* A Remote generation (RemoteWorkers), the event runner of a Worker       *)
(* (EventRunner; this module extends both), and the generations of the two *)
(* byte-oriented guest adapters, side by side.  They share no state, so a  *)
(* behaviour runs one of them: `part' says which, and the others stay in   *)
(* their initial state.  Each guest adapter runs in two instances: two     *)
(* calls of a guest without imports ("quick2", "wasm2"), and one call of a *)
(* guest that uses every import ("quick1", "wasm1").                       *)
(***************************************************************************)
EXTENDS RemoteWorkers, EventRunner, TLC

CONSTANTS w1, w2, v1, c1, c2

VARIABLE part
VARIABLES bindings, hostStreams, nextHostStream, call, session, active, failed, life, queue,
          thread, late, interrupt, turnOver, epochDue, timer, timerCommands

TwoWorkers == {w1, w2}
OneCanceller == {v1}
AdapterSymmetry == Permutations(Workers) \cup Permutations({c1, c2})

QuickImports == {"bindings", "invoke", "open", "send", "receive", "close", "cancel"}
WasmImports == QuickImports \cup {"publish"}
Quick2 == INSTANCE QuickJsAdapter WITH worker <- thread,
  Calls <- {c1, c2}, MaxStreams <- 1, MaxImports <- 0, GuestImports <- 0,
  MaxHostStreams <- 1, StreamIds <- {1}, Kinds <- {}
Quick1 == INSTANCE QuickJsAdapter WITH worker <- thread,
  Calls <- {c1}, MaxStreams <- 1, MaxImports <- 2, GuestImports <- 3,
  MaxHostStreams <- 1, StreamIds <- {1, 2, 3}, Kinds <- QuickImports
Wasm2 == INSTANCE WasmAdapter WITH worker <- thread,
  Calls <- {c1, c2}, MaxStreams <- 1, MaxImports <- 0, GuestImports <- 0,
  MaxHostStreams <- 1, StreamIds <- {1}, Kinds <- {}, TimerBacklog <- 1
Wasm1 == INSTANCE WasmAdapter WITH worker <- thread,
  Calls <- {c1}, MaxStreams <- 1, MaxImports <- 2, GuestImports <- 3,
  MaxHostStreams <- 1, StreamIds <- {1, 2, 3}, Kinds <- WasmImports, TimerBacklog <- 2

guest == <<bindings, hostStreams, nextHostStream, call, session, active, failed, life, queue,
           thread, late>>
quick == <<interrupt, turnOver>>
wasm == <<epochDue, timer, timerCommands>>
remote == <<nextId, caller, reply, state, pending, uncertain, invokes, cancels, workerAt,
            workerId, cancellerAt, cancellerId, handAt, handId, prev, todo, stopped, halted,
            job, last, heard>>
adapters == <<part, remote, guest, quick, wasm, runnerVars>>

\* The Remote Generation after request 1: it was dispatched, given up and finished, and
\* its cancellation is still queued.
UsedInit ==
    /\ nextId = 2 /\ caller = [r \in Ids |-> IF r = 1 THEN "gone" ELSE "none"]
    /\ state = [r \in Ids |-> IF r = 1 THEN "finished" ELSE "queued"]
    /\ cancels = <<1>>
    /\ reply = [r \in Ids |-> "empty"] /\ pending = {} /\ uncertain = {} /\ invokes = <<>>
    /\ workerAt = [w \in Workers |-> "idle"] /\ workerId = [w \in Workers |-> 0]
    /\ cancellerAt = [v \in Cancellers |-> "idle"] /\ cancellerId = [v \in Cancellers |-> 0]
    /\ handAt = "free" /\ handId = 0 /\ prev = "queued" /\ todo = {}
    /\ stopped = FALSE /\ halted = {} /\ job = "none" /\ last = {} /\ heard = {}

\* Only the calls differ between the initial states of the guest instances.
AdaptersInit ==
  /\ UsedInit /\ RunnerInit
  /\ \/ part = "quick2" /\ Quick2!QuickInit /\ Wasm2!WasmInit
     \/ part = "wasm2" /\ Quick2!QuickInit /\ Wasm2!WasmInit
     \/ part \in {"remote", "quick1", "wasm1", "events"} /\ Quick1!QuickInit /\ Wasm1!WasmInit

AdaptersNext ==
  /\ UNCHANGED part
  /\ \/ part = "remote" /\ Next /\ UNCHANGED <<guest, quick, wasm, runnerVars>>
     \/ part = "quick2" /\ Quick2!QuickNext /\ UNCHANGED <<remote, wasm, runnerVars>>
     \/ part = "quick1" /\ Quick1!QuickNext /\ UNCHANGED <<remote, wasm, runnerVars>>
     \/ part = "wasm2" /\ Wasm2!WasmNext /\ UNCHANGED <<remote, quick, runnerVars>>
     \/ part = "wasm1" /\ Wasm1!WasmNext /\ UNCHANGED <<remote, quick, runnerVars>>
     \/ part = "events" /\ RunnerNext /\ UNCHANGED <<remote, guest, quick, wasm>>

AdaptersSpec == AdaptersInit /\ [][AdaptersNext]_adapters

\* A guest adapter gives each open stream a slot of its own and takes no more of them than the
\* limit, on either side of the guest; it runs one command at most once it has retired; and the
\* deadline thread of a Wasm guest times the guest only, never what the guest waits for.  In a
\* Worker nothing is admitted past an abandoned event that may still have native I/O, nor refused
\* without cause; a watchdog is its own event's; and a generation is retired in time.
GuestsContained ==
  /\ part = "quick2" => Quick2!QuickSlotsHeld
  /\ part = "quick1" => Quick1!QuickSlotsHeld
  /\ part = "wasm2" => Wasm2!WasmSlotsHeld
  /\ part = "wasm1" => Wasm1!WasmSlotsHeld
  /\ part \in {"quick1", "wasm1"} => Quick1!ImportTableSound
  /\ Quick1!QuickRetiredRunsOnce /\ Wasm1!WasmRetiredRunsOnce
  /\ part \in {"wasm1", "wasm2"} => Wasm1!WasmTimesGuests
  /\ EventsContained
=============================================================================
