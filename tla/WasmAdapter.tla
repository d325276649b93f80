--------------------------- MODULE WasmAdapter ---------------------------
(***************************************************************************)
(* One Wasm Component generation (crates/lenso-wasm-component-adapter):    *)
(* the Host thread, the worker thread that owns the store and takes one    *)
(* command at a time from a queue of one, and the deadline thread, which   *)
(* the worker tells when guest code starts and stops running.              *)
(*                                                                         *)
(* A guest is ended by the engine's epoch: a command runs with a deadline  *)
(* one epoch away, and the epoch is advanced by the deadline thread when a *)
(* turn is over, by the guard of a call that ends early, and by stop.  The *)
(* epoch belongs to the engine and not to a command: epochDue says that it *)
(* was advanced since the running command set its deadline, whoever did    *)
(* it.                                                                     *)
(*                                                                         *)
(* External, as for QuickJS: the guest, the providers behind its imports,  *)
(* and the Kernel, which may cancel or drop a call at any await and        *)
(* deactivates a generation once none of its calls is in flight.           *)
(***************************************************************************)
EXTENDS HostImports, Sequences

CONSTANTS Calls,          \* the calls the Kernel makes; a stream is named by its open call
          MaxStreams,     \* limits.max_streams
          MaxImports,     \* limits.max_host_imports_per_call
          GuestImports,   \* bound: imports the guest makes in one call
          TimerBacklog    \* bound: commands the deadline thread may be behind

VARIABLES call,           \* per call: its task, its command and its channels
          session,        \* per open call: the stream session made from it
          active,         \* active_streams
          failed,
          epochDue,       \* the epoch passed the deadline the running command set
          life,           \* of the generation: loading, live, joining (stop waits), stopped
          queue,          \* the command channel
          worker,         \* what the worker thread is at, with which command and outcome
          timer,          \* the deadline thread: idle, armed, due (timed out), ended
          timerCommands,  \* its channel
          late            \* history: commands begun after the generation was retired

host == <<call, session, active, life>>
clock == <<timer, timerCommands>>
wasmVars == <<imports, host, failed, epochDue, queue, worker, clock, late>>

NoOp == [op |-> "none"]
Idle == [at |-> "idle", kind |-> "none", of |-> "none", outcome |-> "none", import |-> NoOp,
         reply |-> "none", made |-> 0]

\* A command: a call, the cancellation of a stream, or Shutdown.
CallCommand(c) == [op |-> "call", id |-> c]
CancelCommand(c) == [op |-> "cancel", id |-> c]
Shutdown == [op |-> "shutdown"]

WasmInit ==
  /\ ImportsInit
  /\ call = [c \in Calls |-> Idle] /\ session = [c \in Calls |-> "none"] /\ active = 0
  /\ failed = FALSE /\ epochDue = FALSE /\ life = "loading"
  /\ queue = <<>> /\ worker = [at |-> "loading", cmd |-> NoOp, out |-> "none"]
  /\ timer = "idle" /\ timerCommands = <<"arm">> /\ late = 0

HostFree == life \in {"live", "stopped"}
InFlight(c) == call[c].at \in {"waiting", "importing"}
Capacity == 1
\* The worker tells the deadline thread what to time.
CanTime(n) == Len(timerCommands) + n <= TimerBacklog
Tell(cmds) == timerCommands' = timerCommands \o cmds

CanSend == worker.at # "exited" /\ Len(queue) < Capacity

-----------------------------------------------------------------------------
(* Starting                                                                *)

\* The worker instantiates the component and calls describe, both bounded by a turn; the
\* declaration must be the one the Plan expects.  A worker that fails here drops its end of the
\* deadline thread's channel.
LoadWorker(r) ==
  /\ worker.at = "loading" /\ CanTime(1)
  /\ worker' = [worker EXCEPT !.at = IF r = "ready" THEN "idle" ELSE "exited"]
  /\ Tell(IF r = "ready" THEN <<"disarm">> ELSE <<"shutdown">>)
  /\ UNCHANGED <<imports, host, failed, epochDue, queue, timer, late>>

\* start returns what the worker said; the epoch ends a rejected worker, which is joined.
Loaded ==
  /\ life = "loading" /\ worker.at # "loading"
  /\ life' = IF worker.at = "exited" THEN "rejected" ELSE "live"
  /\ epochDue' = (epochDue \/ worker.at = "exited")
  /\ UNCHANGED <<imports, call, session, active, failed, queue, worker, clock, late>>

Activate ==
  /\ life = "live" /\ ActivateImports
  /\ UNCHANGED <<host, failed, epochDue, queue, worker, clock, late>>

-----------------------------------------------------------------------------
(* Calls                                                                   *)

SessionKinds == {"send", "receive"}  \* close_send is to the worker and the session what send is
GuestKinds == {"invoke", "open"} \cup SessionKinds

\* Why a call is refused before its command is sent: its stream was cancelled, no stream slot is
\* left, the generation is retired, the queue is full.
SubmitRefusal(k, s) ==
  IF k \in SessionKinds /\ session[s] = "cancelled" THEN "cancelled"
  ELSE IF k = "open" /\ active >= MaxStreams THEN "exhausted"
  ELSE IF failed THEN "retired"
  ELSE IF ~CanSend THEN "exhausted" ELSE "none"

\* invoke, open, and a session's send, receive and close_send up to their first await.  An open
\* reserves its slot first; a refusal gives it back, and changes nothing.  (A name is used again
\* once the worker is done with its last command.)
Submit(c, k, s) ==
  /\ HostFree /\ call[c].at = "idle"
  /\ k \in SessionKinds => session[s] \in {"open", "ended", "cancelled"}
  /\ k = "open" => session[c] = "none"
  /\ SubmitRefusal(k, s) = "none"
  /\ call' = [call EXCEPT ![c] = [Idle EXCEPT !.at = "waiting", !.kind = k, !.of = s]]
  /\ queue' = Append(queue, CallCommand(c))
  /\ active' = IF k = "open" THEN active + 1 ELSE active
  /\ UNCHANGED <<imports, session, failed, epochDue, life, worker, clock, late>>

Release(n) == IF n > 0 THEN n - 1 ELSE 0

\* WasmStreamSession::finish: gives the slot back once.
Finish(s, to) ==
  /\ session' = [session EXCEPT ![s] = to]
  /\ active' = IF session[s] = "open" THEN Release(active) ELSE active

\* What the caller gets for the outcome of its call.
ResultOf(k, out) ==
  IF out \in {"fail", "closed"} THEN "failed"
  ELSE IF out = "error" THEN IF k \in {"invoke", "open"} THEN "domain" ELSE "protocol"
  ELSE LET fits == CASE k = "invoke" -> TRUE
                     [] k = "open" -> out = "number"
                     [] k = "receive" -> out \in {"message", "terminal"}
                     [] OTHER -> out = "null"
       IN  IF fits THEN "ok" ELSE "protocol"

\* The slot of an open call and the session of a stream, once the outcome is known.
Settle(c, k, out) ==
  IF k = "open"
  THEN IF ResultOf(k, out) = "ok"
       THEN session' = [session EXCEPT ![c] = "open"] /\ UNCHANGED active
       ELSE active' = Release(active) /\ UNCHANGED session
  ELSE IF k = "receive" /\ out = "terminal" /\ session[call[c].of] = "open"
  THEN Finish(call[c].of, "ended")
  ELSE UNCHANGED <<session, active>>

\* The poll that finds the answer disarms the guard; a failed or lost answer retires the
\* generation.
Answer(c) ==
  /\ HostFree /\ call[c].at = "waiting" /\ call[c].outcome # "none"
  /\ call' = [call EXCEPT ![c] = Idle]
  /\ Settle(c, call[c].kind, call[c].outcome)
  /\ failed' = (failed \/ call[c].outcome \in {"fail", "closed"})
  /\ UNCHANGED <<imports, life, epochDue, queue, worker, clock, late>>

\* A call whose future ends early: the guard marks the command abandoned and advances the epoch
\* of the engine, whatever command it is that runs; the import channel closes and with it the
\* reply a blocked guest waits for.
Abandon(c) ==
  IF call[c].outcome # "none" THEN Idle
  ELSE [Idle EXCEPT !.at = "abandoned", !.made = call[c].made,
          !.reply = IF call[c].import # NoOp THEN "closed" ELSE call[c].reply]

\* The context is cancelled while the call waits: the generation is retired.
Cancelled(c) ==
  /\ HostFree /\ call[c].at = "waiting"
  /\ call' = [call EXCEPT ![c] = Abandon(c)]
  /\ failed' = TRUE /\ epochDue' = TRUE
  /\ active' = IF call[c].kind = "open" THEN Release(active) ELSE active
  /\ UNCHANGED <<imports, session, life, queue, worker, clock, late>>

\* The Kernel drops the future at an await: an open call keeps its slot.
Dropped(c) ==
  /\ HostFree /\ InFlight(c)
  /\ call' = [call EXCEPT ![c] = Abandon(c)]
  /\ epochDue' = TRUE
  /\ UNCHANGED <<imports, session, active, life, failed, queue, worker, clock, late>>

-----------------------------------------------------------------------------
(* Serving the guest's imports                                             *)

\* Which reply the guest reads is not tracked, only that it got one.
Replied(c) == [call[c] EXCEPT !.reply = "given", !.import = NoOp, !.at = "waiting"]

\* The task of the call takes the import; one too many, or one the tables refuse, is answered at
\* once, and so is one that awaits nothing.
TakeImport(c) ==
  LET i == call[c].import IN
  /\ HostFree /\ call[c].at = "waiting" /\ i # NoOp
  /\ \/ /\ call[c].made > MaxImports
        /\ call' = [call EXCEPT ![c] = Replied(c)] /\ UNCHANGED imports
     \/ /\ call[c].made <= MaxImports /\ Refusal(i) # "none"
        /\ call' = [call EXCEPT ![c] = Replied(c)] /\ UNCHANGED imports
     \/ /\ call[c].made <= MaxImports /\ Refusal(i) = "none" /\ ~Awaits(i)
        /\ call' = [call EXCEPT ![c] = Replied(c)] /\ Landed(i, "ok")
     \/ /\ call[c].made <= MaxImports /\ Refusal(i) = "none" /\ Awaits(i)
        /\ call' = [call EXCEPT ![c].at = "importing"] /\ UNCHANGED imports
  /\ UNCHANGED <<session, active, life, failed, epochDue, queue, worker, clock, late>>

\* The provider has answered.
ImportDone(c, r) ==
  /\ HostFree /\ call[c].at = "importing" /\ r \in Results(call[c].import)
  /\ call' = [call EXCEPT ![c] = Replied(c)]
  /\ Landed(call[c].import, r)
  /\ UNCHANGED <<session, active, life, failed, epochDue, queue, worker, clock, late>>

-----------------------------------------------------------------------------
(* Streams and the end of the generation                                   *)

\* cancel: the slot is given back; telling the guest is best effort, for the queue may be full.
CancelStream(s) ==
  /\ HostFree /\ session[s] \in {"open", "ended"}
  /\ Finish(s, "cancelled")
  /\ queue' = IF CanSend THEN Append(queue, CancelCommand(s)) ELSE queue
  /\ UNCHANGED <<imports, call, failed, epochDue, life, worker, clock, late>>

\* The last reference to the session goes; a call of the stream holds one.
DropSession(s) ==
  /\ HostFree /\ session[s] \in {"open", "ended", "cancelled"}
  /\ \A c \in Calls: InFlight(c) => call[c].of # s
  /\ Finish(s, "none")
  /\ UNCHANGED <<imports, call, failed, epochDue, life, queue, worker, clock, late>>

\* deactivate closes the imports, then stop: Shutdown if the queue has room, epoch, join.
Deactivate ==
  /\ life = "live" /\ \A c \in Calls: ~InFlight(c)
  /\ DeactivateImports
  /\ epochDue' = TRUE
  /\ queue' = IF CanSend THEN Append(queue, Shutdown) ELSE queue
  /\ life' = "joining"
  /\ UNCHANGED <<call, session, active, failed, worker, clock, late>>

Joined ==
  /\ life = "joining" /\ worker.at = "exited" /\ life' = "stopped"
  /\ UNCHANGED <<imports, call, session, active, failed, epochDue, queue, worker, clock, late>>

-----------------------------------------------------------------------------
(* The worker thread                                                       *)

\* The outcome of a command reaches its caller, if there is one still.
Told(c, out) == IF call[c].at = "abandoned" THEN Idle ELSE [call[c] EXCEPT !.outcome = out]

\* The worker leaves its loop: it stops the deadline thread and waits for it.
Leaving ==
  /\ worker' = [at |-> "leaving", cmd |-> NoOp, out |-> "none"]
  /\ CanTime(1) /\ Tell(<<"shutdown">>)

\* The thread ends: the receiver goes, and the answers of the commands still queued with it.
Leave ==
  /\ worker.at = "leaving" /\ timer = "ended"
  /\ worker' = [worker EXCEPT !.at = "exited"]
  /\ queue' = <<>>
  /\ call' = [c \in Calls |-> IF \E n \in DOMAIN queue: queue[n] = CallCommand(c)
                              THEN Told(c, "closed") ELSE call[c]]
  /\ UNCHANGED <<imports, session, active, life, failed, epochDue, clock, late>>

\* recv: the next command, or the end on Shutdown.
Take ==
  /\ worker.at = "idle" /\ queue # <<>>
  /\ queue' = Tail(queue)
  /\ IF Head(queue) = Shutdown THEN Leaving
     ELSE /\ worker' = [worker EXCEPT !.at = "taken", !.cmd = Head(queue)]
          /\ UNCHANGED timerCommands
  /\ UNCHANGED <<imports, host, failed, epochDue, timer, late>>

Current == worker.cmd.id
IsCall == worker.cmd.op = "call"
Abandoned == IsCall /\ call[Current].at = "abandoned"

\* A call that was given up before its turn retires the generation without running.
Reject ==
  /\ worker.at = "taken" /\ Abandoned
  /\ failed' = TRUE
  /\ call' = [call EXCEPT ![Current] = Told(Current, "fail")]
  /\ Leaving
  /\ UNCHANGED <<imports, session, active, life, epochDue, queue, timer, late>>

Accept ==
  /\ worker.at = "taken" /\ ~Abandoned
  /\ worker' = [worker EXCEPT !.at = "accepted"]
  /\ UNCHANGED <<imports, host, failed, epochDue, queue, clock, late>>

\* The command begins with fuel and an epoch of its own: an advance of an earlier moment is
\* behind it.
Begin ==
  /\ worker.at = "accepted"
  /\ worker' = [worker EXCEPT !.at = "running"]
  /\ epochDue' = FALSE
  /\ CanTime(1) /\ Tell(<<"arm">>)
  /\ late' = IF failed THEN late + 1 ELSE late
  /\ UNCHANGED <<imports, host, failed, queue, timer>>

\* The guest calls an import: its turn stops, and it blocks while the call's task listens;
\* otherwise it is told at once that admission is closed, and a turn starts.
GuestImport(i) ==
  /\ worker.at = "running" /\ IsCall
  /\ call[Current].made < GuestImports /\ CanNumber(i)
  /\ IF InFlight(Current)
     THEN /\ CanTime(1) /\ Tell(<<"disarm">>)
          /\ call' = [call EXCEPT ![Current].import = i, ![Current].made = @ + 1]
          /\ worker' = [worker EXCEPT !.at = "blocked"]
     ELSE /\ CanTime(2) /\ Tell(<<"disarm", "arm">>)
          /\ call' = [call EXCEPT ![Current].made = @ + 1] /\ UNCHANGED worker
  /\ UNCHANGED <<imports, session, active, life, failed, epochDue, queue, timer, late>>

\* The reply, or the end of its channel, starts a turn.
Unblock ==
  /\ worker.at = "blocked" /\ call[Current].reply # "none"
  /\ worker' = [worker EXCEPT !.at = "running"]
  /\ call' = [call EXCEPT ![Current].reply = "none"]
  /\ CanTime(1) /\ Tell(<<"arm">>)
  /\ UNCHANGED <<imports, session, active, life, failed, epochDue, queue, timer, late>>

\* What a guest function may return: the types of the exports leave less room than JavaScript.
\* "fail" stands for a trap, a refusal by a stream export, a result over the limit or not JSON.
Outcomes ==
  IF ~IsCall \/ Abandoned THEN {"null", "fail"}
  ELSE CASE call[Current].kind = "invoke" -> {"value", "error", "fail"}
         [] call[Current].kind = "open" -> {"number", "error", "fail"}
         [] call[Current].kind = "receive" -> {"message", "terminal", "value", "fail"}
         [] OTHER -> {"null", "fail"}

Return(out) ==
  /\ worker.at = "running" /\ CanTime(1)
  /\ worker' = [worker EXCEPT !.at = "returned", !.out = out]
  /\ Tell(<<"disarm">>)
  /\ failed' = (failed \/ out = "fail")
  /\ UNCHANGED <<imports, host, epochDue, queue, timer, late>>

GuestReturn(out) == out \in Outcomes /\ Return(out)

\* The epoch has passed the command's deadline: the guest traps.
Trap == epochDue /\ Return("fail")

\* The outcome is sent, to nobody when the caller has gone.
Report ==
  /\ worker.at = "returned"
  /\ worker' = [at |-> "reported", cmd |-> NoOp, out |-> "none"]
  /\ call' = IF IsCall THEN [call EXCEPT ![Current] = Told(Current, worker.out)] ELSE call
  /\ UNCHANGED <<imports, session, active, life, failed, epochDue, queue, clock, late>>

\* A retired generation takes no further command.
Check ==
  /\ worker.at = "reported"
  /\ IF failed THEN Leaving
     ELSE worker' = [worker EXCEPT !.at = "idle"] /\ UNCHANGED timerCommands
  /\ UNCHANGED <<imports, host, failed, epochDue, queue, timer, late>>

-----------------------------------------------------------------------------
(* The deadline thread                                                     *)

\* Arm starts a turn, anew if one is running; Disarm ends it.
TimerTake ==
  /\ timer \in {"idle", "armed"} /\ timerCommands # <<>>
  /\ timer' = CASE Head(timerCommands) = "arm" -> "armed"
                [] Head(timerCommands) = "disarm" -> "idle"
                [] OTHER -> "ended"
  /\ timerCommands' = Tail(timerCommands)
  /\ UNCHANGED <<imports, host, failed, epochDue, queue, worker, late>>

\* The wait times out; only then is the epoch advanced, and by then another command may run.
TimerExpires ==
  /\ timer = "armed" /\ timer' = "due"
  /\ UNCHANGED <<imports, host, failed, epochDue, queue, worker, timerCommands, late>>
TimerFires ==
  /\ timer = "due" /\ timer' = "idle" /\ epochDue' = TRUE
  /\ UNCHANGED <<imports, host, failed, queue, worker, timerCommands, late>>

-----------------------------------------------------------------------------
(* The specification                                                       *)

ThreadStep ==
  \/ LoadWorker("rejected") \/ Take \/ Reject \/ Accept \/ Begin \/ Trap \/ Unblock
  \/ Report \/ Check \/ Leave
TimerStep == TimerTake \/ TimerExpires \/ TimerFires
TaskStep(c) == Answer(c) \/ TakeImport(c) \/ \E r \in Results(call[c].import): ImportDone(c, r)

WasmNext ==
  \/ ThreadStep \/ TimerStep \/ LoadWorker("ready") \/ Loaded \/ Activate \/ Deactivate \/ Joined
  \/ \E i \in ImportCalls: GuestImport(i)
  \/ \E out \in {"value", "number", "null", "message", "terminal", "error", "fail"}:
       GuestReturn(out)
  \/ \E c \in Calls:
       \/ TaskStep(c) \/ Cancelled(c) \/ Dropped(c) \/ CancelStream(c) \/ DropSession(c)
       \/ \E k \in GuestKinds: \E s \in Calls: (k \in SessionKinds \/ s = c) /\ Submit(c, k, s)

WasmSpec == WasmInit /\ [][WasmNext]_wasmVars

-----------------------------------------------------------------------------
(* Properties                                                              *)

Sessions == {c \in Calls: session[c] = "open"}
Opening == {c \in Calls: InFlight(c) /\ call[c].kind = "open"}

\* Every open stream, and every call that may still make one, holds a slot of its own, so a
\* stream that is finished, cancelled and dropped gives back one slot and never another's.
WasmSlotsHeld ==
  /\ Cardinality(Sessions) + Cardinality(Opening) <= active
  /\ active <= MaxStreams

\* A retired generation runs at most the one command that was queued behind the failure.
WasmRetiredRunsOnce == late <= 1

\* The one stop that does not return: its Shutdown found the queue full while the generation was
\* healthy, and the worker waits for a command that nobody sends.
Stranded == life = "joining" /\ worker.at = "idle" /\ queue = <<>> /\ ~failed

\* However long the guest loops, a call comes to an end, and so does the wait of the Host thread
\* for the worker in stop.
WasmWaits(c) == InFlight(c) \/ (life = "joining" /\ ~Stranded)
WasmLetsGo(c) == WasmWaits(c) ~> ~WasmWaits(c)

\* Once the deadline thread has caught up, it times guest code and nothing else: never an import,
\* which may wait for a provider as long as it takes, nor the time between commands.
WasmTimesGuests ==
  timerCommands = <<>> /\ timer = "armed" => worker.at \in {"loading", "running"}
=============================================================================
