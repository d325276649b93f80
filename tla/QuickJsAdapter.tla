--------------------------- MODULE QuickJsAdapter ---------------------------
(***************************************************************************)
(* One QuickJS generation (crates/lenso-quickjs-adapter): the Host thread, *)
(* on which calls, streams and the lifecycle run as cooperative tasks, and *)
(* the worker thread that owns the JavaScript runtime and takes one        *)
(* command at a time from a queue of one.                                  *)
(*                                                                         *)
(* A call is in flight between its command's try_send and the poll that    *)
(* finds its answer; meanwhile its task serves the guest's imports.  A     *)
(* step of the Host thread is what runs between two awaits.  The two       *)
(* threads share the queue, the oneshot and import channels of a call, and *)
(* the flags failed, interrupt and abandoned.                              *)
(*                                                                         *)
(* External: the guest, which runs, loops, imports and answers as it       *)
(* likes; the providers behind its imports; the Kernel, which may cancel   *)
(* or drop a call at any await and deactivates a generation once none of   *)
(* its calls is in flight.                                                 *)
(***************************************************************************)
EXTENDS HostImports, Sequences

CONSTANTS Calls,          \* the calls the Kernel makes; a stream is named by its open call
          MaxStreams,     \* limits.max_streams
          MaxImports,     \* limits.max_host_imports_per_call
          GuestImports    \* bound: imports the guest makes in one call

VARIABLES call,           \* per call: its task, its command and its channels
          session,        \* per open call: the stream session made from it
          active,         \* active_streams
          failed, interrupt,
          life,           \* of the generation: loading, live, joining (stop waits), stopped
          queue,          \* the command channel
          worker,         \* what the worker thread is at, with which command and outcome
          turnOver,       \* max_turn has passed since started
          late            \* history: commands begun after the generation was retired

host == <<call, session, active, life>>
quickVars == <<imports, host, failed, interrupt, queue, worker, turnOver, late>>

NoOp == [op |-> "none"]
Idle == [at |-> "idle", kind |-> "none", of |-> "none", outcome |-> "none", import |-> NoOp,
         reply |-> "none", made |-> 0]

\* A command: a call, the cancellation of a stream, or Shutdown.
CallCommand(c) == [op |-> "call", id |-> c]
CancelCommand(c) == [op |-> "cancel", id |-> c]
Shutdown == [op |-> "shutdown"]

QuickInit ==
  /\ ImportsInit
  /\ call = [c \in Calls |-> Idle] /\ session = [c \in Calls |-> "none"] /\ active = 0
  /\ failed = FALSE /\ interrupt = FALSE /\ life = "loading"
  /\ queue = <<>> /\ worker = [at |-> "loading", cmd |-> NoOp, out |-> "none"]
  /\ turnOver = FALSE /\ late = 0

HostFree == life \in {"live", "stopped"}
InFlight(c) == call[c].at \in {"waiting", "importing"}
Capacity == 1
CanSend == worker.at # "exited" /\ Len(queue) < Capacity

-----------------------------------------------------------------------------
(* Starting                                                                *)

\* The worker evaluates the module and calls describe, both bounded by a turn; the declaration
\* must be the one the Plan expects.
LoadWorker(r) ==
  /\ worker.at = "loading"
  /\ worker' = [worker EXCEPT !.at = IF r = "ready" THEN "idle" ELSE "exited"]
  /\ turnOver' = FALSE
  /\ UNCHANGED <<imports, host, failed, interrupt, queue, late>>

\* load returns what the worker said; a rejected generation is interrupted and joined.
Loaded ==
  /\ life = "loading" /\ worker.at # "loading"
  /\ life' = IF worker.at = "exited" THEN "rejected" ELSE "live"
  /\ interrupt' = (worker.at = "exited")
  /\ UNCHANGED <<imports, call, session, active, failed, queue, worker, turnOver, late>>

Activate ==
  /\ life = "live" /\ ActivateImports
  /\ UNCHANGED <<host, failed, interrupt, queue, worker, turnOver, late>>

-----------------------------------------------------------------------------
(* Calls                                                                   *)

SessionKinds == {"send", "receive"}  \* close_send is to the worker and the session what send is
GuestKinds == {"invoke", "open"} \cup SessionKinds

\* Why a call is refused before its command is sent: its stream was cancelled, no stream slot is
\* left, the generation is retired, the queue is full.
SubmitRefusal(k, s) ==
  IF k \in SessionKinds /\ session[s] = "cancelled" THEN "cancelled"
  ELSE IF k = "open" /\ active >= MaxStreams THEN "exhausted"
  ELSE IF failed THEN "retired"
  ELSE IF ~CanSend THEN "exhausted" ELSE "none"

\* invoke, open, and a session's send, receive and close_send up to their first await.  An open
\* reserves its slot first; a refusal gives it back, and changes nothing.  (A name is used again
\* once the worker is done with its last command.)
Submit(c, k, s) ==
  /\ HostFree /\ call[c].at = "idle"
  /\ k \in SessionKinds => session[s] \in {"open", "ended", "cancelled"}
  /\ k = "open" => session[c] = "none"
  /\ SubmitRefusal(k, s) = "none"
  /\ call' = [call EXCEPT ![c] = [Idle EXCEPT !.at = "waiting", !.kind = k, !.of = s]]
  /\ queue' = Append(queue, CallCommand(c))
  /\ active' = IF k = "open" THEN active + 1 ELSE active
  /\ UNCHANGED <<imports, session, failed, interrupt, life, worker, turnOver, late>>

Release(n) == IF n > 0 THEN n - 1 ELSE 0

\* Mutant: every end of a session gives a slot back.
FinishTwice(s, to) ==
  /\ session' = [session EXCEPT ![s] = to]
  /\ active' = Release(active)

\* QuickJsStreamSession::finish: gives the slot back once.
Finish(s, to) ==
  /\ session' = [session EXCEPT ![s] = to]
  /\ active' = IF session[s] = "open" THEN Release(active) ELSE active

\* What the caller gets for the outcome of its call.
ResultOf(k, out) ==
  IF out \in {"fail", "closed"} THEN "failed"
  ELSE IF out = "error" THEN IF k \in {"invoke", "open"} THEN "domain" ELSE "protocol"
  ELSE LET fits == CASE k = "invoke" -> TRUE
                     [] k = "open" -> out = "number"
                     [] k = "receive" -> out \in {"message", "terminal"}
                     [] OTHER -> out = "null"
       IN  IF fits THEN "ok" ELSE "protocol"

\* The slot of an open call and the session of a stream, once the outcome is known.  A number
\* that is not a u64 returns early and keeps the slot.
Settle(c, k, out) ==
  IF k = "open"
  THEN IF ResultOf(k, out) = "ok"
       THEN session' = [session EXCEPT ![c] = "open"] /\ UNCHANGED active
       ELSE /\ active' = IF out = "negative" THEN active ELSE Release(active)
            /\ UNCHANGED session
  ELSE IF k = "receive" /\ out = "terminal" /\ session[call[c].of] = "open"
  THEN Finish(call[c].of, "ended")
  ELSE UNCHANGED <<session, active>>

\* The poll that finds the answer disarms the guard; a failed or lost answer retires the
\* generation.
Answer(c) ==
  /\ HostFree /\ call[c].at = "waiting" /\ call[c].outcome # "none"
  /\ call' = [call EXCEPT ![c] = Idle]
  /\ Settle(c, call[c].kind, call[c].outcome)
  /\ failed' = (failed \/ call[c].outcome \in {"fail", "closed"})
  /\ UNCHANGED <<imports, life, interrupt, queue, worker, turnOver, late>>

\* A call whose future ends early: the guard marks the command abandoned, the import channel
\* closes and with it the reply a blocked guest waits for.
Abandon(c) ==
  IF call[c].outcome # "none" THEN Idle
  ELSE [Idle EXCEPT !.at = "abandoned", !.made = call[c].made,
          !.reply = IF call[c].import # NoOp THEN "closed" ELSE call[c].reply]

\* The context is cancelled while the call waits: the generation is retired and interrupted.
Cancelled(c) ==
  /\ HostFree /\ call[c].at = "waiting"
  /\ call' = [call EXCEPT ![c] = Abandon(c)]
  /\ failed' = TRUE /\ interrupt' = TRUE
  /\ active' = IF call[c].kind = "open" THEN Release(active) ELSE active
  /\ UNCHANGED <<imports, session, life, queue, worker, turnOver, late>>

\* The Kernel drops the future at an await: an open call keeps its slot.
Dropped(c) ==
  /\ HostFree /\ InFlight(c)
  /\ call' = [call EXCEPT ![c] = Abandon(c)]
  /\ UNCHANGED <<imports, session, active, life, failed, interrupt, queue, worker, turnOver, late>>

-----------------------------------------------------------------------------
(* Serving the guest's imports                                             *)

\* Which reply the guest reads is not tracked, only that it got one.
Replied(c) == [call[c] EXCEPT !.reply = "given", !.import = NoOp, !.at = "waiting"]

\* The task of the call takes the import; one too many, or one the tables refuse, is answered at
\* once, and so is one that awaits nothing.
TakeImport(c) ==
  LET i == call[c].import IN
  /\ HostFree /\ call[c].at = "waiting" /\ i # NoOp
  /\ \/ /\ call[c].made > MaxImports
        /\ call' = [call EXCEPT ![c] = Replied(c)] /\ UNCHANGED imports
     \/ /\ call[c].made <= MaxImports /\ Refusal(i) # "none"
        /\ call' = [call EXCEPT ![c] = Replied(c)] /\ UNCHANGED imports
     \/ /\ call[c].made <= MaxImports /\ Refusal(i) = "none" /\ ~Awaits(i)
        /\ call' = [call EXCEPT ![c] = Replied(c)] /\ Landed(i, "ok")
     \/ /\ call[c].made <= MaxImports /\ Refusal(i) = "none" /\ Awaits(i)
        /\ call' = [call EXCEPT ![c].at = "importing"] /\ UNCHANGED imports
  /\ UNCHANGED <<session, active, life, failed, interrupt, queue, worker, turnOver, late>>

\* The provider has answered.
ImportDone(c, r) ==
  /\ HostFree /\ call[c].at = "importing" /\ r \in Results(call[c].import)
  /\ call' = [call EXCEPT ![c] = Replied(c)]
  /\ Landed(call[c].import, r)
  /\ UNCHANGED <<session, active, life, failed, interrupt, queue, worker, turnOver, late>>

-----------------------------------------------------------------------------
(* Streams and the end of the generation                                   *)

\* cancel: the slot is given back; telling the guest is best effort, for the queue may be full.
CancelStream(s) ==
  /\ HostFree /\ session[s] \in {"open", "ended"}
  /\ Finish(s, "cancelled")
  /\ queue' = IF CanSend THEN Append(queue, CancelCommand(s)) ELSE queue
  /\ UNCHANGED <<imports, call, failed, interrupt, life, worker, turnOver, late>>

\* The last reference to the session goes; a call of the stream holds one.
DropSession(s) ==
  /\ HostFree /\ session[s] \in {"open", "ended", "cancelled"}
  /\ \A c \in Calls: InFlight(c) => call[c].of # s
  /\ Finish(s, "none")
  /\ UNCHANGED <<imports, call, failed, interrupt, life, queue, worker, turnOver, late>>

\* deactivate closes the imports, then stop: interrupt, Shutdown if the queue has room, join.
Deactivate ==
  /\ life = "live" /\ \A c \in Calls: ~InFlight(c)
  /\ DeactivateImports
  /\ interrupt' = TRUE
  /\ queue' = IF CanSend THEN Append(queue, Shutdown) ELSE queue
  /\ life' = "joining"
  /\ UNCHANGED <<call, session, active, failed, worker, turnOver, late>>

Joined ==
  /\ life = "joining" /\ worker.at = "exited" /\ life' = "stopped"
  /\ UNCHANGED <<imports, call, session, active, failed, interrupt, queue, worker, turnOver, late>>

-----------------------------------------------------------------------------
(* The worker thread                                                       *)

\* The outcome of a command reaches its caller, if there is one still.
Told(c, out) == IF call[c].at = "abandoned" THEN Idle ELSE [call[c] EXCEPT !.outcome = out]

Leaving == worker' = [at |-> "leaving", cmd |-> NoOp, out |-> "none"]

\* The thread ends: the receiver goes, and the answers of the commands still queued with it.
Leave ==
  /\ worker.at = "leaving" /\ worker' = [worker EXCEPT !.at = "exited"]
  /\ queue' = <<>>
  /\ call' = [c \in Calls |-> IF \E n \in DOMAIN queue: queue[n] = CallCommand(c)
                              THEN Told(c, "closed") ELSE call[c]]
  /\ UNCHANGED <<imports, session, active, life, failed, interrupt, turnOver, late>>

\* recv: the next command, or the end on Shutdown.
Take ==
  /\ worker.at = "idle" /\ queue # <<>>
  /\ IF Head(queue) = Shutdown THEN Leaving
     ELSE worker' = [worker EXCEPT !.at = "taken", !.cmd = Head(queue)]
  /\ queue' = Tail(queue)
  /\ UNCHANGED <<imports, host, failed, interrupt, turnOver, late>>

\* The command begins: the interrupt of an earlier moment is erased and the turn starts.
Begin ==
  /\ worker.at = "taken"
  /\ worker' = [worker EXCEPT !.at = "running"]
  /\ interrupt' = FALSE /\ turnOver' = FALSE
  /\ late' = IF failed THEN late + 1 ELSE late
  /\ UNCHANGED <<imports, host, failed, queue>>

TurnPasses ==
  /\ worker.at = "running" /\ ~turnOver /\ turnOver' = TRUE
  /\ UNCHANGED <<imports, host, failed, interrupt, queue, worker, late>>

Current == worker.cmd.id
IsCall == worker.cmd.op = "call"
Abandoned == IsCall /\ call[Current].at = "abandoned"

\* The guest calls an import.  It blocks while the call's task listens; otherwise the import
\* throws and the guest runs on.
GuestImport(i) ==
  /\ worker.at = "running" /\ IsCall /\ InFlight(Current)
  /\ call[Current].made < GuestImports /\ CanNumber(i)
  /\ call' = [call EXCEPT ![Current].import = i, ![Current].made = @ + 1]
  /\ worker' = [worker EXCEPT !.at = "blocked"]
  /\ UNCHANGED <<imports, session, active, life, failed, interrupt, queue, turnOver, late>>

\* The reply restarts the turn; a closed channel throws in the guest and does not.
Unblock ==
  /\ worker.at = "blocked" /\ call[Current].reply # "none"
  /\ worker' = [worker EXCEPT !.at = "running"]
  /\ call' = [call EXCEPT ![Current].reply = "none"]
  /\ turnOver' = (turnOver /\ call[Current].reply = "closed")
  /\ UNCHANGED <<imports, session, active, life, failed, interrupt, queue, late>>

\* What a guest function may return; "negative" is a number that is no u64, "fail" stands for an
\* exception, a result over the limit and one that is not an envelope.
Outcomes ==
  IF ~IsCall \/ Abandoned THEN {"null", "fail"}
  ELSE CASE call[Current].kind = "invoke" -> {"value", "error", "fail"}
         [] call[Current].kind = "open" -> {"number", "negative", "value", "error", "fail"}
         [] call[Current].kind = "receive" -> {"message", "terminal", "value", "error", "fail"}
         [] OTHER -> {"null", "value", "error", "fail"}

Return(out) ==
  /\ worker.at = "running"
  /\ worker' = [worker EXCEPT !.at = "returned", !.out = out]
  /\ failed' = (failed \/ out = "fail")
  /\ turnOver' = FALSE
  /\ UNCHANGED <<imports, host, interrupt, queue, late>>

GuestReturn(out) == out \in Outcomes /\ Return(out)

\* The interrupt handler ends a guest that is interrupted, abandoned or over its turn.
Interrupted == (interrupt \/ Abandoned \/ turnOver) /\ Return("fail")

\* The outcome is sent, to nobody when the caller has gone.
Report ==
  /\ worker.at = "returned"
  /\ worker' = [at |-> "reported", cmd |-> NoOp, out |-> "none"]
  /\ call' = IF IsCall THEN [call EXCEPT ![Current] = Told(Current, worker.out)] ELSE call
  /\ UNCHANGED <<imports, session, active, life, failed, interrupt, queue, turnOver, late>>

\* A retired generation takes no further command.
Check ==
  /\ worker.at = "reported"
  /\ IF failed THEN Leaving ELSE worker' = [worker EXCEPT !.at = "idle"]
  /\ UNCHANGED <<imports, host, failed, interrupt, queue, turnOver, late>>

-----------------------------------------------------------------------------
(* The specification                                                       *)

ThreadStep ==
  \/ LoadWorker("rejected") \/ Take \/ Begin \/ Interrupted \/ Unblock \/ Report \/ Check
  \/ Leave \/ TurnPasses
TaskStep(c) == Answer(c) \/ TakeImport(c) \/ \E r \in Results(call[c].import): ImportDone(c, r)

QuickNext ==
  \/ ThreadStep \/ LoadWorker("ready") \/ Loaded \/ Activate \/ Deactivate \/ Joined
  \/ \E i \in ImportCalls: GuestImport(i)
  \/ \E out \in {"value", "number", "negative", "null", "message", "terminal", "error", "fail"}:
       GuestReturn(out)
  \/ \E c \in Calls:
       \/ TaskStep(c) \/ Cancelled(c) \/ Dropped(c) \/ CancelStream(c) \/ DropSession(c)
       \/ \E k \in GuestKinds: \E s \in Calls: (k \in SessionKinds \/ s = c) /\ Submit(c, k, s)

QuickSpec == QuickInit /\ [][QuickNext]_quickVars

-----------------------------------------------------------------------------
(* Properties                                                              *)

Sessions == {c \in Calls: session[c] = "open"}
Opening == {c \in Calls: InFlight(c) /\ call[c].kind = "open"}

\* Every open stream, and every call that may still make one, holds a slot of its own, so a
\* stream that is finished, cancelled and dropped gives back one slot and never another's.
QuickSlotsHeld ==
  /\ Cardinality(Sessions) + Cardinality(Opening) <= active
  /\ active <= MaxStreams

\* A retired generation runs at most the one command that was queued behind the failure.
QuickRetiredRunsOnce == late <= 1

\* The one stop that does not return: its Shutdown found the queue full while the generation was
\* healthy, and the worker waits for a command that nobody sends.
Stranded == life = "joining" /\ worker.at = "idle" /\ queue = <<>> /\ ~failed

\* However long the guest loops, a call comes to an end, and so does the wait of the Host thread
\* for the worker in stop.
QuickWaits(c) == InFlight(c) \/ (life = "joining" /\ ~Stranded)
QuickLetsGo(c) == QuickWaits(c) ~> ~QuickWaits(c)
=============================================================================
