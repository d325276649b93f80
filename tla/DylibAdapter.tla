----------------------------- MODULE DylibAdapter -----------------------------
(***************************************************************************)
(* The dylib adapter (lenso-dylib-adapter): a trusted native library runs  *)
(* on a worker thread of the Host; calls reach it through a queue for one  *)
(* command, and it cannot be interrupted.                                  *)
(*                                                                         *)
(* External: the library, whose callbacks may never return.  An outcome is *)
(* told apart by whether it retires the generation.                        *)
(***************************************************************************)
EXTENDS Naturals, Sequences

CONSTANTS Calls,
          Large       \* calls whose request is over max_request_bytes

VARIABLES host,       \* the generation: starting, up, flagged, told, join, stopped or refused
          commands,   \* the queue of one: a call or <<"shutdown">>, as sequences
          failed, busy,    \* the flags the threads share
          worker, job,     \* the worker's step, and the call it has
          outcome,    \* what the worker has for job
          call,       \* call[c]: idle, checked, waiting, or how it ended
          reply,      \* reply[c]: what the worker sent
          last        \* calls into the library that began when the generation was retired

dylib == <<host, commands, failed, busy, worker, job, outcome, call, reply, last>>

Shutdown == <<"shutdown">>

DylibInit ==
  /\ host = "starting" /\ commands = <<>> /\ failed = FALSE /\ busy = FALSE
  /\ worker = "load" /\ job = "none" /\ outcome = "none"
  /\ call = [c \in Calls |-> "idle"] /\ reply = [c \in Calls |-> "none"] /\ last = 0

-----------------------------------------------------------------------------
(* The worker thread                                                       *)

\* LoadedDylib::load: the entry point, the root table and the descriptor are right, or the thread
\* ends.
Load ==
  /\ worker = "load" /\ worker' \in {"recv", "refuse"}
  /\ UNCHANGED <<host, commands, failed, busy, job, outcome, call, reply, last>>

\* The command that is next; or the generation is gone, and the queue with it.
Take ==
  /\ worker = "recv" /\ commands # <<>> /\ commands' = Tail(commands)
  /\ IF Head(commands) = Shutdown THEN worker' = "drop" /\ UNCHANGED job
     ELSE worker' = "took" /\ job' = Head(commands)[1]
  /\ UNCHANGED <<host, failed, busy, outcome, call, reply, last>>

\* The flag that says a call is inside the library is set after the command was taken.
Enter ==
  /\ worker = "took" /\ busy' = TRUE
  /\ IF job \in Large THEN worker' = "left" /\ outcome' = "error" /\ UNCHANGED last
     ELSE worker' = "native" /\ last' = (IF failed THEN last + 1 ELSE last) /\ UNCHANGED outcome
  /\ UNCHANGED <<host, commands, failed, job, call, reply>>

\* External: the callback returns; its output is the Host's buffer, JSON and of a status that is
\* not fatal, or the call is an error.
NativeReturns ==
  /\ worker = "native" /\ outcome' \in {"ok", "error"} /\ worker' = "left"
  /\ UNCHANGED <<host, commands, failed, busy, job, call, reply, last>>

Leave ==
  /\ worker = "left" /\ busy' = FALSE /\ worker' = "judge"
  /\ UNCHANGED <<host, commands, failed, job, outcome, call, reply, last>>

\* An error retires the generation before the caller hears of it.
Send ==
  /\ worker = "judge" /\ failed' = (failed \/ outcome = "error")
  /\ reply' = [reply EXCEPT ![job] = outcome] /\ worker' = "check"
  /\ UNCHANGED <<host, commands, busy, job, outcome, call, last>>

\* Mutant: the worker stops only for its own error.
GoesOnUnlessError == outcome # "error"

GoesOn == ~failed

Check ==
  /\ worker = "check" /\ worker' = IF GoesOn THEN "recv" ELSE "drop"
  /\ job' = "none" /\ outcome' = "none"
  /\ UNCHANGED <<host, commands, failed, busy, call, reply, last>>

\* The library is dropped first: its shutdown callback runs on this thread.  Then the queue is,
\* and the calls in it with it.
DropLibrary ==
  /\ worker = "drop" /\ worker' = "drop_queue"
  /\ UNCHANGED <<host, commands, failed, busy, job, outcome, call, reply, last>>
DropQueue ==
  /\ worker \in {"drop_queue", "refuse"} /\ worker' = "gone" /\ commands' = <<>>
  /\ reply' = [c \in Calls |-> IF commands = <<<<c>>>> THEN "stopped" ELSE reply[c]]
  /\ UNCHANGED <<host, failed, busy, job, outcome, call, last>>

-----------------------------------------------------------------------------
(* The Host's thread                                                       *)

\* start returns when the worker is ready or has refused.
Started ==
  /\ host = "starting"
  /\ \/ worker = "recv" /\ host' = "up"
     \/ worker = "gone" /\ host' = "refused"
  /\ UNCHANGED <<commands, failed, busy, worker, job, outcome, call, reply, last>>

\* A call looks at the flag, and then sends; the worker goes on in between.
CheckRetired(c) ==
  /\ host = "up" /\ call[c] = "idle"
  /\ call' = [call EXCEPT ![c] = IF failed THEN "retired" ELSE "checked"]
  /\ UNCHANGED <<host, commands, failed, busy, worker, job, outcome, reply, last>>
Submit(c) ==
  /\ call[c] = "checked"
  /\ IF commands = <<>> /\ worker # "gone"
     THEN call' = [call EXCEPT ![c] = "waiting"] /\ commands' = <<<<c>>>>
     ELSE call' = [call EXCEPT ![c] = "exhausted"] /\ UNCHANGED commands
  /\ UNCHANGED <<host, failed, busy, worker, job, outcome, reply, last>>
Answered(c) ==
  /\ call[c] = "waiting" /\ reply[c] # "none" /\ call' = [call EXCEPT ![c] = reply[c]]
  /\ UNCHANGED <<host, commands, failed, busy, worker, job, outcome, reply, last>>

\* The caller gives up: whatever the worker does with the call, the generation is retired.
CancelCall(c) ==
  /\ call[c] = "waiting" /\ call' = [call EXCEPT ![c] = "cancelled"] /\ failed' = TRUE
  /\ UNCHANGED <<host, commands, busy, worker, job, outcome, reply, last>>

\* Its future is dropped: nobody is told.
DropCall(c) ==
  /\ call[c] = "waiting" /\ call' = [call EXCEPT ![c] = "cancelled"]
  /\ UNCHANGED <<host, commands, failed, busy, worker, job, outcome, reply, last>>

\* stop, from deactivate or Drop: the flag, then a Shutdown if the queue has room, then the
\* thread is joined unless a call is inside the library.
NoneChecked == \A c \in Calls: call[c] # "checked"
StopFlags ==
  /\ host = "up" /\ NoneChecked /\ host' = "flagged" /\ failed' = TRUE
  /\ UNCHANGED <<commands, busy, worker, job, outcome, call, reply, last>>
StopTells ==
  /\ host = "flagged" /\ host' = "told"
  /\ commands' = IF commands = <<>> /\ worker # "gone" THEN <<Shutdown>> ELSE commands
  /\ UNCHANGED <<failed, busy, worker, job, outcome, call, reply, last>>
StopLooks ==
  /\ host = "told" /\ host' = IF busy THEN "stopped" ELSE "join"
  /\ UNCHANGED <<commands, failed, busy, worker, job, outcome, call, reply, last>>
Joined ==
  /\ host = "join" /\ worker = "gone" /\ host' = "stopped"
  /\ UNCHANGED <<commands, failed, busy, worker, job, outcome, call, reply, last>>

\* The Host's thread sends what it has checked before it does anything else, and does nothing
\* else while it stops.
HostFree == host \in {"up", "stopped"}

WorkerStep == Load \/ Take \/ Enter \/ Leave \/ Send \/ Check \/ DropLibrary \/ DropQueue
StopStep == StopTells \/ StopLooks \/ Joined
CallStep(c) == Submit(c) \/ (NoneChecked /\ HostFree /\ Answered(c))
DylibNext ==
  \/ WorkerStep \/ NativeReturns \/ Started \/ StopFlags \/ StopStep
  \/ \E c \in Calls: \/ CallStep(c)
                     \/ NoneChecked /\ HostFree /\ (CheckRetired(c) \/ CancelCall(c) \/ DropCall(c))

DylibSpec == DylibInit /\ [][DylibNext]_dylib

-----------------------------------------------------------------------------
(* Properties                                                              *)

\* A retired generation enters its library at most once more, however it was retired (an error, a
\* caller that gave up, stop): so the thread that stop leaves behind ends with the call it is in,
\* and no two callers can make it run on.
OneLastCall == last <= 1

\* Nobody waits for ever for a worker that is not held by its library: a caller, or the Host's
\* thread in stop.
DylibWaits ==
  /\ worker # "native"
  /\ \/ host \in {"flagged", "told", "join"}
     \/ HostFree /\ \E c \in Calls: call[c] = "waiting"
=============================================================================
