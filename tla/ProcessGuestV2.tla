--------------------------- MODULE ProcessGuestV2 ---------------------------
(***************************************************************************)
(* The guest end of a Process V2 session: serve_v2_io of                   *)
(* lenso-process-sdk/src/v2.rs.  A main loop takes the Host's frames and   *)
(* the results of lifecycle work; every construct, stop and invocation     *)
(* runs on a thread of its own, which writes to the same pipe.  A protocol *)
(* error ends the loop, and with it the process.                           *)
(***************************************************************************)
EXTENDS ProcessWire

CONSTANTS MaxActive, \* AuthoringLimits::max_active_invocations
          MaxRetired \* AuthoringLimits::max_retired_ids

VARIABLES
  main,      \* the main loop: what it is about to do
  attempted, \* construction_attempted
  object,    \* is there an instance?
  lifecycle, \* the lifecycle scope that is active, or "none"
  active,    \* active invocations
  flagged,   \* work whose cancelled flag is set
  retired,   \* retired correlation ids
  thread,    \* [work -> what its thread does]
  loopback,  \* lifecycle results sent to the main loop
  outbounds  \* outbound calls made

guest == <<main, attempted, object, lifecycle, active, flagged, retired, thread, loopback,
           outbounds>>

GuestInit ==
  /\ main = <<"initialize">> /\ attempted = FALSE /\ object = FALSE /\ lifecycle = "none"
  /\ active = {} /\ flagged = {} /\ retired = {} /\ thread = [w \in Work |-> "none"]
  /\ loopback = {} /\ outbounds = 0

Running == process = "running"
Writes(frame) == toHost' = Append(toHost, frame)
Loop == main = <<"loop">>

\* The process ends: by an error, or because it has nothing more to do.
Leaves == process' = "dead" /\ UNCHANGED guest

\* The Host's next frame, while the loop waits.
Receives(kind) == Running /\ Loop /\ toGuest # <<>> /\ Head(toGuest).kind = kind
Taken == toGuest' = Tail(toGuest)

\* Initialize is the first frame; the child echoes it, unless the plugin refuses it.
Initialize ==
  /\ Running /\ main = <<"initialize">> /\ toGuest # <<>>
  /\ Taken
  /\ IF Head(toGuest).kind = "initialize"
     THEN /\ main' = <<"loop">> /\ Writes(Message("initialized", "construct", "ok"))
          /\ UNCHANGED <<process, attempted, object, lifecycle, active, flagged, retired,
                         thread, loopback, outbounds>>
     ELSE Leaves /\ UNCHANGED toHost

\* Construction is attempted once; it runs beside the loop.
Construct ==
  /\ Receives("construct") /\ Taken
  /\ IF attempted \/ lifecycle # "none"
     THEN Leaves
     ELSE /\ attempted' = TRUE /\ lifecycle' = "construct"
          /\ thread' = [thread EXCEPT !["construct"] = "running"]
          /\ UNCHANGED <<process, main, object, active, flagged, retired, loopback, outbounds>>
  /\ UNCHANGED toHost

\* Why an invocation ends the process instead of being served (the Host draws every id
\* once: no id is ever active twice).
Misplaced(c) == \/ lifecycle # "none" \/ ~object
                \/ Cardinality(retired) >= MaxRetired \/ c \in retired

\* An invocation runs beside the loop; over the limit it is refused and settled at once.
Accept ==
  /\ Receives("invoke") /\ Taken
  /\ LET c == Head(toGuest).of IN
       IF Misplaced(c)
       THEN Leaves /\ UNCHANGED toHost
       ELSE IF Cardinality(active) >= MaxActive
       THEN /\ toHost' = toHost \o <<Message("result", c, "refused"),
                                     Message("settlement", c, "completed")>>
            /\ UNCHANGED <<process, guest>>
       ELSE /\ active' = active \union {c}
            /\ thread' = [thread EXCEPT ![c] = "running"]
            /\ UNCHANGED <<process, toHost, main, attempted, object, lifecycle, flagged,
                           retired, loopback, outbounds>>

\* The result of an outbound call wakes the thread that waits for it; for a call nobody
\* waits for it is an error.
OutboundResult ==
  /\ Receives("outboundresult") /\ Taken
  /\ LET w == Head(toGuest).of IN
       IF thread[w] = "calling"
       THEN /\ thread' = [thread EXCEPT ![w] = "running"]
            /\ UNCHANGED <<process, main, attempted, object, lifecycle, active, flagged,
                           retired, loopback, outbounds>>
       ELSE Leaves
  /\ UNCHANGED toHost

\* Does a cancellation find its work?
Known(w) == w \in active \/ w = lifecycle

\* A cancellation sets the flag of its work, if that is still known; the answer is
\* written afterwards, when the lock is free again and the thread may have gone on.
CancelArrives ==
  /\ Receives("cancel") /\ Taken
  /\ LET w == Head(toGuest).of IN
       /\ flagged' = IF Known(w) THEN flagged \union {w} ELSE flagged
       /\ main' = IF Known(w) THEN <<"ack", w, "accepted">> ELSE <<"ack", w, "rejected">>
  /\ UNCHANGED <<process, toHost, attempted, object, lifecycle, active, retired, thread,
                 loopback, outbounds>>
Acknowledge ==
  /\ Running /\ main[1] = "ack"
  /\ Writes(Message("cancelack", main[2], main[3]))
  /\ main' = <<"loop">>
  /\ UNCHANGED <<process, toGuest, attempted, object, lifecycle, active, flagged, retired,
                 thread, loopback, outbounds>>

\* Stop needs an instance and nothing in progress.
StopArrives ==
  /\ Receives("stop") /\ Taken
  /\ IF lifecycle # "none" \/ active # {} \/ ~object
     THEN Leaves
     ELSE /\ lifecycle' = "cleanup" /\ thread' = [thread EXCEPT !["cleanup"] = "running"]
          /\ UNCHANGED <<process, main, attempted, object, active, flagged, retired, loopback,
                         outbounds>>
  /\ UNCHANGED toHost

---------------------------------------------------------------------------
(* The threads.                                                            *)

\* A thread calls a dependency, unless its work was cancelled.
CallOut(w) ==
  /\ Running /\ thread[w] = "running" /\ w \notin flagged /\ outbounds < MaxOutbound
  /\ outbounds' = outbounds + 1
  /\ thread' = [thread EXCEPT ![w] = "calling"]
  /\ Writes(Message("outbound", w, "call"))
  /\ UNCHANGED <<process, toGuest, main, attempted, object, lifecycle, active, flagged,
                 retired, loopback>>

\* The end of an invocation, in three steps: its result is written, or is too long to be
\* written ...
WriteResult(c) ==
  /\ Running /\ thread[c] = "running"
  /\ Writes(Message("result", c, "outcome")) \/ ("frame" \in Faults /\ UNCHANGED toHost)
  /\ thread' = [thread EXCEPT ![c] = "written"]
  /\ UNCHANGED <<process, toGuest, main, attempted, object, lifecycle, active, flagged,
                 retired, loopback, outbounds>>

\* ... its id is retired and is no longer active ...
RetireId(c) ==
  /\ Running /\ thread[c] = "written"
  /\ active' = active \ {c} /\ retired' = retired \union {c}
  /\ thread' = [thread EXCEPT ![c] = "retired"]
  /\ UNCHANGED <<process, toGuest, toHost, main, attempted, object, lifecycle, flagged,
                 loopback, outbounds>>

\* ... and it settles, in a state its flag decides, unless it had panicked.
SettledAs(c) == IF c \in flagged THEN "cancelled" ELSE "completed"
Settle(c) ==
  /\ Running /\ thread[c] = "retired"
  /\ \E state \in {SettledAs(c), "abandoned"}: Writes(Message("settlement", c, state))
  /\ thread' = [thread EXCEPT ![c] = "none"]
  /\ UNCHANGED <<process, toGuest, main, attempted, object, lifecycle, active, flagged,
                 retired, loopback, outbounds>>

\* Lifecycle work ends in a message to the main loop, whatever it came to.
LifecycleEnds(w) ==
  /\ Running /\ w \in Scopes /\ thread[w] = "running"
  /\ thread' = [thread EXCEPT ![w] = "none"]
  /\ loopback' = loopback \union {w}
  /\ UNCHANGED <<process, toGuest, toHost, main, attempted, object, lifecycle, active,
                 flagged, retired, outbounds>>

\* Mutant: the lifecycle scope stays active.
LifecycleStays == UNCHANGED lifecycle

LifecycleOver == lifecycle' = "none"

\* The loop reports it: an instance, unless construction failed or was cancelled ...
ReportConstruct ==
  /\ Running /\ Loop /\ "construct" \in loopback
  /\ loopback' = loopback \ {"construct"} /\ LifecycleOver
  /\ \E outcome \in {"ok", "failed"}:
       /\ "construct" \in flagged => outcome = "failed"
       /\ object' = (outcome = "ok")
       /\ Writes(Message("constructed", "construct", outcome))
  /\ UNCHANGED <<process, toGuest, main, attempted, active, flagged, retired, thread,
                 outbounds>>

\* Mutant: the process stays after its last frame.
ReportStopStays ==
  /\ Running /\ Loop /\ "cleanup" \in loopback
  /\ loopback' = loopback \ {"cleanup"}
  /\ \E hook \in {"ok", "failed"}: Writes(Message("stopped", "cleanup", hook))
  /\ UNCHANGED <<process, toGuest, main, attempted, object, lifecycle, active, flagged,
                 retired, thread, outbounds>>

\* ... or the end of the session, after which the process exits.
ReportStop ==
  /\ Running /\ Loop /\ "cleanup" \in loopback
  /\ \E hook \in {"ok", "failed"}: Writes(Message("stopped", "cleanup", hook))
  /\ Leaves /\ UNCHANGED toGuest

GuestMain == \/ Initialize \/ Construct \/ Accept \/ OutboundResult
             \/ CancelArrives \/ Acknowledge \/ StopArrives
             \/ ReportConstruct \/ ReportStop
GuestThread(w) == \/ CallOut(w) \/ LifecycleEnds(w)
                  \/ w \in Invocations /\ (WriteResult(w) \/ RetireId(w) \/ Settle(w))
GuestNext == GuestMain \/ \E w \in Work: GuestThread(w)
=============================================================================
