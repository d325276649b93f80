-------------------------- MODULE ApplicationControl --------------------------
(***************************************************************************)
(* The private control bridge of an application (lenso/src/host/control.rs):*)
(* a native owner starts, inspects and stops the Host behind a pair of     *)
(* pipes.  One task reads requests into a bounded channel and keeps the    *)
(* stop apart in a watch; serve answers them, one at a time, and awaits    *)
(* the Host in between.                                                    *)
(*                                                                         *)
(* External: the owner at the other end, which may write anything and      *)
(* close; the Host and its other clients (see Controller).                 *)
(***************************************************************************)
EXTENDS Naturals, Sequences

CONSTANTS RequestCapacity,   \* mpsc::channel(8)
          MaxId,           \* bound: request ids
          MaxRevision      \* bound: changes other clients make to the Host's state

ASSUME ControlAssumption == MaxId \in Nat

VARIABLES reader, lastId,      \* read_requests
          requests, stop,      \* its channel; its watch: <<>>, or the id of the stop
          serving,             \* where serve is
          line, after,         \* frames it emits now, and what follows
          emitted,             \* frames emitted
          announced, asked,    \* revision of "started"; the Inspect being answered
          ending,              \* how serve ends: "none" while it runs
          host, revision, ended,   \* the Host; its durable revision; its event "Stopped"
          overtaken            \* history: the session fell 64 events behind

asking == <<reader, lastId, requests, stop>>
serve == <<serving, line, after, emitted, announced, asked, ending>>
behind == <<host, revision, ended, overtaken>>
control == <<asking, serve, behind>>

Frame(kind, id, says) == [kind |-> kind, id |-> id, says |-> says]
NoRequest == [op |-> "none", id |-> 0, good |-> FALSE]

ControlInit ==
  /\ reader = "reading" /\ lastId = 0 /\ requests = <<>> /\ stop = <<>>
  /\ serving = "handshake" /\ line = <<>> /\ after = "none" /\ emitted = <<>> /\ announced = 0
  /\ asked = NoRequest /\ ending = "none"
  /\ host = "none" /\ revision = 0 /\ ended = FALSE /\ overtaken = FALSE

-----------------------------------------------------------------------------
(* read_requests                                                           *)

\* A frame that cannot be read, another version, an id that does not grow, or a channel that is
\* full: the same as a stop that nobody asked for.
ReadEnds(id) == reader' = "ended" /\ stop' = <<id>> /\ UNCHANGED requests

ReadGarbage ==
  /\ reader = "reading" /\ ReadEnds(0) /\ UNCHANGED <<lastId, serve, behind>>

ReadStop(id) ==
  /\ reader = "reading" /\ ReadEnds(IF id = 0 \/ id > lastId THEN id ELSE 0)
  /\ lastId' = IF id > lastId \/ id = 0 THEN id ELSE lastId
  /\ UNCHANGED <<serve, behind>>

\* `good': for Start the distribution is the one that is served, for Inspect the page exists and
\* the revision, if any, is the announced one.
ReadRequest(op, id, good) ==
  /\ reader = "reading"
  /\ IF id <= lastId THEN ReadEnds(0) /\ UNCHANGED lastId
     ELSE /\ lastId' = id
          /\ IF Len(requests) < RequestCapacity
             THEN /\ requests' = Append(requests, [op |-> op, id |-> id, good |-> good])
                  /\ UNCHANGED <<reader, stop>>
             ELSE ReadEnds(0)
  /\ UNCHANGED <<serve, behind>>

ReaderStep ==
  \/ ReadGarbage
  \/ \E id \in 0..MaxId: ReadStop(id)
  \/ \E op \in {"start", "inspect"}, id \in 1..MaxId, good \in BOOLEAN: ReadRequest(op, id, good)

-----------------------------------------------------------------------------
(* serve                                                                   *)

Emits(said, next) ==
  serving' = "emitting" /\ line' = said /\ after' = next
    /\ UNCHANGED <<emitted, announced, asked, ending>>
Drains(next) ==
  serving' = "draining" /\ after' = next
    /\ UNCHANGED <<line, emitted, announced, asked, ending>>
GoesTo(place) == serving' = place /\ UNCHANGED <<line, after, emitted, announced, ending>>

\* serve returns: the reader is aborted, and the Host's handle dropped.  A Host that is up has no
\* handle then but those of others, and retires everything once they are gone.
Returns(how) ==
  /\ serving' = "returned" /\ ending' = how /\ reader' = "ended"
  /\ host' = IF host = "up" THEN "abandoned" ELSE host

StartRefused(cause) == <<Frame("start_failed", 1, cause)>>

\* The first request must be the Start, in time.
Handshake ==
  /\ serving = "handshake"
  /\ \/ /\ requests # <<>> /\ requests' = Tail(requests)
        /\ LET first == Head(requests) IN
             IF first.op = "start" /\ first.id = 1 /\ first.good
             THEN GoesTo("starting") /\ host' = "building" /\ UNCHANGED asked
             ELSE Emits(StartRefused("invalid_start"), "return") /\ UNCHANGED host
     \/ /\ requests = <<>>   \* the deadline, or the channel is closed
        /\ Emits(StartRefused("invalid_start"), "return")
        /\ UNCHANGED <<requests, host>>
  /\ UNCHANGED <<reader, lastId, stop, revision, ended, overtaken>>

\* A stop, the deadline or an error: the future that starts the Host is dropped.
StartCancelled ==
  /\ serving = "starting" /\ Emits(StartRefused("startup_failed_or_cancelled"), "return")
  /\ host' = "gone" /\ UNCHANGED <<asking, revision, ended, overtaken>>

HostStarted ==
  /\ serving = "starting" /\ stop = <<>> /\ host' = "up" /\ revision' = 1
  /\ GoesTo("checking") /\ UNCHANGED <<asking, asked, ended, overtaken>>

\* The Host is inspected: it must be up, with the Generation that was started.
Check ==
  /\ serving = "checking"
  /\ \/ /\ host = "up" /\ announced' = revision
        /\ serving' = "emitting" /\ after' = "session"
        /\ line' = <<Frame("ready", 0, revision), Frame("started", 1, revision)>>
        /\ UNCHANGED <<emitted, asked, ending>>
     \/ Drains("not_ready")
  /\ UNCHANGED <<asking, behind>>

Emit ==
  /\ serving = "emitting" /\ line # <<>>
  /\ emitted' = Append(emitted, Head(line)) /\ line' = Tail(line)
  /\ IF Len(line) > 1 THEN UNCHANGED <<serving, ending, reader, host>>
     ELSE IF after = "session" THEN serving' = "session" /\ UNCHANGED <<ending, reader, host>>
     ELSE Returns("ok")
  /\ UNCHANGED <<after, announced, asked, lastId, requests, stop, revision, ended,
                 overtaken>>

\* A write fails or takes too long: before readiness serve just ends, afterwards it drains.
EmitFails ==
  /\ serving = "emitting"
  /\ IF announced = 0 THEN /\ Returns("error")
                           /\ UNCHANGED <<line, after, emitted, announced, asked>>
     ELSE Drains("error") /\ UNCHANGED <<host, reader>>
  /\ UNCHANGED <<lastId, requests, stop, revision, ended, overtaken>>

\* drain_and_suspend, within its budget: it fails on a Controller that is not there any more.
Drain ==
  /\ serving = "draining"
  /\ \E ok \in BOOLEAN:
       /\ ok => host \in {"up", "stopped"}
       /\ host' = CASE ok -> "suspended"
                    [] ~ok /\ host = "up" -> "failed"
                    [] OTHER -> host
       /\ IF after = "error" THEN /\ serving' = "returned" /\ ending' = "error" /\ reader' = "ended"
                                  /\ UNCHANGED <<line, after>>
          ELSE /\ serving' = "emitting" /\ after' = "return" /\ UNCHANGED <<ending, reader>>
               /\ line' = IF after = "not_ready" THEN StartRefused("generation_not_ready")
                          ELSE <<Frame("terminal", stop[1],
                                       IF ok THEN "suspended" ELSE "failed")>>
  /\ UNCHANGED <<lastId, requests, stop, emitted, announced, asked, revision, ended,
                 overtaken>>

\* Mutant: the session ends with its error, and leaves the Host as it is.
JustReturns ==
  /\ serving' = "returned" /\ ending' = "error" /\ reader' = "ended"
  /\ host' = IF host = "up" THEN "abandoned" ELSE host
  /\ UNCHANGED <<after, line, emitted, announced, asked>>

\* The session ends with an error: serve drains the Host.
SessionFails == Drains("error") /\ UNCHANGED <<host, reader>>

\* A stop comes before everything that is queued, then the end of the Host's events, then requests.
SessionStops ==
  /\ serving = "session" /\ stop # <<>> /\ Drains("terminal") /\ UNCHANGED <<asking, behind>>

\* Events that were lost count as the end of the Host, and the Host is not drained.
SessionLosesHost ==
  /\ serving = "session" /\ stop = <<>> /\ (ended \/ overtaken)
  /\ Emits(<<Frame("terminal", 0, "failed")>>, "return") /\ UNCHANGED <<asking, behind>>

TakeRequest ==
  /\ serving = "session" /\ stop = <<>> /\ ~ended /\ ~overtaken /\ requests # <<>>
  /\ requests' = Tail(requests)
  /\ IF Head(requests).op = "inspect"
     THEN /\ GoesTo("inspecting") /\ asked' = Head(requests)
          /\ UNCHANGED <<host, reader>>
     ELSE SessionFails
  /\ UNCHANGED <<lastId, stop, revision, ended, overtaken>>

\* The answer is a page of the Generation that was started, if the Host is still at that revision.
Inspected ==
  /\ serving = "inspecting"
  /\ IF host = "up"
     THEN /\ Emits(<<IF asked.good /\ revision = announced
                     THEN Frame("inspected", asked.id, revision)
                     ELSE Frame("rejected", asked.id, 0)>>, "session")
          /\ UNCHANGED <<host, reader>>
     ELSE SessionFails
  /\ UNCHANGED <<lastId, requests, stop, revision, ended, overtaken>>

ServeStep ==
  \/ Handshake \/ StartCancelled \/ HostStarted \/ Check \/ Emit \/ EmitFails \/ Drain
  \/ SessionStops \/ SessionLosesHost \/ TakeRequest \/ Inspected

-----------------------------------------------------------------------------
(* External: the Host and its other clients                                *)

\* Another client changes the Host's state, or suspends or stops it, which is announced.
HostChanges ==
  /\ host = "up" /\ revision < MaxRevision /\ revision' = revision + 1
  /\ UNCHANGED <<asking, serve, host, ended, overtaken>>
HostStops ==
  /\ host = "up" /\ host' = "stopped" /\ ended' = TRUE
  /\ UNCHANGED <<asking, serve, revision, overtaken>>

\* The Controller ends with an error or a panic: nobody is told.
HostDies ==
  /\ host = "up" /\ host' = "dead" /\ UNCHANGED <<asking, serve, revision, ended, overtaken>>

\* 64 events go by while the session is busy.
Overtaken ==
  /\ host = "up" /\ announced # 0 /\ serving \in {"inspecting", "emitting"} /\ after = "session"
  /\ overtaken' = TRUE /\ UNCHANGED <<asking, serve, host, revision, ended>>

ControlNext ==
  ReaderStep \/ ServeStep \/ HostChanges \/ HostStops \/ HostDies \/ Overtaken

-----------------------------------------------------------------------------
(* Properties                                                              *)

Said(kind) == {i \in DOMAIN emitted: emitted[i].kind = kind}
Answers == Said("inspected") \cup Said("rejected")

\* The owner can go by what it reads: readiness is announced before any answer and only for a
\* Host that was up; answers come in the order of the requests, and the pages of one session are
\* all of one revision; a terminal or a refusal is the last word; and one that says "suspended"
\* is true, and answers the stop.
OwnerReadsTruth ==
  /\ \A i \in Answers: emitted[1].kind = "ready" /\ emitted[2].kind = "started" /\ i > 2
  /\ \A i, j \in Answers: i < j => emitted[i].id < emitted[j].id
  /\ \A i \in Said("inspected"): emitted[i].says = emitted[1].says
  /\ \A i \in Said("terminal") \cup Said("start_failed"): i = Len(emitted)
  /\ \A i \in Said("terminal"):
       emitted[i].says = "suspended" => host = "suspended" /\ stop = <<emitted[i].id>>

\* serve does not leave a Host that it announced: whatever the owner writes or fails to read, the
\* Host was drained, or had ended by itself.  The one way out is a session that lost events.
HostNotAbandoned == host = "abandoned" => overtaken

\* Both: a session of host control tells its owner what is true, and does not leave the Host behind.
OwnerIsTold == OwnerReadsTruth /\ HostNotAbandoned

\* A stop that was read ends serve, wherever it is.
StopWaits == stop # <<>> /\ serving # "returned"
=============================================================================
