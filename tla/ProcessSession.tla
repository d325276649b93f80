--------------------------- MODULE ProcessSession ---------------------------
(***************************************************************************)
(* A whole Process V2 session: the Host end and the guest end, over the    *)
(* two pipes of the child.                                                 *)
(***************************************************************************)
EXTENDS ProcessHostV2, ProcessGuestV2

\* An invocation is no lifecycle scope, and the limits are numbers.
ASSUME SessionAssumption ==
  Invocations \intersect Scopes = {} /\ MaxRetired \in Nat /\ MaxPending \in Nat

v2vars == <<wire, session, guest>>

\* The child exits of its own accord.
Exit ==
  /\ Mishap("exit") /\ Running
  /\ process' = "dead"
  /\ UNCHANGED <<toGuest, toHost, pending, channel, slots, reply, isFailed, isStopped, stopStarted,
                 readerAt, monitor, life, calls, importing, timers, guest>>

V2Init == WireInit /\ HostInit /\ GuestInit
V2Next == \/ HostNext /\ UNCHANGED guest
          \/ GuestNext /\ UNCHANGED session
          \/ Exit
V2Spec == V2Init /\ [][V2Next]_v2vars

\* The threads of both ends run, and so do the Host's tasks and the calls they await.
V2Fairness ==
  /\ WF_v2vars(HostReader /\ UNCHANGED guest)
  /\ WF_v2vars(HostLife /\ UNCHANGED guest)
  /\ WF_v2vars(GuestMain /\ UNCHANGED session)
  /\ \A c \in Invocations: WF_v2vars(HostCall(c) /\ UNCHANGED guest)
  /\ \A w \in Work: /\ WF_v2vars(HostImport(w) /\ UNCHANGED guest)
                    /\ WF_v2vars(GuestThread(w) /\ UNCHANGED session)

---------------------------------------------------------------------------
(* Properties.                                                             *)

\* Types.  The limit of the pending table is one of invocations: a lifecycle scope takes
\* a place beyond it (invoke, construct, deactivate).
HostFrames ==
  [kind: {"invoke", "cancel"}, of: Invocations, mark: {"ok"}]
    \union [kind: {"initialize", "construct"}, of: {"construct"}, mark: {"ok"}]
    \union [kind: {"stop"}, of: {"cleanup"}, mark: {"ok"}]
    \union [kind: {"outboundresult"}, of: Work, mark: {"outcome"}]
Marks == {"ok", "failed", "outcome", "refused", "call", "accepted", "rejected", "completed",
          "cancelled", "abandoned", Invalid}
GuestFrames ==
  [kind: {"result", "outbound", "settlement", "cancelack", "garbage"}, of: Work, mark: Marks]
    \union [kind: {"initialized", "constructed", "stopped"}, of: Scopes, mark: {"ok", "failed"}]
CallStates == [at: {"new", "sending", "waiting", "done"}, cancelSent: BOOLEAN,
               outcome: {"none", "outcome"}]

SessionTypeOK ==
  /\ process \in {"running", "dead"} /\ toGuest \in Seq(HostFrames) /\ toHost \in Seq(GuestFrames)
  /\ pending \subseteq Work /\ IsFiniteSet(pending)
  /\ Cardinality(pending \intersect Invocations) <= MaxPending
  /\ channel \in [Work -> Seq(GuestFrames)]
  /\ slots \subseteq {"initialized", "constructed", "stopped"}
  /\ reply \in {"none", "ok", "failed", "lost"}
  /\ isFailed \in BOOLEAN /\ isStopped \in BOOLEAN /\ stopStarted \in BOOLEAN
  /\ readerAt \in {"reading", "failing", "stopped", "failed"}
  /\ monitor \in {"none", "watching", "panicked", "over"}
  /\ life \in {"prepared", "initializing", "constructed", "active", "stopping", "reaping",
              "ended", "refused"} \union Scopes
  /\ calls \in [Invocations -> CallStates]
  /\ importing \subseteq Work /\ timers \subseteq Invocations /\ mishaps \in Nat
  /\ main \in {<<"initialize">>, <<"loop">>} \union {"ack"} \X Work \X {"accepted", "rejected"}
  /\ attempted \in BOOLEAN /\ object \in BOOLEAN /\ lifecycle \in {"none"} \union Scopes
  /\ active \subseteq Invocations /\ flagged \subseteq Work
  /\ retired \subseteq Invocations /\ IsFiniteSet(retired)
  /\ thread \in [Work -> {"none", "running", "calling", "written", "retired"}]
  /\ loopback \subseteq Scopes /\ outbounds \in Nat

\* A generation that has ended, or whose last owner is gone, leaves no child behind
\* (deactivate, abort, drop).
NoChildLeft == life = "ended" \/ isStopped => process = "dead"

\* Between a Host and a guest that both keep to the protocol a generation fails for two
\* reasons only: the guest has served as many invocations as it keeps retired ids for, or
\* the Host stops with calls in flight (serve_v2_io, deactivate).  And one that has ended
\* leaves no child behind.
FailureHasCause ==
  /\ isFailed /\ mishaps = 0 =>
       Cardinality(retired) >= MaxRetired \/ stopStarted \/ life = "refused"
  /\ NoChildLeft

\* A call that waits for an event nobody can send any more.
Strands(c) == /\ calls[c].at = "waiting" /\ c \notin importing
              /\ channel[c] = <<>> /\ c \in pending /\ readerAt \in {"stopped", "failed"}

\* A reader that fails strands no call: the entry goes in before `failed' is looked at, so
\* the table is not retired in between unseen.  A clean stop strands a call in one case: the
\* guest takes its id off the active ones before it writes the settlement, a stop that
\* arrives in between is obeyed, and the settlement is never written; neither the stop nor
\* a later abort answers the entry (invoke, spawn_reader, deactivate, serve_v2_io).
StrandedOnlyByStop ==
  \A c \in Invocations: Strands(c) => readerAt = "stopped" /\ c \in retired /\ stopStarted

\* Every invocation that waits comes to an end: settled, lost, or killed by its
\* termination thread; or it is stranded by a stop, as above.
EveryInvocationSettles(c) ==
  calls[c].at = "waiting" ~> calls[c].at = "done" \/ (Strands(c) /\ readerAt = "stopped")

\* The runtime learns of every reader that fails: the monitor panics, or a stop has begun.
FailureReported == monitor = "watching" /\ readerAt = "failed" ~>
                     monitor = "panicked" \/ stopStarted

\* A stop ends: the child that reported its stop exits, so waiting for it without a limit
\* does not block the Host.
StopEnds == life = "reaping" ~> life = "ended"
---------------------------------------------------------------------------
(* The inductive invariant of the proofs.                                  *)

\* Where the tasks of the Host may be.
TasksFit ==
  /\ \A c \in Invocations: calls[c].at = "sending" => life = "active"
  /\ \A w \in importing: IF w \in Scopes THEN life = w ELSE calls[w].at = "waiting"
  /\ life \in {"stopping", "cleanup", "reaping", "ended"} => stopStarted
  /\ readerAt \in {"failing", "failed"} => isFailed
  /\ readerAt = "failed" => \A c \in pending \intersect Invocations: calls[c].at = "sending"
  /\ NoChildLeft

\* The work that the guest has taken on, by lifecycle scope.
LifecycleFits ==
  \A w \in Scopes: /\ thread[w] # "none" \/ w \in loopback => lifecycle = w
                   /\ w \in loopback => thread[w] = "none"

\* What a pipe or a channel holds: a frame of a kind, or one about w.
Holds(s, kind) == \E i \in 1..Len(s): s[i].kind = kind
Carries(s, w, kind) == \E i \in 1..Len(s): s[i].of = w /\ s[i].kind = kind

\* A stop was sent, after the last invocation; the guest obeys it when nothing is active; its
\* report is the last frame.
StopSent == stopStarted /\ life \in {"cleanup", "reaping", "ended", "refused"}
NoneAfterStop(s) ==
  \A i, j \in 1..Len(s): i < j /\ s[i].kind = "stop" => s[j].kind # "invoke"
StoppedIsLast(s) == \A i \in 1..Len(s): s[i].kind = "stopped" => i = Len(s)
StopObeyed ==
  /\ Holds(toGuest, "stop") => StopSent
  /\ NoneAfterStop(toGuest)
  /\ lifecycle = "cleanup" => StopSent /\ active = {} /\ ~Holds(toGuest, "invoke")
  /\ Holds(toHost, "stopped") => StopSent /\ process = "dead"
  /\ StoppedIsLast(toHost)
  /\ readerAt = "stopped" => StopSent /\ process = "dead" /\ toHost = <<>>

\* A call that waits is somewhere: on its way to the guest, in its hands, or settled.
Settling(c) == \/ c \in retired \/ Carries(toHost, c, "settlement")
               \/ Carries(channel[c], c, "settlement")
StopReported == readerAt = "stopped" \/ Holds(toHost, "stopped")
Accounted ==
  \A c \in pending \intersect Invocations: calls[c].at = "waiting" =>
    /\ Running => Settling(c) \/ c \in active \/ Carries(toGuest, c, "invoke")
    /\ StopReported => Settling(c)

\* The frames of a pipe or a channel that are about w: none, one of a kind, results only,
\* results and then the settlement.
NoneOf(s, w) == \A i \in 1..Len(s): s[i].of # w
OnlyOf(s, w, kind) ==
  \E i \in 1..Len(s): /\ s[i].of = w /\ s[i].kind = kind
                      /\ \A j \in 1..Len(s): s[j].of = w => j = i
ResultsOf(s, w) == \A i \in 1..Len(s): s[i].of = w => s[i].kind = "result"
SettlesOf(s, w) ==
  \E i \in 1..Len(s): /\ s[i].of = w /\ s[i].kind = "settlement"
                      /\ \A j \in 1..Len(s): s[j].of = w /\ j # i => j < i /\ s[j].kind = "result"

\* Nothing is under way for w; a frame is on its way to the guest; or an outbound call of w is
\* being made: it is in a pipe, with the Host's task, or on its way back.
HostKnows(w) == ~NoneOf(toHost, w) \/ ~NoneOf(channel[w], w) \/ w \in importing
Nowhere(w) == NoneOf(toGuest, w) /\ ~HostKnows(w)
Asked(w, kind) == OnlyOf(toGuest, w, kind) /\ ~HostKnows(w) /\ thread[w] = "none"
CallsOut(w) ==
  /\ thread[w] = "calling"
  /\ \/ OnlyOf(toGuest, w, "outboundresult") /\ ~HostKnows(w)
     \/ /\ NoneOf(toGuest, w)
        /\ \/ w \in importing /\ NoneOf(toHost, w) /\ NoneOf(channel[w], w)
           \/ w \notin importing /\ OnlyOf(toHost, w, "outbound") /\ NoneOf(channel[w], w)
           \/ w \notin importing /\ NoneOf(toHost, w) /\ OnlyOf(channel[w], w, "outbound")
Works(w) == (thread[w] = "running" /\ Nowhere(w)) \/ CallsOut(w)
Rests(w) == thread[w] = "none" /\ Nowhere(w)

\* Two ends that keep to the protocol, before the construction ...
Starts ==
  /\ ~attempted /\ lifecycle = "none" /\ loopback = {} /\ pending = {} /\ importing = {}
  /\ \A w \in Work: thread[w] = "none" /\ channel[w] = <<>>
  /\ \/ /\ life = "prepared" /\ slots = {} /\ main = <<"initialize">>
        /\ toGuest = <<>> /\ toHost = <<>>
     \/ /\ life = "initializing" /\ slots = {"initialized"} /\ reply = "none"
        /\ main = <<"initialize">> /\ toHost = <<>>
        /\ toGuest = <<Message("initialize", "construct", "ok")>>
     \/ /\ life = "initializing" /\ slots = {"initialized"} /\ reply = "none"
        /\ main = <<"loop">> /\ toGuest = <<>>
        /\ toHost = <<Message("initialized", "construct", "ok")>>
     \/ /\ life = "initializing" /\ slots = {} /\ reply = "ok" /\ main = <<"loop">>
        /\ toGuest = <<>> /\ toHost = <<>>

\* ... in it ...
Constructs ==
  /\ life = "construct" /\ pending = {"construct"} /\ main = <<"loop">>
  /\ IF slots = {} THEN reply # "none" ELSE slots = {"constructed"} /\ reply = "none"
  /\ \/ /\ ~attempted /\ lifecycle = "none" /\ loopback = {} /\ slots # {}
        /\ Asked("construct", "construct")
     \/ /\ lifecycle = "construct" /\ loopback = {} /\ slots # {} /\ Works("construct")
     \/ /\ lifecycle = "construct" /\ loopback = {"construct"} /\ slots # {} /\ Rests("construct")
     \/ /\ lifecycle = "none" /\ loopback = {} /\ slots # {}
        /\ thread["construct"] = "none" /\ "construct" \notin importing
        /\ NoneOf(toGuest, "construct") /\ NoneOf(channel["construct"], "construct")
        /\ OnlyOf(toHost, "construct", "constructed")
        /\ \A i \in 1..Len(toHost): toHost[i].mark = "ok" => object
     \/ /\ lifecycle = "none" /\ loopback = {} /\ slots = {} /\ (reply = "ok" => object)
        /\ Rests("construct")

\* ... and after it, until the child stops.
Stops ==
  /\ slots = {"stopped"} /\ reply = "none" /\ "cleanup" \in pending /\ stopStarted
  /\ \/ /\ life = "stopping" /\ lifecycle = "none" /\ loopback = {} /\ Rests("cleanup")
     \/ /\ life = "cleanup" /\ lifecycle = "none" /\ loopback = {} /\ Asked("cleanup", "stop")
     \/ /\ life = "cleanup" /\ lifecycle = "cleanup" /\ loopback = {} /\ Works("cleanup")
     \/ /\ life = "cleanup" /\ lifecycle = "cleanup" /\ loopback = {"cleanup"}
        /\ Rests("cleanup")
Serves ==
  /\ main = <<"loop">> /\ object /\ "construct" \notin pending /\ Rests("construct")
  /\ \/ /\ life \in {"constructed", "active"} /\ lifecycle = "none" /\ loopback = {}
        /\ slots = {} /\ "cleanup" \notin pending /\ Rests("cleanup")
     \/ Stops

\* The way of an invocation through both ends: asked for, worked on, ended, settled.
Ending(c) ==
  /\ \/ thread[c] = "written" /\ c \in active \ retired
     \/ thread[c] = "retired" /\ c \notin active
  /\ NoneOf(toGuest, c) /\ c \notin importing
  /\ ResultsOf(toHost, c) /\ ResultsOf(channel[c], c)
Settled(c) ==
  /\ thread[c] = "none" /\ c \notin active
  /\ NoneOf(toGuest, c) /\ c \notin importing
  /\ \/ NoneOf(toHost, c) /\ SettlesOf(channel[c], c)
     \/ SettlesOf(toHost, c) /\ ResultsOf(channel[c], c)
Served(c) ==
  /\ c \in pending <=> Listening(c)
  /\ calls[c].at \in {"new", "sending"} => c \notin active \union retired /\ Rests(c)
  /\ calls[c].at = "done" => c \notin active /\ Rests(c)
  /\ calls[c].at = "waiting" => \/ Asked(c, "invoke") /\ c \notin active \union retired
                                \/ Works(c) /\ c \in active \ retired
                                \/ Ending(c) \/ Settled(c)

\* Nothing is cancelled, and every frame is valid and in its place.
Valid(s) == \A i \in 1..Len(s): s[i].mark # Invalid
About(s, w) == \A i \in 1..Len(s): s[i].of = w
Undisturbed ==
  /\ timers = {} /\ flagged = {} /\ Valid(toHost)
  /\ \A w \in Work: Valid(channel[w]) /\ About(channel[w], w)

InOrder ==
  /\ ~isFailed /\ ~isStopped /\ readerAt = "reading"
  /\ Undisturbed
  /\ Starts \/ Constructs \/ Serves
  /\ Starts \/ Constructs => Rests("cleanup") /\ \A c \in Invocations: calls[c].at = "new"
  /\ \A c \in Invocations: Served(c)

\* Whoever keeps to the protocol has a reason to end: while the child runs the session is in
\* order, or was refused before it served.
Agreed ==
  IF Running
  THEN \/ InOrder
       \/ life = "refused" /\ \A c \in Invocations: calls[c].at = "new" /\ c \notin pending
  ELSE Cardinality(retired) >= MaxRetired \/ stopStarted \/ life = "refused"

SessionInv ==
  /\ SessionTypeOK /\ TasksFit /\ LifecycleFits /\ StopObeyed /\ Accounted
  /\ mishaps = 0 => Agreed

\* An entry outlives its invocation only after something went wrong or the child died: in
\* normal operation the table holds the calls in progress and nothing else, so that its
\* limit is one of calls in progress (the early returns of invoke leave their entry behind).
\* And it outlives the thread that answers entries in one race only.  Both follow from the
\* invariant, which the runs check beside them.
EntriesHaveOwners ==
  /\ \A c \in Invocations: c \in pending /\ mishaps = 0 /\ Running => Listening(c)
  /\ StrandedOnlyByStop
  /\ SessionInv
=============================================================================
