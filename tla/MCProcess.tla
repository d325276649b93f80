----------------------------- MODULE MCProcess -----------------------------
(***************************************************************************)
(* The generations of the Process adapter, protocol 1 (ProcessV1) and      *)
(* protocol 2 (ProcessSession), side by side.  They share no state, so a   *)
(* behaviour runs one of them: `part' says which, and the other stays in   *)
(* its initial state.                                                      *)
(***************************************************************************)
EXTENDS ProcessV1, ProcessSession

CONSTANTS c1, c2, c3

VARIABLE part

ThreeCalls == {c1, c2, c3}
TwoReplies == {{"ok"}, {"ok", "failure"}}
TwoInvocations == {c1, c2}
EveryFault == {"cancel", "drop", "frame", "lifecycle", "exit", "breach"}

vars == <<part, v1vars, v2vars>>

Init == /\ part \in {"process1", "process2"}
        /\ V1Init /\ V2Init

Next == \/ part = "process1" /\ V1Next /\ UNCHANGED <<part, v2vars>>
        \/ part = "process2" /\ V2Next /\ UNCHANGED <<part, v1vars>>

\* A fairness condition per kind of thread, over all the parts: only one part moves.
One(A) == part = "process1" /\ A /\ UNCHANGED <<part, v2vars>>
Two(A) == part = "process2" /\ A /\ UNCHANGED <<part, v1vars>>

FairSpec ==
  /\ Init /\ [][Next]_vars
  /\ WF_vars(One(V1Reader) \/ Two(HostReader /\ UNCHANGED guest))
  /\ WF_vars(One(V1Host) \/ Two(HostLife /\ UNCHANGED guest))
  /\ WF_vars(One(GuestAnswer) \/ Two(GuestMain /\ UNCHANGED session))
  /\ \A c \in Invocations: WF_vars(Two(HostCall(c) /\ UNCHANGED guest))
  /\ \A w \in Work: WF_vars(Two(HostImport(w) /\ UNCHANGED guest))
  /\ \A w \in Work: WF_vars(Two(GuestThread(w) /\ UNCHANGED session))

\* Calls that wait come to an end (they are interchangeable: what holds of one holds of
\* each), and so does a stop.
CallsSettle == EveryCallSettles(c1) /\ EveryInvocationSettles(c1)
\* A stop ends, and a generation that failed is reported to the runtime.
LifeEnds == StopEnds /\ FailureReported
=============================================================================
