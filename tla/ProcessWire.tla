---------------------------- MODULE ProcessWire ----------------------------
(***************************************************************************)
(* What the two ends of a Process V2 session share: the child process and  *)
(* its two pipes.  A frame names the work it is about: an invocation, or   *)
(* one of the lifecycle scopes "construct" and "cleanup".                  *)
(***************************************************************************)
EXTENDS Integers, Sequences, FiniteSets

CONSTANTS
  Invocations,  \* the invocations the Host makes, each under an id of its own
  MaxOutbound,  \* how many calls the child makes to its dependencies
  Faults        \* what may go wrong: "cancel" and "drop" (a call is cancelled, or
                \* dropped at its deadline), "frame" (a frame is too long to be
                \* written), "lifecycle" (a lifecycle step is cancelled), "exit"
                \* and "breach" (the child exits, or breaks the protocol)

VARIABLES
  process,  \* "running" or "dead"
  toGuest,  \* frames the Host has written and the child has not read
  toHost    \* frames the child has written and the Host has not read

wire == <<process, toGuest, toHost>>

Scopes == {"construct", "cleanup"}
Work == Invocations \union Scopes

\* A frame; `mark' is what its kind adds: an outcome, a state, an acceptance.
Message(kind, of, mark) == [kind |-> kind, of |-> of, mark |-> mark]
\* A frame that parses and fails the validation of its receiver.
Invalid == "invalid"

WireInit == process = "running" /\ toGuest = <<>> /\ toHost = <<>>
=============================================================================
