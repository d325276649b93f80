---------------------------- MODULE HostImports ----------------------------
(***************************************************************************)
(* The Capability imports of one byte-oriented guest generation            *)
(* (JsonHostImports of lenso-runtime-codec): the table of Plan bindings    *)
(* the guest may call, which exists between activation and deactivation,   *)
(* and the table of host streams the guest has open, each known to the     *)
(* guest by an Adapter-local number.                                       *)
(*                                                                         *)
(* An import either has its reply at once (Refusal, or an import that      *)
(* awaits nothing) or it awaits a provider; what it does to the tables     *)
(* when the provider has answered is Landed.  The providers behind the     *)
(* bindings are external: they answer with a value, a Domain Error or a    *)
(* Runtime Failure.                                                        *)
(***************************************************************************)
EXTENDS Integers, FiniteSets

CONSTANTS MaxHostStreams, \* limits.max_streams
          StreamIds,      \* the numbers a guest may name: 1..n, the last never assigned
          Kinds           \* the imports the guest calls in this instance

VARIABLES bindings,       \* bindings is Some: activated and not yet deactivated
          hostStreams,    \* the keys of streams
          nextHostStream  \* next_stream_id

imports == <<bindings, hostStreams, nextHostStream>>

\* A binding has handles for requests, streams or Events; binding 9 is not in the table.
BindingOf == [invoke |-> {1, 2, 9}, publish |-> {3, 1}, open |-> {2, 1}]
Handles == [invoke |-> {1}, publish |-> {3}, open |-> {2}]
Table == {1, 2, 3}

\* What a guest may ask: an operation of a binding, or of a stream by its number.
ImportCalls ==
  [op: {"bindings"} \cap Kinds]
    \cup UNION {[op: {k}, binding: BindingOf[k]]: k \in {"invoke", "publish", "open"} \cap Kinds}
    \cup [op: {"send", "receive", "close", "cancel"} \cap Kinds, stream: StreamIds]

ImportsInit == bindings = FALSE /\ hostStreams = {} /\ nextHostStream = 1

-----------------------------------------------------------------------------
(* The tables                                                              *)

\* binding: closed before activation and after deactivation, unknown numbers refused.
BindingError(b) ==
  IF ~bindings THEN "admission_closed" ELSE IF b \notin Table THEN "protocol" ELSE "none"

\* open_stream checks the limit before anything else.
OpenRefusal(b) ==
  IF Cardinality(hostStreams) >= MaxHostStreams THEN "exhausted"
  ELSE IF BindingError(b) # "none" THEN BindingError(b)
  ELSE IF b \notin Handles.open THEN "unknown_operation" ELSE "none"

\* invoke and publish_event: the binding must have the handle of the interaction.
InvokeRefusal(k, b) ==
  IF BindingError(b) # "none" THEN BindingError(b)
  ELSE IF b \notin Handles[k] THEN "unknown_operation" ELSE "none"

\* send_stream, receive_stream and close_stream_send: the stream must be in the table.
StreamRefusal(s) == IF s \notin hostStreams THEN "protocol" ELSE "none"

Refusal(i) ==
  CASE i.op = "bindings" -> IF bindings THEN "none" ELSE "admission_closed"
    [] i.op = "open" -> OpenRefusal(i.binding)
    [] i.op \in {"invoke", "publish"} -> InvokeRefusal(i.op, i.binding)
    [] OTHER -> StreamRefusal(i.stream)

\* The binding table and cancel_stream answer without awaiting anything.
Awaits(i) == i.op \notin {"bindings", "cancel"}

\* What an accepted import may come back with.
Results(i) ==
  CASE i.op = "bindings" -> {"ok"}
    [] i.op = "invoke" -> {"ok", "error", "runtime"}
    [] i.op = "open" -> {"ok", "error", "runtime"}
    [] i.op = "receive" -> {"message", "half", "terminal", "runtime"}
    [] OTHER -> {"ok", "runtime"}

\* The tables after import i came back with r: an opened stream gets the next number, a stream
\* that ended leaves the table.  cancel_stream removes and cancels.
Landed(i, r) ==
  /\ UNCHANGED bindings
  /\ hostStreams' =
       CASE i.op = "open" /\ r = "ok" -> hostStreams \cup {nextHostStream}
         [] i.op = "receive" /\ r = "terminal" -> hostStreams \ {i.stream}
         [] i.op = "cancel" -> hostStreams \ {i.stream}
         [] OTHER -> hostStreams
  /\ nextHostStream' = IF i.op = "open" /\ r = "ok" THEN nextHostStream + 1 ELSE nextHostStream

\* Bound: the last stream number is never assigned.
CanNumber(i) == i.op = "open" => nextHostStream + 1 \in StreamIds

\* activate: refused when the table exists already.
ActivateImports == ~bindings /\ bindings' = TRUE /\ UNCHANGED <<hostStreams, nextHostStream>>

\* deactivate: closes admission, cancels every stream of the guest.
DeactivateImports == bindings' = FALSE /\ hostStreams' = {} /\ UNCHANGED nextHostStream

-----------------------------------------------------------------------------
(* Properties                                                              *)

\* A guest holds at most max_streams host streams, none of them outside an activation, and a
\* number is not given to a second stream while the first is open (open_stream checks the limit
\* before it awaits the provider and takes the number after).
ImportTableSound ==
  /\ Cardinality(hostStreams) <= MaxHostStreams
  /\ hostStreams # {} => bindings
  /\ \A s \in hostStreams: s < nextHostStream
=============================================================================
