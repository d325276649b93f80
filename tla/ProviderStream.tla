---------------------------- MODULE ProviderStream ----------------------------
(***************************************************************************)
(* A stream between a Plugin that provides it and its consumer             *)
(* (lenso/src/provider_stream.rs): a bounded channel each way, one         *)
(* cancellation, and a terminal outcome.  A send of the consumer is a      *)
(* future of its own, which reaches the channel when it is first polled;   *)
(* several receives may wait together.  The provider does one thing at a   *)
(* time.  Either may drop a future, or its whole end.                      *)
(*                                                                         *)
(* External: the channels (an item is in the queue at once; its sender     *)
(* waits until it is among the first Capacity), the Plugin, the consumer.  *)
(***************************************************************************)
EXTENDS Naturals, Sequences, FiniteSets

CONSTANTS Sends, Receives,   \* futures of the consumer
          Messages,          \* of the provider
          Capacity

VARIABLES incoming, outgoing,   \* the channels
          cancelled,
          input,     \* input[s]: a send, or the close_send, of the consumer
          receive,   \* receive[r]: idle, waiting, or what came of it
          closed, ended, gone,  \* the consumer has closed its direction, seen the end, left
          given,     \* what its receives were given
          doing, item,          \* what the provider is at, and the output it sends
          sendClosed, terminated, completing, dropped,   \* its channel
          sent                  \* outputs whose send returned well

consumerEnd == <<input, receive, closed, ended, gone, given>>
providerEnd == <<doing, item, sendClosed, terminated, completing, dropped, sent>>
provided == <<incoming, outgoing, cancelled, consumerEnd, providerEnd>>

Inputs == Sends \cup {"closed"}
Output == Messages \cup {"closed", "terminal"}

ProvidedInit ==
  /\ incoming = <<>> /\ outgoing = <<>> /\ cancelled = FALSE
  /\ input = [s \in Inputs |-> "idle"] /\ receive = [r \in Receives |-> "idle"]
  /\ closed = FALSE /\ ended = FALSE /\ gone = FALSE /\ given = <<>>
  /\ doing = "none" /\ item = "none" /\ sendClosed = FALSE /\ terminated = FALSE
  /\ completing = FALSE /\ dropped = FALSE /\ sent = {}

At(x, s) == \E k \in DOMAIN s: s[k] = x

\* The item is not in the queue, or in the part that holds no sender back.
HasRoom(queue, x) == \A k \in DOMAIN queue: queue[k] = x => k <= Capacity

Over == cancelled \/ ended

-----------------------------------------------------------------------------
(* The consumer's end                                                      *)

\* send and close_send are judged when they are called.
Make(s) ==
  /\ input[s] = "idle" /\ ~gone
  /\ input' = [input EXCEPT ![s] = IF Over \/ closed THEN "done" ELSE "made"]
  /\ closed' = (closed \/ (s = "closed" /\ ~Over))
  /\ UNCHANGED <<incoming, outgoing, cancelled, receive, ended, gone, given, providerEnd>>

\* The first poll puts it into the channel, cancelled or not.
Poll(s) ==
  /\ input[s] = "made"
  /\ IF dropped THEN input' = [input EXCEPT ![s] = "done"] /\ UNCHANGED incoming
     ELSE input' = [input EXCEPT ![s] = "queued"] /\ incoming' = Append(incoming, s)
  /\ UNCHANGED <<outgoing, cancelled, receive, closed, ended, gone, given, providerEnd>>

\* It counts as sent when there is room, or no receiver left; else it is refused.
InputReturns(s) ==
  /\ input[s] = "queued"
  /\ HasRoom(incoming, s) \/ dropped \/ cancelled
  /\ input' = [input EXCEPT ![s] = "done"]
  /\ UNCHANGED <<incoming, outgoing, cancelled, receive, closed, ended, gone, given, providerEnd>>

\* A future that is dropped leaves its item.
DropInput(s) ==
  /\ input[s] \in {"made", "queued"} /\ input' = [input EXCEPT ![s] = "done"]
  /\ UNCHANGED <<incoming, outgoing, cancelled, receive, closed, ended, gone, given, providerEnd>>

Receive(r) ==
  /\ receive[r] = "idle" /\ ~gone
  /\ receive' = [receive EXCEPT ![r] = IF Over THEN "done" ELSE "waiting"]
  /\ UNCHANGED <<incoming, outgoing, cancelled, input, closed, ended, gone, given, providerEnd>>

\* An output that is there is taken, cancelled or not; a provider that left without an outcome is
\* a failure, for a second receive also one that left with it.
ReceiveReturns(r) ==
  /\ receive[r] = "waiting"
  /\ \/ /\ outgoing # <<>> /\ outgoing' = Tail(outgoing) /\ given' = Append(given, Head(outgoing))
        /\ receive' = [receive EXCEPT ![r] = "done"]
        /\ ended' = (ended \/ Head(outgoing) = "terminal")
     \/ /\ outgoing = <<>> /\ (dropped \/ cancelled) /\ UNCHANGED <<outgoing, given, ended>>
        /\ receive' = [receive EXCEPT ![r] = IF dropped THEN "failure" ELSE "done"]
  /\ UNCHANGED <<incoming, cancelled, input, closed, gone, providerEnd>>

Cancel ==
  /\ ~cancelled /\ cancelled' = TRUE
  /\ UNCHANGED <<incoming, outgoing, consumerEnd, providerEnd>>

\* The session is dropped when nothing of it is under way.
Disconnect ==
  /\ ~gone /\ gone' = TRUE
  /\ \A s \in Inputs: input[s] \notin {"made", "queued"}
  /\ \A r \in Receives: receive[r] # "waiting"
  /\ UNCHANGED <<incoming, outgoing, cancelled, input, receive, closed, ended, given, providerEnd>>

-----------------------------------------------------------------------------
(* The provider's end                                                      *)

Idle == doing = "none" /\ ~dropped

Allowed(x) == ~terminated /\ (x # "terminal" => ~sendClosed)

\* send, close_send, and finish, fail or fail_runtime: the flags are set before anything is sent,
\* and a cancelled stream takes nothing more.
Marks(x) ==
  /\ sendClosed' = (sendClosed \/ x = "closed")
  /\ terminated' = (terminated \/ x = "terminal")

Begin(x) ==
  /\ Idle /\ Allowed(x) /\ ~At(x, outgoing \o given)
  /\ completing => x = IF sendClosed THEN "terminal" ELSE "closed"
  /\ Marks(x)
  /\ IF cancelled THEN UNCHANGED <<doing, item>> /\ dropped' = completing
     ELSE doing' = "made" /\ item' = x /\ UNCHANGED dropped
  /\ UNCHANGED <<incoming, outgoing, cancelled, consumerEnd, completing, sent>>

\* complete consumes the channel: it closes, terminates and leaves.
Complete ==
  /\ Idle /\ ~completing /\ completing' = TRUE /\ dropped' = terminated
  /\ UNCHANGED <<incoming, outgoing, cancelled, consumerEnd, doing, item, sendClosed, terminated, sent>>

Ends(well) ==
  /\ doing' = "none" /\ item' = "none"
  /\ sent' = IF well THEN sent \cup {item} ELSE sent
  /\ dropped' = (completing /\ (~well \/ item = "terminal"))

\* An earlier send that was given up may still hold this one back.
Push ==
  /\ doing = "made" /\ ~gone /\ Len(outgoing) <= Capacity
  /\ outgoing' = Append(outgoing, item) /\ doing' = "queued"
  /\ UNCHANGED <<incoming, cancelled, consumerEnd, item, sendClosed, terminated, completing, dropped, sent>>

OutputReturns ==
  /\ \/ doing = "made" /\ (gone \/ (cancelled /\ Len(outgoing) > Capacity)) /\ Ends(FALSE)
     \/ doing = "queued" /\ (HasRoom(outgoing, item) \/ gone) /\ Ends(TRUE)
     \/ doing = "queued" /\ ~HasRoom(outgoing, item) /\ ~gone /\ cancelled /\ Ends(FALSE)
  /\ UNCHANGED <<incoming, outgoing, cancelled, consumerEnd, sendClosed, terminated, completing>>

\* The Plugin gives up a send; its flags stay set.
DropOutput ==
  /\ doing \in {"made", "queued"} /\ ~completing /\ doing' = "none" /\ item' = "none"
  /\ UNCHANGED <<incoming, outgoing, cancelled, consumerEnd, sendClosed, terminated, completing, dropped, sent>>

Listen ==
  /\ Idle /\ ~completing /\ ~cancelled /\ doing' = "receive"
  /\ UNCHANGED <<incoming, outgoing, cancelled, consumerEnd, item, sendClosed, terminated, completing, dropped, sent>>

\* No sender is left when the session is gone.
ListenReturns ==
  /\ doing = "receive" /\ doing' = "none"
  /\ \/ incoming # <<>> /\ incoming' = Tail(incoming)
     \/ incoming = <<>> /\ (gone \/ cancelled) /\ UNCHANGED incoming
  /\ UNCHANGED <<outgoing, cancelled, consumerEnd, item, sendClosed, terminated, completing, dropped, sent>>

\* The Plugin's task ends without an outcome.
DropChannel ==
  /\ Idle /\ ~completing /\ dropped' = TRUE
  /\ UNCHANGED <<incoming, outgoing, cancelled, consumerEnd, doing, item, sendClosed, terminated, completing, sent>>

ConsumerStep == \/ \E s \in Inputs: InputReturns(s)
                \/ \E r \in Receives: ReceiveReturns(r)
ProviderStep == Push \/ OutputReturns \/ ListenReturns \/ (completing /\ \E x \in Output: Begin(x))
ProvidedNext ==
  \/ ConsumerStep \/ ProviderStep \/ Cancel \/ Disconnect
  \/ \E s \in Inputs: Make(s) \/ Poll(s) \/ DropInput(s)
  \/ \E r \in Receives: Receive(r)
  \/ \E x \in Output: Begin(x)
  \/ Complete \/ DropOutput \/ Listen \/ DropChannel

ProvidedSpec == ProvidedInit /\ [][ProvidedNext]_provided

-----------------------------------------------------------------------------
(* Properties                                                              *)

\* The outcome is the last word: nothing follows it, everything the provider has sent before was
\* given first, and a consumer that hears of no outcome was not owed one (it gave it to another
\* receive, or the provider had not sent it).
OutcomeIsLast ==
  /\ \A k \in DOMAIN given: given[k] = "terminal" =>
       k = Len(given) /\ \A x \in sent: At(x, given)
  /\ (\E r \in Receives: receive[r] = "failure") => At("terminal", given) \/ "terminal" \notin sent

\* A stream that was cancelled, or left by the other end, holds nobody.
StreamHolds ==
  \/ (cancelled \/ dropped) /\ \/ \E r \in Receives: receive[r] = "waiting"
                               \/ \E s \in Inputs: input[s] = "queued"
  \/ (cancelled \/ gone) /\ ~dropped /\ doing # "none"
=============================================================================
