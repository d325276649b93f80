----------------------------- MODULE LaneStreams -----------------------------
(***************************************************************************)
(* Streams that cross lanes (replicated/interaction_transfer.rs).  The     *)
(* provider's lane keeps the stream in a table, under a session id that    *)
(* the consumer's lane drew; the consumer holds a session with that id and *)
(* a cancellation word that both lanes see.  A cleanup task on the         *)
(* provider's lane waits for the word to be settled, and then for its      *)
(* cancellation, and takes the stream out of the table.                    *)
(***************************************************************************)
EXTENDS Integers, FiniteSets, Functions

CONSTANTS
  Streams,    \* sessions that consumers open, each on a lane of its own
  MaxActions  \* sends, receives and closes, over all sessions

VARIABLES
  nextSession, \* the counter of session ids, one per Capability
  id,          \* [stream -> its session id, 0 before]
  word,        \* [stream -> TransferredCancellation: "pending", "accepted" or "cancelled"]
  consumer,    \* [stream -> "new", "sending", "opening", "open", "acting" or "gone"]
  opening,     \* [stream -> the task that opens it: "none", "queued", "opening", "opened",
               \* "refused" or "dropped"]
  table,       \* stream_sessions of the provider's lane: id -> stream
  native,      \* [stream -> the provider's stream: "none", "live", "cancelled" or "over"]
  cleaner,     \* [stream -> "none", "settling", "waiting" or "done"]
  action,      \* [stream -> "none", "queued", "running", "answered" or "dropped"]
  acting,      \* [stream -> the stream that its running action holds]
  laneUp,      \* does the provider's lane run?
  actions

streamVars == <<nextSession, id, word, consumer, opening, table, native, cleaner, action, acting,
                laneUp, actions>>

Nobody == "nobody"

StreamInit ==
  /\ nextSession = 1 /\ id = [s \in Streams |-> 0] /\ word = [s \in Streams |-> "pending"]
  /\ consumer = [s \in Streams |-> "new"] /\ opening = [s \in Streams |-> "none"]
  /\ table = <<>> /\ native = [s \in Streams |-> "none"] /\ cleaner = [s \in Streams |-> "none"]
  /\ action = [s \in Streams |-> "none"] /\ acting = [s \in Streams |-> {}]
  /\ laneUp = TRUE /\ actions = 0

Moves(f, s, to) == [f EXCEPT ![s] = to]

---------------------------------------------------------------------------
(* The consumer.                                                           *)

\* Mutant: each lane counts its own sessions.
DrawOwn(s) == id' = [id EXCEPT ![s] = 1] /\ UNCHANGED nextSession

\* The id comes from a counter that the lanes share.
Draw(s) == id' = [id EXCEPT ![s] = nextSession] /\ nextSession' = nextSession + 1

\* An open begins, perhaps already cancelled.
Open(s) ==
  /\ consumer[s] = "new" /\ Draw(s)
  /\ consumer' = Moves(consumer, s, "sending")
  /\ \E w \in {"pending", "cancelled"}: word' = Moves(word, s, w)
  /\ UNCHANGED <<opening, table, native, cleaner, action, acting, laneUp, actions>>

\* The guard of an open that does not return a session is dropped armed.
Abandons(s) == consumer' = Moves(consumer, s, "gone") /\ word' = Moves(word, s, "cancelled")

SendOpen(s) ==
  /\ consumer[s] = "sending"
  /\ IF laneUp
     THEN /\ consumer' = Moves(consumer, s, "opening") /\ opening' = Moves(opening, s, "queued")
          /\ UNCHANGED word
     ELSE Abandons(s) /\ UNCHANGED opening
  /\ UNCHANGED <<nextSession, id, table, native, cleaner, action, acting, laneUp, actions>>

\* Cancellation, deadline, or the future is dropped.
GiveUpOpen(s) ==
  /\ consumer[s] \in {"sending", "opening"} /\ Abandons(s)
  /\ UNCHANGED <<nextSession, id, opening, table, native, cleaner, action, acting, laneUp, actions>>

\* finish_stream_open: accept() leaves a cancelled word alone.
Accept(s) == word' = Moves(word, s, IF word[s] = "pending" THEN "accepted" ELSE word[s])

FinishOpen(s) ==
  /\ consumer[s] = "opening" /\ opening[s] \in {"opened", "refused", "dropped"}
  /\ IF opening[s] = "opened" THEN Accept(s) /\ consumer' = Moves(consumer, s, "open")
     ELSE Abandons(s)
  /\ UNCHANGED <<nextSession, id, opening, table, native, cleaner, action, acting, laneUp, actions>>

\* A send, receive or close is sent to the provider's lane.
Act(s) ==
  /\ consumer[s] = "open" /\ actions < MaxActions /\ actions' = actions + 1
  /\ IF laneUp
     THEN consumer' = Moves(consumer, s, "acting") /\ action' = Moves(action, s, "queued")
     ELSE UNCHANGED <<consumer, action>>
  /\ UNCHANGED <<nextSession, id, word, opening, table, native, cleaner, acting, laneUp>>
HearAction(s) ==
  /\ consumer[s] = "acting" /\ action[s] \in {"answered", "dropped"}
  /\ consumer' = Moves(consumer, s, "open") /\ action' = Moves(action, s, "none")
  /\ UNCHANGED <<nextSession, id, word, opening, table, native, cleaner, acting, laneUp, actions>>

\* The session is cancelled or dropped, or its lane ends, also while an action runs.
Release(s) ==
  /\ consumer[s] \in {"open", "acting"} /\ Abandons(s)
  /\ UNCHANGED <<nextSession, id, opening, table, native, cleaner, action, acting, laneUp, actions>>

---------------------------------------------------------------------------
(* The provider's lane.                                                    *)

StartOpen(s) ==
  /\ laneUp /\ opening[s] = "queued"
  /\ opening' = Moves(opening, s, "opening")
  /\ UNCHANGED <<nextSession, id, word, consumer, table, native, cleaner, action, acting, laneUp,
                 actions>>

\* A stream that opened although its consumer has given up is cancelled at once.
Keeps(s) == word[s] # "cancelled"

EndOpen(s) ==
  /\ laneUp /\ opening[s] = "opening"
  /\ \/ /\ Keeps(s)
        /\ opening' = Moves(opening, s, "opened") /\ native' = Moves(native, s, "live")
        /\ table' = [i \in DOMAIN table \union {id[s]} |-> IF i = id[s] THEN s ELSE table[i]]
        /\ cleaner' = Moves(cleaner, s, "settling")
     \/ /\ ~Keeps(s)
        /\ opening' = Moves(opening, s, "refused") /\ native' = Moves(native, s, "cancelled")
        /\ UNCHANGED <<table, cleaner>>
     \/ opening' = Moves(opening, s, "refused") /\ UNCHANGED <<native, table, cleaner>>
  /\ UNCHANGED <<nextSession, id, word, consumer, action, acting, laneUp, actions>>

Removed(i) == table' = Restrict(table, DOMAIN table \ {i})

\* Mutant: an accepted session is not watched any longer.
AfterAcceptDone == "done"

AfterAccept == "waiting"

\* The cleanup task: settled, then cancelled; then the stream is cancelled and removed.
Cleans(s) ==
  /\ laneUp
  /\ \/ /\ cleaner[s] = "settling" /\ word[s] = "accepted"
        /\ cleaner' = Moves(cleaner, s, AfterAccept) /\ UNCHANGED <<table, native>>
     \/ /\ cleaner[s] \in {"settling", "waiting"} /\ word[s] = "cancelled"
        /\ cleaner' = Moves(cleaner, s, "done")
        /\ native' = IF id[s] \in DOMAIN table THEN Moves(native, table[id[s]], "cancelled")
                     ELSE native
        /\ Removed(id[s])
  /\ UNCHANGED <<nextSession, id, word, consumer, opening, action, acting, laneUp, actions>>

\* An action takes the stream from the table; it ends with an answer, with the end of the
\* stream or a failure, which take it out, or finds none.
StartAction(s) ==
  /\ laneUp /\ action[s] = "queued"
  /\ IF id[s] \in DOMAIN table
     THEN action' = Moves(action, s, "running") /\ acting' = Moves(acting, s, {table[id[s]]})
     ELSE action' = Moves(action, s, "answered") /\ UNCHANGED acting
  /\ UNCHANGED <<nextSession, id, word, consumer, opening, table, native, cleaner, laneUp, actions>>

EndAction(s) ==
  /\ laneUp /\ action[s] = "running"
  /\ action' = Moves(action, s, "answered") /\ acting' = Moves(acting, s, {})
  /\ \/ (\A n \in acting[s]: native[n] = "live") /\ UNCHANGED <<table, native>>
     \/ /\ Removed(id[s])
        /\ native' = [n \in Streams |-> IF n \in acting[s] /\ native[n] = "live" THEN "over"
                                        ELSE native[n]]
  /\ UNCHANGED <<nextSession, id, word, consumer, opening, cleaner, laneUp, actions>>

\* The lane ends, and everything on it is dropped.
LaneEnds ==
  /\ laneUp /\ laneUp' = FALSE /\ table' = <<>>
  /\ opening' = [s \in Streams |-> IF opening[s] \in {"queued", "opening"} THEN "dropped"
                                   ELSE opening[s]]
  /\ action' = [s \in Streams |-> IF action[s] \in {"queued", "running"} THEN "dropped"
                                  ELSE action[s]]
  /\ acting' = [s \in Streams |-> {}] /\ cleaner' = [s \in Streams |-> "done"]
  /\ native' = [s \in Streams |-> IF native[s] = "live" THEN "cancelled" ELSE native[s]]
  /\ UNCHANGED <<nextSession, id, word, consumer, actions>>

StreamConsumer(s) == SendOpen(s) \/ FinishOpen(s) \/ HearAction(s)
StreamProvider(s) == StartOpen(s) \/ EndOpen(s) \/ Cleans(s) \/ StartAction(s)
StreamNext == \/ LaneEnds
              \/ \E s \in Streams: \/ StreamConsumer(s) \/ StreamProvider(s) \/ EndAction(s)
                                   \/ Open(s) \/ GiveUpOpen(s) \/ Act(s) \/ Release(s)

---------------------------------------------------------------------------
(* Properties.                                                             *)

StreamTypeOK ==
  /\ DOMAIN table \subseteq 1..(nextSession - 1)
  /\ \A s \in Streams: consumer[s] # "new" => id[s] \in 1..(nextSession - 1)

\* A session never acts on a stream that another consumer opened, whichever lanes they are
\* on: the table is keyed by ids that the consumers draw (next_session_id).
OwnStream == \A s \in Streams: acting[s] \subseteq {s}

\* A stream whose consumer gave up, was cancelled or is gone does not stay open on the
\* provider's lane: neither race of cancellation against open leaves it behind.
StreamAbandoned(s) == consumer[s] = "gone" /\ native[s] = "live"
StreamReleased(s) == StreamAbandoned(s) ~> ~StreamAbandoned(s)
=============================================================================
