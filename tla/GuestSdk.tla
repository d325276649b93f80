------------------------------ MODULE GuestSdk ------------------------------
(***************************************************************************)
(* The guest's side of its Capability imports (crates/lenso-guest-sdk):    *)
(* the binding table it loads and the clients it makes from it, the        *)
(* handles of the host streams it opened, and the sessions it issues ids   *)
(* for.  The other side is HostImports.                                    *)
(*                                                                         *)
(* A guest runs one call at a time and is blocked while the Host serves an *)
(* import, so an import and what the SDK does with its reply are one step. *)
(*                                                                         *)
(* External: the Adapter between the two, which refuses the imports of a   *)
(* call over its limit, closes them when the call is abandoned, and ends   *)
(* an abandoned guest; and the plugin's own code, which uses the SDK as it *)
(* likes.                                                                  *)
(***************************************************************************)
EXTENDS HostImports

CONSTANTS MaxImports,  \* limits.max_host_imports_per_call
          IdCount,     \* numbers of a session id (2^64, as it is a u64)
          SdkCalls     \* bound: calls the guest serves

\* Streams and sessions are numbered from 1.
ASSUME NumbersAssumption ==
  StreamIds \subseteq Nat /\ 1 \in StreamIds /\ IdCount \in Nat /\ IdCount > 1

VARIABLES guest,       \* idle, calling, abandoned, dead
          served,      \* calls begun
          imported,    \* imports of the call so far
          clients,     \* the bindings the guest has clients for; {0}: the table is not loaded
          handles,     \* per stream number: none, open, finished
          strays,      \* history: streams whose cancel did not reach the Host
          nextId, sessions

sdkGuest == <<guest, served, imported>>
sdkStreams == <<clients, handles, strays>>
sdkTable == <<nextId, sessions>>
sdkVars == <<imports, sdkGuest, sdkStreams, sdkTable>>

NotLoaded == {0}

SdkInit ==
  /\ ImportsInit
  /\ guest = "idle" /\ served = 0 /\ imported = 0
  /\ clients = NotLoaded /\ handles = [s \in StreamIds |-> "none"] /\ strays = {}
  /\ nextId = 1 /\ sessions = {}

-----------------------------------------------------------------------------
(* The Adapter                                                             *)

SdkActivate == guest = "idle" /\ served = 0 /\ ActivateImports /\ UNCHANGED <<sdkGuest, sdkStreams, sdkTable>>

\* A generation is deactivated between calls and not used again.
SdkDeactivate ==
  /\ guest \in {"idle", "dead"} /\ bindings /\ DeactivateImports
  /\ guest' = "dead" /\ UNCHANGED <<served, imported, sdkStreams, sdkTable>>

SdkBeginCall ==
  /\ guest = "idle" /\ bindings /\ served < SdkCalls
  /\ guest' = "calling" /\ served' = served + 1 /\ imported' = 0
  /\ UNCHANGED <<imports, sdkStreams, sdkTable>>

SdkEndCall == guest = "calling" /\ guest' = "idle" /\ UNCHANGED <<imports, served, imported, sdkStreams, sdkTable>>

\* The caller gives up; the guest runs until it is interrupted.
AbandonCall ==
  /\ guest = "calling" /\ guest' = "abandoned"
  /\ UNCHANGED <<imports, served, imported, sdkStreams, sdkTable>>
Trap ==
  /\ guest \in {"calling", "abandoned"} /\ guest' = "dead"
  /\ UNCHANGED <<imports, served, imported, sdkStreams, sdkTable>>

Running == guest \in {"calling", "abandoned"}

\* Import i is made and comes back with r: "closed" to an abandoned call, "limit" to a call that
\* made too many, "refused" by the tables, or what the provider answered.  The last is the only
\* one that changes the tables.
Reply(i, r) ==
  /\ Running /\ imported <= MaxImports
  /\ imported' = imported + 1 /\ UNCHANGED <<guest, served>>
  /\ IF guest = "abandoned" THEN r = "closed" /\ UNCHANGED imports
     ELSE IF imported + 1 > MaxImports THEN r = "limit" /\ UNCHANGED imports
     ELSE IF Refusal(i) # "none" THEN r = "refused" /\ UNCHANGED imports
     ELSE CanNumber(i) /\ r \in Results(i) /\ Landed(i, r)

-----------------------------------------------------------------------------
(* Clients                                                                 *)

CapabilityOf == [b \in Table |-> CASE b = 2 -> "stream" [] OTHER -> "other"]
OperationsOf(b) == {k \in {"invoke", "publish", "open"}: b \in Handles[k]}

\* GuestContext::load
Load(r) ==
  /\ clients = NotLoaded /\ Reply([op |-> "bindings"], r)
  /\ clients' = IF r = "ok" THEN {} ELSE clients
  /\ UNCHANGED <<handles, strays, sdkTable>>

\* require and require_named: exactly one binding matches, and it has the operations of the
\* generated client.
Resolves(matches, b, capability, operations) ==
  /\ matches = {b} /\ CapabilityOf[b] = capability /\ OperationsOf(b) = operations

Require(b, capability, operations) ==
  /\ Running /\ clients # NotLoaded
  /\ \/ Resolves({x \in Table: CapabilityOf[x] = capability}, b, capability, operations)
     \/ Resolves({b}, b, capability, operations)   \* the requirement's own binding
  /\ clients' = clients \cup {b}
  /\ UNCHANGED <<imports, sdkGuest, handles, strays, sdkTable>>

\* request and publish_event through a client
Ask(k, b, r) ==
  /\ b \in clients \ NotLoaded /\ b \in Handles[k] /\ Reply([op |-> k, binding |-> b], r)
  /\ UNCHANGED <<sdkStreams, sdkTable>>

-----------------------------------------------------------------------------
(* Host streams                                                            *)

\* open_stream: a handle for the number that came back.
OpenStream(b, r) ==
  /\ b \in clients \ NotLoaded /\ b \in Handles.open /\ Reply([op |-> "open", binding |-> b], r)
  /\ handles' = IF r = "ok" THEN [handles EXCEPT ![nextHostStream] = "open"] ELSE handles
  /\ UNCHANGED <<clients, strays, sdkTable>>

\* send and close_send look at nothing but the number, and keep nothing.
Use(k, s, r) ==
  /\ handles[s] # "none" /\ Reply([op |-> k, stream |-> s], r)
  /\ UNCHANGED <<sdkStreams, sdkTable>>

\* Mutant: the handle is finished once the terminal outcome has been decoded.
FinishedIfDecoded(s, r, decodes) ==
  IF r = "terminal" /\ decodes THEN [handles EXCEPT ![s] = "finished"] ELSE handles

\* The handle after a receive: a terminal frame finishes it, whether or not its payload decodes.
Finished(s, r, decodes) ==
  IF r = "terminal" THEN [handles EXCEPT ![s] = "finished"] ELSE handles

ReceiveStream(s, r, decodes) ==
  /\ handles[s] # "none" /\ Reply([op |-> "receive", stream |-> s], r)
  /\ handles' = Finished(s, r, decodes)
  /\ UNCHANGED <<clients, strays, sdkTable>>

\* The cancel of stream s came back with r.
Cancelled(s, r) ==
  strays' = IF handles[s] = "open" /\ r \in {"closed", "limit"} THEN strays \cup {s} ELSE strays

\* cancel: consumes the handle whatever the reply is.
CancelStream(s, r) ==
  /\ handles[s] # "none" /\ Reply([op |-> "cancel", stream |-> s], r)
  /\ Cancelled(s, r) /\ handles' = [handles EXCEPT ![s] = "none"]
  /\ UNCHANGED <<clients, sdkTable>>

\* Drop of an unfinished handle cancels; its reply is ignored.
DropHandle(s, r) ==
  /\ handles[s] = "open" /\ Reply([op |-> "cancel", stream |-> s], r)
  /\ Cancelled(s, r) /\ handles' = [handles EXCEPT ![s] = "none"]
  /\ UNCHANGED <<clients, sdkTable>>
DropFinished(s) ==
  /\ Running /\ handles[s] = "finished" /\ handles' = [handles EXCEPT ![s] = "none"]
  /\ UNCHANGED <<imports, sdkGuest, clients, strays, sdkTable>>

-----------------------------------------------------------------------------
(* Sessions of the streams the guest provides                              *)

\* GuestSessions::insert: after the last id none is issued any more.
Insert ==
  /\ Running /\ nextId # 0
  /\ nextId' = IF nextId + 1 = IdCount THEN 0 ELSE nextId + 1
  /\ sessions' = sessions \cup {nextId}
  /\ UNCHANGED <<imports, sdkGuest, sdkStreams>>

\* remove; an id that is not in the table is UnknownSession.
Remove(id) ==
  /\ Running /\ id \in sessions /\ sessions' = sessions \ {id}
  /\ UNCHANGED <<imports, sdkGuest, sdkStreams, nextId>>

-----------------------------------------------------------------------------
Replies == {"closed", "limit", "refused", "ok", "error", "runtime", "message", "half", "terminal"}

SdkNext ==
  \/ SdkActivate \/ SdkDeactivate \/ SdkBeginCall \/ SdkEndCall \/ AbandonCall \/ Trap \/ Insert
  \/ \E id \in sessions: Remove(id)
  \/ \E b \in Table: Require(b, CapabilityOf[b], OperationsOf(b))
  \/ \E s \in StreamIds: DropFinished(s)
  \/ \E r \in Replies:
       \/ Load(r)
       \/ \E b \in Table: OpenStream(b, r) \/ \E k \in {"invoke", "publish"}: Ask(k, b, r)
       \/ \E s \in StreamIds:
            \/ CancelStream(s, r) \/ DropHandle(s, r)
            \/ \E k \in {"send", "close"}: Use(k, s, r)
            \/ \E decodes \in BOOLEAN: ReceiveStream(s, r, decodes)

SdkSpec == SdkInit /\ [][SdkNext]_sdkVars

-----------------------------------------------------------------------------
(* Properties                                                              *)

Unfinished == {s \in StreamIds: handles[s] = "open"}

\* As long as the guest lives, it has an unfinished handle for each stream the Host keeps for it,
\* but for those whose cancel the Adapter did not pass on, and an unfinished handle always names
\* such a stream: the cancel of a handle that is dropped is never one for nothing, and a stream
\* is not kept, and counted against the limit, for a guest that let it go.
HandlesMatchStreams ==
  guest # "dead" /\ bindings =>
    Unfinished \subseteq hostStreams /\ hostStreams \subseteq Unfinished \cup strays

\* An id is not issued twice, and never zero, also when the ids run out.
SessionIdsFresh == 0 \notin sessions /\ (nextId # 0 => \A id \in sessions: id < nextId)
=============================================================================
