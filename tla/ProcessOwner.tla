----------------------------- MODULE ProcessOwner -----------------------------
(***************************************************************************)
(* lenso-process-owner, the helper that owns one process group             *)
(* (lenso-runner/src/process_owner/mod.rs, relay.rs): its main loop, the   *)
(* threads that read the launcher and write to it, and the two threads of  *)
(* the relay between launcher and child.  The locks and records that keep  *)
(* a second owner off are in RootGuard; here they are `record' and `held'. *)
(***************************************************************************)
EXTENDS Integers, Sequences, FiniteSets

CONSTANTS
  RelayCapacity, \* requests queued for the child (8 in the code)
  EventCapacity, \* events queued for the launcher (16 in the code)
  StopFits,      \* does the stop frame fit into the pipe to the child as it is?
  MaxFrames,     \* frames from the launcher and from the child (a bound)
  OwnerMaxFaults

VARIABLES
  application, \* is the child's stdin and stdout relayed?
  leader,      \* the direct child: "running", "exited" (unreaped) or "reaped"
  others,      \* are other processes of its group alive?
  flags,       \* which of "stopping", "lost" and "invalid" are raised
  input,       \* the thread that reads the launcher: "reading", "storing" or "done"
  inbox,       \* how many requests wait in the relay
  slot,        \* is a stop in its slot?
  writer,      \* the relay's writer: "ready", "writing", "stopping" (it holds the lock of the
               \* slot) or "done"
  relayed,     \* the relay's reader: "reading" or "done"
  events,      \* for the launcher: "owned", "message", "confirmed", "unconfirmed"
  output,      \* the thread that writes them: "writing" or "done"
  main,        \* where the main thread stands
  deadline, verdict,
  record,      \* of the ownership: "unconfirmed" or "settled"
  held,        \* are its files locked?
  strayed,     \* ghost: was a group signalled after its leader was reaped?
  frames, ownerFaults

ioVars == <<input, inbox, slot, writer, relayed, events, output, frames>>
childVars == <<leader, others>>
mainVars == <<main, deadline, verdict, record, held, strayed>>
procVars == <<application, flags, ioVars, childVars, mainVars, ownerFaults>>

\* run() up to its loop: the child is spawned, and its ownership is announced.
ProcInit ==
  /\ application \in BOOLEAN /\ leader = "running" /\ others = FALSE /\ flags = {}
  /\ input = "reading" /\ inbox = 0 /\ slot = FALSE
  /\ writer = (IF application THEN "ready" ELSE "done")
  /\ relayed = (IF application THEN "reading" ELSE "done")
  /\ events = <<"owned">> /\ output = "writing"
  /\ main = "watch" /\ deadline = "none" /\ verdict = "none"
  /\ record = "unconfirmed" /\ held = TRUE /\ strayed = FALSE /\ frames = 0 /\ ownerFaults = 0

Up == main # "ended"
OwnerFault == ownerFaults < OwnerMaxFaults /\ ownerFaults' = ownerFaults + 1
Raise(f) == flags' = flags \union {f}
Framed == frames < MaxFrames /\ frames' = frames + 1

---------------------------------------------------------------------------
(* The child and its group.                                                *)

Forks == /\ leader = "running" /\ ~others /\ others' = TRUE
         /\ UNCHANGED <<application, flags, ioVars, leader, mainVars, ownerFaults>>
Exits == /\ \/ leader = "running" /\ leader' = "exited" /\ UNCHANGED others
            \/ others /\ others' = FALSE /\ UNCHANGED leader
         /\ UNCHANGED <<application, flags, ioVars, mainVars, ownerFaults>>

---------------------------------------------------------------------------
(* The threads that talk to the launcher.                                  *)

\* A stop; the end of the pipe; or a frame that is malformed, stale or not expected.
InputStop == /\ Framed /\ Raise("stopping") /\ UNCHANGED <<input, inbox>>
InputEof == /\ Raise("lost") /\ input' = "done" /\ UNCHANGED <<inbox, frames>>
InputBad == /\ Framed /\ Raise("invalid") /\ input' = "done" /\ UNCHANGED inbox
\* A request for the child goes into the queue, which must have room and a writer.
InputRequest ==
  /\ Framed /\ application
  /\ IF inbox < RelayCapacity /\ writer # "done"
     THEN inbox' = inbox + 1 /\ UNCHANGED <<flags, input>>
     ELSE Raise("invalid") /\ input' = "done" /\ UNCHANGED inbox
Input ==
  /\ Up /\ input = "reading"
  /\ InputStop \/ InputEof \/ InputBad \/ InputRequest
  /\ UNCHANGED <<application, childVars, slot, writer, relayed, events, output, mainVars, ownerFaults>>

\* A stop for the child: first into its slot, under the lock, then the flag.
Slotted == writer # "stopping" /\ slot' = (slot \/ writer # "done")
InputStopRequest ==
  /\ Up /\ input = "reading" /\ application /\ Framed
  /\ Slotted /\ input' = "storing"
  /\ UNCHANGED <<application, flags, childVars, inbox, writer, relayed, events, output, mainVars,
                 ownerFaults>>
InputStore ==
  /\ Up /\ input = "storing"
  /\ Raise("stopping") /\ input' = "reading"
  /\ UNCHANGED <<application, childVars, inbox, slot, writer, relayed, events, output, frames,
                 mainVars, ownerFaults>>

\* The launcher takes an event, or is no longer there.
Output ==
  /\ Up /\ output = "writing" /\ events # <<>>
  /\ events' = Tail(events)
  /\ \/ UNCHANGED <<output, flags>>
     \/ output' = "done" /\ Raise("lost")
  /\ UNCHANGED <<application, childVars, input, inbox, slot, writer, relayed, frames, mainVars,
                 ownerFaults>>

---------------------------------------------------------------------------
(* The relay.                                                              *)

\* The writer looks into the slot first; it keeps the lock while it writes the stop.
WriterTakes ==
  /\ Up /\ writer = "ready"
  /\ IF slot THEN writer' = "stopping" /\ slot' = FALSE /\ UNCHANGED inbox
     ELSE inbox > 0 /\ writer' = "writing" /\ inbox' = inbox - 1 /\ UNCHANGED slot
  /\ UNCHANGED <<application, flags, childVars, input, relayed, events, output, frames, mainVars,
                 ownerFaults>>
\* A frame fits into the pipe, or the child reads.
WriterWrote ==
  /\ Up /\ writer \in {"writing", "stopping"} /\ (leader = "running" \/ others)
  /\ writer' = IF writer = "writing" THEN "ready" ELSE "done"
  /\ UNCHANGED <<application, flags, childVars, input, inbox, slot, relayed, events, output,
                 frames, mainVars, ownerFaults>>
\* Nobody can read it any more.
WriterBroken ==
  /\ Up /\ writer \in {"writing", "stopping"} /\ leader # "running" /\ ~others
  /\ writer' = "done"
  /\ IF writer = "writing" THEN Raise("invalid") ELSE UNCHANGED flags
  /\ UNCHANGED <<application, childVars, input, inbox, slot, relayed, events, output, frames,
                 mainVars, ownerFaults>>

\* A message of the child, its end, or a frame that is malformed; a full queue is a breach.
Queue(e) == events' = Append(events, e)
Room == Len(events) < EventCapacity /\ output = "writing"
RelayReads ==
  /\ Up /\ relayed = "reading"
  /\ \/ Framed /\ Room /\ Queue("message") /\ UNCHANGED <<relayed, flags>>
     \/ Framed /\ ~Room /\ relayed' = "done" /\ Raise("invalid") /\ UNCHANGED events
     \/ Framed /\ relayed' = "done" /\ Raise("invalid") /\ UNCHANGED events
     \/ relayed' = "done" /\ UNCHANGED <<events, flags, frames>>
  /\ UNCHANGED <<application, childVars, input, inbox, slot, writer, output, mainVars, ownerFaults>>

---------------------------------------------------------------------------
(* The main thread.                                                        *)

Calm == UNCHANGED <<application, ioVars, ownerFaults>>

\* Mutant: looking at the child reaps it.
ObservedReaped == leader' = IF leader = "exited" THEN "reaped" ELSE leader

\* waitid with WNOWAIT: the child is left unreaped.
Observed == UNCHANGED leader

\* Each turn first looks at the child ...
WatchExit ==
  /\ main = "watch" /\ leader # "running"
  /\ main' = "kill" /\ Observed
  /\ Calm /\ UNCHANGED <<flags, others, deadline, verdict, record, held, strayed>>
\* ... which may fail, and then gives no right to signal anybody ...
WatchFails ==
  /\ main = "watch" /\ OwnerFault
  /\ verdict' = "unconfirmed" /\ main' = "release"
  /\ UNCHANGED <<application, ioVars, flags, childVars, deadline, record, held, strayed>>
\* Mutant: a repeated stop starts the time over.
FirstCauseAny == flags # {}

FirstCause == deadline = "none" /\ flags # {}

\* ... then at the flags, the first of which sets the deadline ...
WatchFlags ==
  /\ main = "watch" /\ leader = "running" /\ FirstCause
  /\ deadline' = "set" /\ main' = "asking"
  /\ Calm /\ UNCHANGED <<flags, childVars, verdict, record, held, strayed>>
\* ... and asks the child to stop, through the relay or with a signal.
Ask ==
  /\ main = "asking"
  /\ IF application THEN Slotted ELSE UNCHANGED slot
  /\ main' = "watch"
  /\ UNCHANGED <<application, flags, childVars, input, inbox, writer, relayed, events, output,
                 frames, deadline, verdict, record, held, strayed, ownerFaults>>
DeadlinePasses ==
  /\ Up /\ deadline = "set" /\ deadline' = "passed"
  /\ Calm /\ UNCHANGED <<flags, childVars, main, verdict, record, held, strayed>>
WatchDeadline ==
  /\ main = "watch" /\ leader = "running" /\ deadline = "passed"
  /\ main' = "kill"
  /\ Calm /\ UNCHANGED <<flags, childVars, deadline, verdict, record, held, strayed>>

\* settle: the group is killed, which may be refused, before its leader is reaped.
Kill ==
  /\ main = "kill" /\ strayed' = (strayed \/ leader = "reaped")
  /\ \/ main' = "reap" /\ leader' = (IF leader = "running" THEN "exited" ELSE leader)
        /\ UNCHANGED <<verdict, ownerFaults>>
     \/ OwnerFault /\ verdict' = "unconfirmed" /\ main' = "release" /\ UNCHANGED leader
  /\ UNCHANGED <<application, ioVars, flags, others, deadline, record, held>>
Reap ==
  /\ main = "reap" /\ leader = "exited" /\ leader' = "reaped"
  /\ Calm /\ UNCHANGED <<flags, others, mainVars>>

\* Mutant: the leader's end is the group's.
AbsentLeader == leader = "reaped"

\* Nobody of the group is left.
Absent == leader = "reaped" /\ ~others

Settle ==
  /\ main = "reap"
  /\ \/ Absent /\ verdict' = "confirmed" /\ main' = "record" /\ UNCHANGED ownerFaults
     \* The confirmation budget ends first, or the child cannot be reaped.
     \/ ~Absent /\ verdict' = "unconfirmed" /\ main' = "release" /\ UNCHANGED ownerFaults
  /\ UNCHANGED <<application, ioVars, flags, childVars, deadline, record, held, strayed>>

\* Only a confirmed end is recorded; when that fails the owner ends without another word.
Record ==
  /\ main = "record"
  /\ \/ record' = "settled" /\ main' = "release" /\ UNCHANGED <<held, ownerFaults>>
     \/ OwnerFault /\ main' = "ended" /\ held' = FALSE /\ UNCHANGED record
  /\ UNCHANGED <<application, ioVars, flags, childVars, deadline, verdict, strayed>>
\* The files are unlocked before the launcher is told, after the relay had time to finish.
ReleaseGuard ==
  /\ main = "release" /\ held' = FALSE /\ main' = "tell"
  /\ Calm /\ UNCHANGED <<flags, childVars, deadline, verdict, record, strayed>>
Tell ==
  /\ main = "tell" /\ main' = "wait"
  /\ IF Room THEN Queue(verdict) ELSE UNCHANGED events
  /\ UNCHANGED <<application, flags, childVars, input, inbox, slot, writer, relayed, output,
                 frames, deadline, verdict, record, held, strayed, ownerFaults>>
OwnerEnd ==
  /\ main = "wait" /\ main' = "ended"
  /\ Calm /\ UNCHANGED <<flags, childVars, deadline, verdict, record, held, strayed>>

MainStep == \/ WatchExit \/ WatchFlags \/ Ask \/ WatchDeadline \/ Kill \/ Reap \/ Settle
            \/ Record \/ ReleaseGuard \/ Tell \/ OwnerEnd
WriterStep == \/ WriterTakes \/ WriterBroken
              \/ (writer = "stopping" /\ StopFits) /\ WriterWrote
ProcNext == \/ MainStep \/ WatchFails \/ DeadlinePasses \/ Forks \/ Exits
            \/ Input \/ InputStopRequest \/ InputStore \/ Output
            \/ WriterStep \/ WriterWrote \/ RelayReads

\* The threads of the helper run, and time passes; launcher and child may stand still.
ProcFairSpec ==
  /\ ProcInit /\ [][ProcNext]_procVars
  /\ WF_procVars(MainStep) /\ WF_procVars(WriterStep) /\ WF_procVars(DeadlinePasses)
  /\ WF_procVars(InputStore)

---------------------------------------------------------------------------
(* Properties.                                                             *)

ProcTypeOK ==
  /\ leader \in {"running", "exited", "reaped"} /\ inbox \in 0..RelayCapacity
  /\ Len(events) <= EventCapacity
  /\ main \in {"watch", "asking", "kill", "reap", "record", "release", "tell", "wait", "ended"}

\* What the launcher is told is the truth: a confirmed end means that the whole group is
\* gone, that this is on record, and that the root can be acquired again (finish).
ConfirmedIsGone ==
  "confirmed" \in {events[i]: i \in DOMAIN events} \/ (main = "wait" /\ verdict = "confirmed") =>
    leader = "reaped" /\ ~others /\ record = "settled" /\ ~held

\* No signal is sent after the leader is reaped: its group id may be somebody else's
\* (exited, settle; PROCESS_OWNER.md:13-16).
NoStraySignal == ~strayed

\* After a stop, the loss of the launcher, a breach or the child's exit the owner ends,
\* whatever child and launcher do (run, finish).
OwnerEnds == flags # {} \/ leader # "running" ~> main = "ended"
=============================================================================
