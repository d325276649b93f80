------------------------------- MODULE MCOwner -------------------------------
(***************************************************************************)
(* The guards of the owners' roots and the process owner (RootGuard and    *)
(* ProcessOwner, the modules this one extends), and a Remote generation    *)
(* with fair workers, side by side: they share no state, so a behaviour    *)
(* runs one of them, as `part' says.                                       *)
(***************************************************************************)
EXTENDS RootGuard, ProcessOwner

CONSTANTS w1, v1

VARIABLE part
VARIABLES nextId, caller, reply, state, pending, uncertain, invokes, cancels, workerAt,
          workerId, cancellerAt, cancellerId, handAt, handId, prev, todo, stopped, halted, job,
          last, heard

Remote == INSTANCE RemoteWorkers WITH
  Workers <- {w1}, Cancellers <- {v1}, MaxPending <- 2, MaxRequests <- 2

process == <<application, leader, others, flags, input, inbox, slot, writer, relayed, events,
             output, main, deadline, verdict, record, held, strayed, frames, ownerFaults>>
remote == <<nextId, caller, reply, state, pending, uncertain, invokes, cancels, workerAt,
            workerId, cancellerAt, cancellerId, handAt, handId, prev, todo, stopped, halted,
            job, last, heard>>
roots == <<dirAt, root, inode, helper, turn, locked, records, group, told, renames>>
vars == <<part, process, remote, roots>>

\* What may start in several ways does so in its own part only.
Idle == /\ root = CHOOSE f \in [Owners -> Paths]: TRUE
        /\ dirAt = CHOOSE f \in [Paths -> Dirs]: \A a \in Paths: \A b \in Paths \ {a}: f[a] # f[b]
Init == /\ part \in {"process", "roots", "remote"}
        /\ ProcInit /\ (part = "process" \/ application)
        /\ Remote!Init
        /\ GuardInit /\ (part = "roots" \/ Idle)

InProcess(A) == part = "process" /\ A
InRemote(A) == part = "remote" /\ A

Next == \/ part = "process" /\ ProcNext /\ UNCHANGED <<part, remote, roots>>
        \/ part = "remote" /\ Remote!Next /\ UNCHANGED <<part, process, roots>>
        \/ part = "roots" /\ GuardNext /\ UNCHANGED <<part, process, remote>>

\* The threads of the helper run (those of the launcher and of the child need not), and time
\* passes; the threads of the Remote generation run (RemoteWorkers!Fairness).
FairSpec ==
  /\ Init /\ [][Next]_vars
  /\ WF_process(InProcess(MainStep)) /\ WF_process(InProcess(WriterStep))
  /\ WF_process(InProcess(DeadlinePasses)) /\ WF_process(InProcess(InputStore))
  /\ WF_remote(InRemote(Remote!Hand)) /\ WF_remote(InRemote(Remote!Shutdown))
  /\ WF_remote(InRemote(Remote!Worker(w1))) /\ SF_remote(InRemote(Remote!Exit(w1)))
  /\ WF_remote(InRemote(Remote!Canceller(v1))) /\ SF_remote(InRemote(Remote!ExitCancel(v1)))
  /\ \A i \in 1..2: SF_remote(InRemote(Remote!Hear(i)))

\* What was told to stop ends: the process owner, and the workers of a Remote generation, of
\* which no invocation is left waiting.
StopsEnd == OwnerEnds /\ Remote!ShutdownEnds /\ Remote!EveryInvocationEnds
=============================================================================
