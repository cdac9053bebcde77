------------------------------- MODULE TxQueue -------------------------------
(***************************************************************************)
(* The queue of the operator's transactions (config/sorobanConfig.ts): one *)
(* account signs for everybody, so the calls are built, sent and confirmed *)
(* one at a time, high priority first.                                     *)
(*                                                                         *)
(* A transaction is signed with the account's next sequence number: when   *)
(* one lands, no other that is signed or under way can land any more.  The *)
(* caller may see a failure although its transaction is under way (an RPC  *)
(* error ends the wait at once) or has landed; such a transaction is an    *)
(* orphan until it lands or its 30 seconds are over.  A wait that times    *)
(* out lasts longer than that, so what it gives up can land no more.       *)
(***************************************************************************)
EXTENDS Sequences, FiniteSets

CONSTANT NoTask  \* nothing runs

VARIABLES
  highQueue, lowQueue,  \* tasks waiting: [client, call]
  running,              \* the task being processed
  stage,                \* how far it is
  orphans               \* calls under way that nobody waits for

queue_vars == <<highQueue, lowQueue, running, stage, orphans>>

Stages == {"idle", "started", "signed", "sent", "landed", "stale"}
waiting == highQueue \o lowQueue

enqueueSoroban(task, priority) ==
  /\ highQueue' = IF priority = "high" THEN Append(highQueue, task) ELSE highQueue
  /\ lowQueue' = IF priority = "high" THEN lowQueue ELSE Append(lowQueue, task)
  /\ UNCHANGED <<running, stage, orphans>>

dispatch ==
  /\ running = NoTask /\ waiting # <<>>
  /\ running' = Head(waiting)
  /\ IF highQueue # <<>>
     THEN highQueue' = Tail(highQueue) /\ UNCHANGED lowQueue
     ELSE lowQueue' = Tail(lowQueue) /\ UNCHANGED highQueue
  /\ stage' = "started"
  /\ UNCHANGED orphans

buildContractTransaction ==
  /\ stage = "started" /\ stage' = "signed"
  /\ UNCHANGED <<highQueue, lowQueue, running, orphans>>

\* The same signed transaction is sent up to three times.
sendPreparedTransaction ==
  /\ stage = "signed" /\ stage' = "sent"
  /\ UNCHANGED <<highQueue, lowQueue, running, orphans>>

\* External: the running task's transaction lands, or never will.
land_own ==
  /\ stage = "sent" /\ stage' = "landed" /\ orphans' = {}
  /\ UNCHANGED <<highQueue, lowQueue, running>>
drop_own ==
  /\ stage = "sent" /\ stage' = "stale"
  /\ UNCHANGED <<highQueue, lowQueue, running, orphans>>

\* External: a transaction nobody waits for lands after all, or never will.
land_orphan(call) ==
  /\ call \in orphans /\ orphans' = {}
  /\ stage' = IF stage \in {"signed", "sent"} THEN "stale" ELSE stage
  /\ UNCHANGED <<highQueue, lowQueue, running>>
drop_orphan(call) ==
  /\ call \in orphans /\ orphans' = orphans \ {call}
  /\ UNCHANGED <<highQueue, lowQueue, running, stage>>

\* The caller's promise is resolved, and the next task may start.
resolve ==
  /\ stage = "landed"
  /\ running' = NoTask /\ stage' = "idle"
  /\ UNCHANGED <<highQueue, lowQueue, orphans>>

\* Mutant: `processing' is not reset when the task throws.
reject_keeps_processing ==
  /\ stage \in {"started", "signed", "sent", "landed", "stale"}
  /\ stage' = "idle"
  /\ UNCHANGED <<highQueue, lowQueue, running, orphans>>

\* It is rejected: the build, the send or the wait failed.  An answer lost
\* after the transaction was accepted leaves an orphan.
reject ==
  /\ stage \in {"started", "signed", "sent", "landed", "stale"}
  /\ running' = NoTask /\ stage' = "idle"
  /\ \/ stage \notin {"sent"} /\ UNCHANGED orphans
     \/ stage \in {"signed", "sent"} /\ orphans' = orphans \cup {running.call}
  /\ UNCHANGED <<highQueue, lowQueue>>

\* The process restarts: the queue is gone, a transaction sent is not.
queue_restart ==
  /\ highQueue' = <<>> /\ lowQueue' = <<>> /\ running' = NoTask /\ stage' = "idle"
  /\ orphans' = IF stage = "sent" THEN orphans \cup {running.call} ELSE orphans

QueueInit ==
  /\ highQueue = <<>> /\ lowQueue = <<>> /\ running = NoTask
  /\ stage = "idle" /\ orphans = {}
=============================================================================
