--------------------------- MODULE SerialExecutor ---------------------------
(***************************************************************************)
(* What a JobQueue promises to the code that posts jobs to it: the jobs of *)
(* one queue run one at a time, each exactly once, in the order in which   *)
(* they entered the queue.  Threads, the job counter, the global queue and *)
(* the time budget of ServerCore/JobQueue.cpp do not appear here.          *)
(***************************************************************************)
EXTENDS Naturals, Sequences

CONSTANTS
  Queues,     \* the JobQueue objects
  Jobs,       \* identities of jobs
  NoJob       \* "this queue runs no job"

VARIABLES
  waiting,    \* waiting[q]: jobs accepted by q that have not begun
  running     \* running[q]: the job of q that is executing, or NoJob

vars == <<waiting, running>>

TypeOK ==
  /\ waiting \in [Queues -> Seq(Jobs)]
  /\ running \in [Queues -> Jobs \cup {NoJob}]

Init ==
  /\ waiting = [q \in Queues |-> <<>>]
  /\ running = [q \in Queues |-> NoJob]

Submit(q, j) ==
  /\ waiting' = [waiting EXCEPT ![q] = Append(@, j)]
  /\ UNCHANGED running

Begin(q) ==
  /\ running[q] = NoJob
  /\ waiting[q] # <<>>
  /\ running' = [running EXCEPT ![q] = Head(waiting[q])]
  /\ waiting' = [waiting EXCEPT ![q] = Tail(@)]

End(q) ==
  /\ running[q] # NoJob
  /\ running' = [running EXCEPT ![q] = NoJob]
  /\ UNCHANGED waiting

Next ==
  \E q \in Queues :
    \/ \E j \in Jobs : Submit(q, j)
    \/ Begin(q)
    \/ End(q)

Spec == Init /\ [][Next]_vars

(* Every accepted job begins and every job that began ends. *)
Fairness == \A q \in Queues : WF_vars(Begin(q)) /\ WF_vars(End(q))

FairSpec == Spec /\ Fairness
=============================================================================
