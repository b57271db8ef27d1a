------------------------------ MODULE JobQueue ------------------------------
(***************************************************************************)
(* The job queues of ServerCore and the worker threads that run them:      *)
(* JobQueue::Push and Execute, the global queue through which a queue is   *)
(* handed to another thread, and the worker loop of GameServer.cpp.        *)
(*                                                                         *)
(* A thread is a call stack of at most two levels: the worker loop, or an  *)
(* Execute it is in, and on top of either a Push.  A Push that runs inside *)
(* a job never executes (LCurrentJobQueue is set), so it nests no deeper.  *)
(* No caller in the repository passes pushOnly = true; the parameter is    *)
(* fixed to its default.                                                   *)
(***************************************************************************)
EXTENDS Naturals, Sequences, FiniteSets

CONSTANTS
  Threads,    \* worker threads (GameServer.cpp main: at least two)
  Queues,     \* JobQueue objects: the manager, each match session
  NoQueue,    \* LCurrentJobQueue == nullptr
  MaxJobs     \* bound: number of jobs posted in a behaviour

ASSUME ThreadsAssumption == IsFiniteSet(Threads)
ASSUME NoQueueAssumption == NoQueue \notin Queues
ASSUME MaxJobsAssumption == MaxJobs \in Nat

Jobs  == 1 .. MaxJobs
NoJob == 0

VARIABLES
  jobCount,     \* JobQueue::_jobCount
  jobs,         \* JobQueue::_jobs
  globalQueue,  \* GGlobalQueue
  issued,       \* number of jobs posted so far; names the next one
  pc,           \* where each thread is
  current,      \* LCurrentJobQueue of each thread
  target,       \* Push: the queue posted to
  posting,      \* Push: the job posted
  prevCount,    \* Push: the value fetch_add returned
  batch,        \* Execute: jobs popped and not yet begun
  running,      \* Execute: the job being run
  popped,       \* Execute: jobCount, the size of the batch popped
  caller,       \* where Execute returns to
  elapsed       \* the clock against LEndTickCount: 0 before, 1 at, 2 after

shared == <<jobCount, jobs, globalQueue, issued>>
vars   == <<jobCount, jobs, globalQueue, issued, pc, current, target,
            posting, prevCount, batch, running, popped, caller, elapsed>>

(***************************************************************************)
(* dispatch  Dispatch and DistributeReservedJobs: handlers and timers      *)
(*           call DoAsync from here with LCurrentJobQueue null             *)
(* global    head of the loop of DoGlobalQueueWork                         *)
(* counted   Push, after fetch_add, before _jobs.Push                      *)
(* first     Push, prevCount was 0: this thread must see the queue run     *)
(* popAll    Execute, head of its loop                                     *)
(* batch     Execute, between two jobs of the batch                        *)
(* inJob     Execute, inside a job                                         *)
(* budget    Execute, jobs remain: compare the clock with LEndTickCount    *)
(***************************************************************************)
PC == {"dispatch", "global", "counted", "first", "popAll", "batch", "inJob",
       "budget"}

Init ==
  /\ jobCount    = [q \in Queues |-> 0]
  /\ jobs        = [q \in Queues |-> <<>>]
  /\ globalQueue = <<>>
  /\ issued      = 0
  /\ pc          = [t \in Threads |-> "dispatch"]
  /\ current     = [t \in Threads |-> NoQueue]
  /\ target      = [t \in Threads |-> NoQueue]
  /\ posting     = [t \in Threads |-> NoJob]
  /\ prevCount   = [t \in Threads |-> 0]
  /\ batch       = [t \in Threads |-> <<>>]
  /\ running     = [t \in Threads |-> NoJob]
  /\ popped      = [t \in Threads |-> 0]
  /\ caller      = [t \in Threads |-> "dispatch"]
  /\ elapsed     = [t \in Threads |-> 0]

-----------------------------------------------------------------------------
(* JobQueue::Push, called by a handler, a timer or a running job.          *)

Goto(t, label) == pc' = [pc EXCEPT ![t] = label]

(* Where Push returns: the job that called it, or the worker loop. *)
AfterPush(t) == IF current[t] = NoQueue THEN "dispatch" ELSE "inJob"

Count(t, q) ==
  /\ pc[t] \in {"dispatch", "inJob"}
  /\ issued < MaxJobs
  /\ issued'    = issued + 1
  /\ posting'   = [posting EXCEPT ![t] = issued + 1]
  /\ target'    = [target EXCEPT ![t] = q]
  /\ prevCount' = [prevCount EXCEPT ![t] = jobCount[q]]
  /\ jobCount'  = [jobCount EXCEPT ![q] = @ + 1]
  /\ Goto(t, "counted")
  /\ UNCHANGED <<jobs, globalQueue, current, batch, running, popped, caller,
                 elapsed>>

Enqueue(t) ==
  /\ pc[t] = "counted"
  /\ jobs' = [jobs EXCEPT ![target[t]] = Append(@, posting[t])]
  /\ Goto(t, IF prevCount[t] = 0 THEN "first" ELSE AfterPush(t))
  /\ UNCHANGED <<jobCount, globalQueue, issued, current, target, posting,
                 prevCount, batch, running, popped, caller, elapsed>>

ExecuteHere(t) ==
  /\ pc[t] = "first"
  /\ current[t] = NoQueue
  /\ current' = [current EXCEPT ![t] = target[t]]
  /\ caller'  = [caller EXCEPT ![t] = "dispatch"]
  /\ Goto(t, "popAll")
  /\ UNCHANGED <<shared, target, posting, prevCount, batch, running, popped,
                 elapsed>>

(* mutant: the queue is not given to the global queue                      *)
LeaveToOthers_Dropped(t) ==
  /\ pc[t] = "first"
  /\ current[t] # NoQueue
  /\ Goto(t, "inJob")
  /\ UNCHANGED <<shared, current, target, posting, prevCount, batch, running,
                 popped, caller, elapsed>>

LeaveToOthers(t) ==
  /\ pc[t] = "first"
  /\ current[t] # NoQueue
  /\ globalQueue' = Append(globalQueue, target[t])
  /\ Goto(t, "inJob")
  /\ UNCHANGED <<jobCount, jobs, issued, current, target, posting, prevCount,
                 batch, running, popped, caller, elapsed>>

-----------------------------------------------------------------------------
(* JobQueue::Execute.                                                      *)

PopAll(t) ==
  /\ pc[t] = "popAll"
  /\ LET q == current[t] IN
       /\ batch'  = [batch EXCEPT ![t] = jobs[q]]
       /\ popped' = [popped EXCEPT ![t] = Len(jobs[q])]
       /\ jobs'   = [jobs EXCEPT ![q] = <<>>]
  /\ Goto(t, "batch")
  /\ UNCHANGED <<jobCount, globalQueue, issued, current, target, posting,
                 prevCount, running, caller, elapsed>>

BeginJob(t) ==
  /\ pc[t] = "batch"
  /\ batch[t] # <<>>
  /\ running' = [running EXCEPT ![t] = Head(batch[t])]
  /\ batch'   = [batch EXCEPT ![t] = Tail(@)]
  /\ Goto(t, "inJob")
  /\ UNCHANGED <<shared, current, target, posting, prevCount, popped, caller,
                 elapsed>>

EndJob(t) ==
  /\ pc[t] = "inJob"
  /\ running' = [running EXCEPT ![t] = NoJob]
  /\ Goto(t, "batch")
  /\ UNCHANGED <<shared, current, target, posting, prevCount, batch, popped,
                 caller, elapsed>>

(* fetch_sub(jobCount) == jobCount: the queue is empty and is let go.      *)
Finish(t) ==
  /\ pc[t] = "batch"
  /\ batch[t] = <<>>
  /\ jobCount[current[t]] = popped[t]
  /\ jobCount' = [jobCount EXCEPT ![current[t]] = @ - popped[t]]
  /\ current'  = [current EXCEPT ![t] = NoQueue]
  /\ popped'   = [popped EXCEPT ![t] = 0]
  /\ Goto(t, caller[t])
  /\ UNCHANGED <<jobs, globalQueue, issued, target, posting, prevCount, batch,
                 running, caller, elapsed>>

(* fetch_sub(jobCount) # jobCount: jobs came meanwhile, or are about to.   *)
Subtract(t) ==
  /\ pc[t] = "batch"
  /\ batch[t] = <<>>
  /\ jobCount[current[t]] # popped[t]
  /\ jobCount' = [jobCount EXCEPT ![current[t]] = @ - popped[t]]
  /\ popped'   = [popped EXCEPT ![t] = 0]
  /\ Goto(t, "budget")
  /\ UNCHANGED <<jobs, globalQueue, issued, current, target, posting,
                 prevCount, batch, running, caller, elapsed>>

KeepGoing(t) ==
  /\ pc[t] = "budget"
  /\ elapsed[t] = 0
  /\ Goto(t, "popAll")
  /\ UNCHANGED <<shared, current, target, posting, prevCount, batch, running,
                 popped, caller, elapsed>>

(* mutants: LCurrentJobQueue stays set; the global queue is forgotten      *)
HandOver_Kept(t) ==
  /\ pc[t] = "budget"
  /\ elapsed[t] >= 1
  /\ globalQueue' = Append(globalQueue, current[t])
  /\ Goto(t, caller[t])
  /\ UNCHANGED <<jobCount, jobs, issued, current, target, posting, prevCount,
                 batch, running, popped, caller, elapsed>>

HandOver_Dropped(t) ==
  /\ pc[t] = "budget"
  /\ elapsed[t] >= 1
  /\ current' = [current EXCEPT ![t] = NoQueue]
  /\ Goto(t, caller[t])
  /\ UNCHANGED <<shared, target, posting, prevCount, batch, running, popped,
                 caller, elapsed>>

HandOver(t) ==
  /\ pc[t] = "budget"
  /\ elapsed[t] >= 1
  /\ globalQueue' = Append(globalQueue, current[t])
  /\ current'     = [current EXCEPT ![t] = NoQueue]
  /\ Goto(t, caller[t])
  /\ UNCHANGED <<jobCount, jobs, issued, target, posting, prevCount, batch,
                 running, popped, caller, elapsed>>

-----------------------------------------------------------------------------
(* The worker loop: DoWorkerJob and ThreadManager::DoGlobalQueueWork.      *)

ToGlobalWork(t) ==
  /\ pc[t] = "dispatch"
  /\ Goto(t, "global")
  /\ UNCHANGED <<shared, current, target, posting, prevCount, batch, running,
                 popped, caller, elapsed>>

TakeGlobal(t) ==
  /\ pc[t] = "global"
  /\ elapsed[t] < 2
  /\ globalQueue # <<>>
  /\ current'     = [current EXCEPT ![t] = Head(globalQueue)]
  /\ globalQueue' = Tail(globalQueue)
  /\ caller'      = [caller EXCEPT ![t] = "global"]
  /\ Goto(t, "popAll")
  /\ UNCHANGED <<jobCount, jobs, issued, target, posting, prevCount, batch,
                 running, popped, elapsed>>

NextRound(t) ==
  /\ pc[t] = "global"
  /\ elapsed[t] = 2 \/ globalQueue = <<>>
  /\ elapsed' = [elapsed EXCEPT ![t] = 0]
  /\ Goto(t, "dispatch")
  /\ UNCHANGED <<shared, current, target, posting, prevCount, batch, running,
                 popped, caller>>

(***************************************************************************)
(* The clock passes while the thread does work of its own.  It does not    *)
(* pass in the two idle places: Dispatch waits 10 ms and the budget of a   *)
(* round is 64 ms (WORKER_TICK), so an idle round reaches the global queue *)
(* in time.                                                                *)
(***************************************************************************)
ClockTick(t) ==
  /\ pc[t] \notin {"dispatch", "global"}
  /\ elapsed[t] < 2
  /\ elapsed' = [elapsed EXCEPT ![t] = @ + 1]
  /\ UNCHANGED <<shared, pc, current, target, posting, prevCount, batch,
                 running, popped, caller>>

-----------------------------------------------------------------------------
(* What a thread does once it has begun: every step but posting a new job, *)
(* which no thread is obliged to do.                                       *)
Progress(t) ==
  \/ Enqueue(t)      \/ ExecuteHere(t)  \/ LeaveToOthers(t)
  \/ PopAll(t)       \/ BeginJob(t)     \/ EndJob(t)
  \/ Finish(t)       \/ Subtract(t)     \/ KeepGoing(t)     \/ HandOver(t)
  \/ ToGlobalWork(t) \/ TakeGlobal(t)   \/ NextRound(t)

Next ==
  \E t \in Threads :
    \/ \E q \in Queues : Count(t, q)
    \/ Progress(t)
    \/ ClockTick(t)

Spec == Init /\ [][Next]_vars

(* The operating system schedules every worker thread; a job terminates.   *)
Fairness == \A t \in Threads : WF_vars(Progress(t))

FairSpec == Spec /\ Fairness

-----------------------------------------------------------------------------
(* What each variable holds. *)
Types ==
  /\ jobCount    \in [Queues -> Nat]
  /\ jobs        \in [Queues -> Seq(Jobs)]
  /\ globalQueue \in Seq(Queues)
  /\ issued      \in 0 .. MaxJobs
  /\ pc          \in [Threads -> PC]
  /\ current     \in [Threads -> Queues \cup {NoQueue}]
  /\ target      \in [Threads -> Queues \cup {NoQueue}]
  /\ posting     \in [Threads -> Jobs \cup {NoJob}]
  /\ prevCount   \in [Threads -> Nat]
  /\ batch       \in [Threads -> Seq(Jobs)]
  /\ running     \in [Threads -> Jobs \cup {NoJob}]
  /\ popped      \in [Threads -> Nat]
  /\ caller      \in [Threads -> {"dispatch", "global"}]
  /\ elapsed     \in [Threads -> 0 .. 2]

(* Which locals are live at which place of the program. *)
Places ==
  \A t \in Threads :
    /\ pc[t] \in {"counted", "first"} => target[t] \in Queues /\ posting[t] \in Jobs
    /\ pc[t] = "first" => prevCount[t] = 0
    /\ pc[t] \in {"popAll", "batch", "inJob", "budget"} => current[t] \in Queues
    /\ pc[t] \in {"dispatch", "global"} => current[t] = NoQueue
    /\ pc[t] \in {"popAll", "budget"} \/ current[t] = NoQueue =>
         batch[t] = <<>> /\ popped[t] = 0
    /\ (running[t] # NoJob) <=>
         current[t] # NoQueue /\ pc[t] \in {"inJob", "counted", "first"}

(* The type invariant. *)
TypeOK == Types /\ Places

(* No two threads are ever inside Execute of one queue: the members of a   *)
(* JobQueue subclass need no lock of their own (JobQueue.cpp:33-62).       *)
MutualExclusion ==
  \A t, u \in Threads :
    current[t] # NoQueue /\ current[t] = current[u] => t = u

(* Thread t has to see to it that queue q runs: it executes q, or it is    *)
(* the pusher that found the count at 0 and has not passed q on yet.       *)
Pushes(t, q) == pc[t] \in {"counted", "first"} /\ target[t] = q
Owns(t, q)   == current[t] = q \/ (Pushes(t, q) /\ prevCount[t] = 0)

InGlobalQueue(q) == \E i \in 1 .. Len(globalQueue) : globalQueue[i] = q

HasOneCarrier(q) ==
  /\ jobCount[q] > 0 <=> (\E t \in Threads : Owns(t, q)) \/ InGlobalQueue(q)
  /\ \A t \in Threads : Owns(t, q) => ~InGlobalQueue(q)
  /\ \A t, u \in Threads : Owns(t, q) /\ Owns(u, q) => t = u
  /\ \A t \in Threads : current[t] = q /\ Pushes(t, q) => prevCount[t] # 0
  /\ \A i, j \in 1 .. Len(globalQueue) :
       globalQueue[i] = q /\ globalQueue[j] = q => i = j

(* A queue that holds or is about to hold jobs has exactly one carrier: a  *)
(* thread that owns it or one entry of the global queue.  So no posted job *)
(* is stranded, and none is run by two threads (JobQueue.cpp:11-29, 46-59).*)
OneCarrier == \A q \in Queues : HasOneCarrier(q)

(* Threads between fetch_add and _jobs.Push on q. *)
Entering(q) == {t \in Threads : pc[t] = "counted" /\ target[t] = q}

CountMatches(q) ==
  LET held == Len(jobs[q]) + Cardinality(Entering(q)) IN
    /\ \A t \in Threads : current[t] = q => jobCount[q] = held + popped[t]
    /\ (\A t \in Threads : current[t] # q) => jobCount[q] = held

(* _jobCount counts the jobs stored, those popped but not yet subtracted,  *)
(* and those announced by fetch_add but not yet stored; so fetch_sub never *)
(* takes it below what is still to run (JobQueue.cpp:11-12, 40-47).        *)
CountExact == \A q \in Queues : CountMatches(q)

(* The abstract queue: what the executing thread popped and has not begun, *)
(* then what the queue stores. *)
Executor(q) == CHOOSE t \in Threads : current[t] = q
Executed(q) == \E t \in Threads : current[t] = q

Waiting(q) == IF Executed(q) THEN batch[Executor(q)] \o jobs[q] ELSE jobs[q]
Running(q) == IF Executed(q) THEN running[Executor(q)] ELSE NoJob

Serial == INSTANCE SerialExecutor WITH
  waiting <- [q \in Queues |-> Waiting(q)],
  running <- [q \in Queues |-> Running(q)]

(* Every queue is a serial executor: one job at a time, first in first     *)
(* out, none lost, none repeated (JobQueue_Review.md "one thread per       *)
(* queue").                                                                *)
ImplementsSerial == Serial!Spec

(* Every posted job eventually runs and ends, though the thread that found *)
(* the queue busy relies on another one, and an executor out of budget     *)
(* passes the queue on.                                                    *)
ImplementsFairSerial == Serial!FairSpec
=============================================================================
