--------------------------- MODULE JobQueueProofs ---------------------------
(***************************************************************************)
(* Proofs about JobQueue, for every number of threads, queues and jobs.    *)
(*                                                                         *)
(* MutualExclusion is not inductive: that nobody else executes a queue     *)
(* when a pusher finds its count at 0 needs OneCarrier, that the count     *)
(* is 0 only when the queue has no carrier needs CountExact, and both need *)
(* to know which locals are live where (TypeOK).  IInv is the conjunction. *)
(***************************************************************************)
EXTENDS JobQueue, FiniteSetTheorems, SequenceTheorems, TLAPS

IInv == TypeOK /\ CountExact /\ OneCarrier

Step(t) ==
  \/ \E q \in Queues : Count(t, q)
  \/ Progress(t)
  \/ ClockTick(t)

(* Initially nothing is posted and nobody executes. *)
LEMMA InitIInv == Init => IInv
<1> SUFFICES ASSUME Init PROVE IInv
  OBVIOUS
<1> USE ThreadsAssumption, NoQueueAssumption, MaxJobsAssumption
<1>1. TypeOK
  BY DEF Init, TypeOK, Types, Places, PC, Jobs, NoJob
<1>2. CountExact
  <2>1. \A q \in Queues : Entering(q) = {}
    BY DEF Init, Entering
  <2>2. Cardinality({}) = 0
    BY FS_EmptySet
  <2>3. ASSUME NEW q \in Queues
        PROVE  /\ jobCount[q] = Len(jobs[q]) + Cardinality(Entering(q))
               /\ \A t \in Threads : current[t] # q
    <3>1. jobs[q] = <<>> /\ jobCount[q] = 0 /\ Cardinality(Entering(q)) = 0
      BY <2>1, <2>2 DEF Init
    <3>2. Len(jobs[q]) = 0
      BY <3>1
    <3>3. QED
      BY <3>1, <3>2 DEF Init
  <2>4. QED
    BY <2>3 DEF CountExact, CountMatches
<1>3. OneCarrier
  BY DEF Init, OneCarrier, HasOneCarrier, Owns, Pushes, InGlobalQueue
<1>4. QED
  BY <1>1, <1>2, <1>3 DEF IInv

(* There are finitely many threads between fetch_add and _jobs.Push. *)
LEMMA EnteringFinite ==
  ASSUME NEW q \in Queues
  PROVE  IsFiniteSet(Entering(q)) /\ Cardinality(Entering(q)) \in Nat
<1>1. Entering(q) \subseteq Threads
  BY DEF Entering
<1>2. QED
  BY <1>1, ThreadsAssumption, FS_Subset, FS_CardinalityType

(* What an executing thread has popped is covered by the count. *)
LEMMA CountHeld ==
  ASSUME IInv, NEW t \in Threads, current[t] \in Queues
  PROVE  /\ jobCount[current[t]] \in Nat
         /\ jobCount[current[t]] - popped[t] \in Nat
         /\ jobCount[current[t]] - popped[t] =
              Len(jobs[current[t]]) + Cardinality(Entering(current[t]))
<1> DEFINE q == current[t]
<1>1. jobs[q] \in Seq(Jobs) /\ jobCount[q] \in Nat /\ popped[t] \in Nat
  BY DEF IInv, TypeOK, Types
<1>2. Len(jobs[q]) \in Nat /\ Cardinality(Entering(q)) \in Nat
  BY <1>1, EnteringFinite
<1>3. jobCount[q] = Len(jobs[q]) + Cardinality(Entering(q)) + popped[t]
  BY DEF IInv, CountExact, CountMatches
<1>4. QED
  BY <1>1, <1>2, <1>3

(* A step keeps every variable in its type and every local where it lives. *)
LEMMA StepTypeOK ==
  ASSUME IInv, NEW t \in Threads, Step(t)
  PROVE  TypeOK'
<1> USE NoQueueAssumption, MaxJobsAssumption DEF IInv, TypeOK, Types, Places,
        PC, NoJob, Goto, shared, AfterPush
<1>1. ASSUME NEW q \in Queues, Count(t, q) PROVE TypeOK'
  BY <1>1 DEF Count, Jobs
<1>2. CASE Enqueue(t)
  BY <1>2 DEF Enqueue
<1>3. CASE ExecuteHere(t)
  BY <1>3 DEF ExecuteHere
<1>4. CASE LeaveToOthers(t)
  BY <1>4 DEF LeaveToOthers
<1>5. CASE PopAll(t)
  <2>1. current[t] \in Queues /\ jobs[current[t]] \in Seq(Jobs)
    BY <1>5 DEF PopAll
  <2>2. Len(jobs[current[t]]) \in Nat /\ <<>> \in Seq(Jobs)
    BY <2>1
  <2>3. Types'
    BY <1>5, <2>1, <2>2 DEF PopAll
  <2>4. Places'
    BY <1>5, <2>1, <2>2 DEF PopAll
  <2>5. QED
    BY <2>3, <2>4
<1>6. CASE BeginJob(t)
  <2>1. batch[t] \in Seq(Jobs) /\ batch[t] # <<>>
    BY <1>6 DEF BeginJob
  <2>2. Head(batch[t]) \in Jobs /\ Tail(batch[t]) \in Seq(Jobs)
    BY <2>1
  <2>3. Types'
    BY <1>6, <2>2 DEF BeginJob
  <2>4. Places'
    BY <1>6, <2>2, SMTT(40) DEF BeginJob, Jobs
  <2>5. QED
    BY <2>3, <2>4
<1>7. CASE EndJob(t)
  BY <1>7 DEF EndJob
<1>8. CASE Finish(t)
  <2>1. current[t] \in Queues /\ popped[t] \in Nat
    BY <1>8 DEF Finish
  <2>2. jobCount[current[t]] - popped[t] = 0
    BY <1>8, <2>1 DEF Finish
  <2>3. Types'
    BY <1>8, <2>1, <2>2 DEF Finish
  <2>4. Places'
    BY <1>8, <2>1, <2>2 DEF Finish
  <2>5. QED
    BY <2>3, <2>4
<1>9. CASE Subtract(t)
  <2>1. current[t] \in Queues /\ popped[t] \in Nat
    BY <1>9 DEF Subtract
  <2>2. jobCount[current[t]] - popped[t] \in Nat
    BY <2>1, CountHeld
  <2>3. Types'
    BY <1>9, <2>1, <2>2 DEF Subtract
  <2>4. Places'
    BY <1>9, <2>1, <2>2 DEF Subtract
  <2>5. QED
    BY <2>3, <2>4
<1>10. CASE KeepGoing(t)
  BY <1>10 DEF KeepGoing
<1>11. CASE HandOver(t)
  BY <1>11 DEF HandOver
<1>12. CASE ToGlobalWork(t)
  BY <1>12 DEF ToGlobalWork
<1>13. CASE TakeGlobal(t)
  <2>1. globalQueue \in Seq(Queues) /\ globalQueue # <<>>
    BY <1>13 DEF TakeGlobal
  <2>2. Head(globalQueue) \in Queues /\ Tail(globalQueue) \in Seq(Queues)
    BY <2>1
  <2>3. Types'
    BY <1>13, <2>2 DEF TakeGlobal
  <2>4. Places'
    BY <1>13, <2>2 DEF TakeGlobal
  <2>5. QED
    BY <2>3, <2>4
<1>14. CASE NextRound(t)
  BY <1>14 DEF NextRound
<1>15. CASE ClockTick(t)
  <2>0. elapsed[t] \in 0 .. 2 /\ elapsed[t] < 2
    BY <1>15 DEF ClockTick
  <2>1. elapsed[t] + 1 \in 0 .. 2
    BY <2>0
  <2>2. elapsed' \in [Threads -> 0 .. 2]
    BY <1>15, <2>1 DEF ClockTick
  <2>3. Types'
    BY <1>15, <2>2 DEF ClockTick
  <2>4. Places'
    BY <1>15 DEF ClockTick
  <2>5. QED
    BY <2>3, <2>4
<1>16. QED
  BY <1>1, <1>2, <1>3, <1>4, <1>5, <1>6, <1>7, <1>8, <1>9, <1>10, <1>11,
     <1>12, <1>13, <1>14, <1>15 DEF Step, Progress

(* A thread that holds nothing begins to execute r. *)
LEMMA TakenOver ==
  ASSUME NEW q \in Queues, CountMatches(q), NEW t \in Threads, NEW r,
         jobCount[q] \in Nat, Len(jobs[q]) \in Nat,
         Cardinality(Entering(q)) \in Nat,
         popped[t] = 0, r = q => \A u \in Threads : current[u] # q,
         jobCount' = jobCount, jobs' = jobs, popped' = popped,
         Entering(q)' = Entering(q),
         \A u \in Threads : current'[u] = IF u = t THEN r ELSE current[u],
         current[t] # q
  PROVE  CountMatches(q)'
<1>1. CASE r = q
  <2>1. jobCount[q] = Len(jobs[q]) + Cardinality(Entering(q))
    BY <1>1 DEF CountMatches
  <2>2. jobCount'[q] = Len(jobs'[q]) + Cardinality(Entering(q)') + popped'[t]
    BY <2>1
  <2>3. QED
    BY <1>1, <2>2 DEF CountMatches
<1>2. CASE r # q
  <2>1. \A u \in Threads : current'[u] = q <=> current[u] = q
    BY <1>2
  <2>2. QED
    BY <2>1 DEF CountMatches
<1>3. QED
  BY <1>1, <1>2

(* A step keeps the count exact.  The steps that change a term of the sum  *)
(* are fetch_add (Count), _jobs.Push (Enqueue), PopAll, and the outcomes   *)
(* of fetch_sub (Finish, Subtract); taking a queue over (ExecuteHere,      *)
(* TakeGlobal) or giving it up (HandOver) changes who is asked for popped. *)
LEMMA StepCountExact ==
  ASSUME IInv, NEW t \in Threads, Step(t)
  PROVE  CountExact'
<1> SUFFICES ASSUME NEW q \in Queues
             PROVE  CountMatches(q)'
  BY DEF CountExact
<1>0. /\ IsFiniteSet(Entering(q)) /\ Cardinality(Entering(q)) \in Nat
      /\ jobs \in [Queues -> Seq(Jobs)] /\ Len(jobs[q]) \in Nat
      /\ jobCount \in [Queues -> Nat]
      /\ Types /\ Places /\ CountMatches(q) /\ HasOneCarrier(q)
  BY EnteringFinite DEF IInv, TypeOK, Types, CountExact, OneCarrier
<1> USE <1>0, NoQueueAssumption DEF Goto, shared, PC, NoJob
<1>1. ASSUME NEW r \in Queues, Count(t, r) PROVE CountMatches(q)'
  <2>1. CASE r = q
    <3>1. t \notin Entering(q) /\ Entering(q)' = Entering(q) \cup {t}
      BY <1>1, <2>1 DEF Count, Entering, Types
    <3>2. Cardinality(Entering(q)') = Cardinality(Entering(q)) + 1
      BY <3>1, FS_AddElement
    <3>3. /\ jobCount'[q] = jobCount[q] + 1 /\ jobs' = jobs
          /\ popped' = popped /\ current' = current
      BY <1>1, <2>1 DEF Count
    <3>4. ASSUME NEW u \in Threads, current[u] = q
          PROVE  jobCount'[q] = Len(jobs'[q]) + Cardinality(Entering(q)') + popped'[u]
      <4>1. popped[u] \in Nat
        BY DEF Types
      <4>2. jobCount[q] = Len(jobs[q]) + Cardinality(Entering(q)) + popped[u]
        BY <3>4 DEF CountMatches
      <4>3. QED
        BY <3>2, <3>3, <4>1, <4>2
    <3>5. ASSUME \A u \in Threads : current[u] # q
          PROVE  jobCount'[q] = Len(jobs'[q]) + Cardinality(Entering(q)')
      BY <3>2, <3>3, <3>5 DEF CountMatches
    <3>6. QED
      BY <3>3, <3>4, <3>5 DEF CountMatches
  <2>2. CASE r # q
    <3>1. Entering(q)' = Entering(q)
      BY <1>1, <2>2 DEF Count, Entering, Types
    <3>2. QED
      BY <1>1, <2>2, <3>1 DEF Count, CountMatches, Types
  <2>3. QED
    BY <2>1, <2>2
<1>2. CASE Enqueue(t)
  <2>1. CASE target[t] = q
    <3>1. t \in Entering(q) /\ Entering(q)' = Entering(q) \ {t}
      BY <1>2, <2>1 DEF Enqueue, Entering, Types, AfterPush
    <3>2. Cardinality(Entering(q)') = Cardinality(Entering(q)) - 1
      BY <3>1, FS_RemoveElement
    <3>3. jobs'[q] = Append(jobs[q], posting[t]) /\ posting[t] \in Jobs
      BY <1>2, <2>1 DEF Enqueue, Types, Places
    <3>4. Len(jobs'[q]) = Len(jobs[q]) + 1
      BY <3>3
    <3>5. QED
      BY <1>2, <2>1, <3>2, <3>4 DEF Enqueue, CountMatches, Types
  <2>2. CASE target[t] # q
    <3>1. Entering(q)' = Entering(q)
      BY <1>2, <2>2 DEF Enqueue, Entering, Types, AfterPush
    <3>2. jobs'[q] = jobs[q]
      BY <1>2, <2>2 DEF Enqueue, Types
    <3>3. QED
      BY <1>2, <3>1, <3>2 DEF Enqueue, CountMatches, Types
  <2>3. QED
    BY <2>1, <2>2
<1>3. CASE ~(\E r \in Queues : Count(t, r)) /\ ~Enqueue(t)
  <2>0. Entering(q)' = Entering(q)
    BY <1>3 DEF Step, Progress, Entering, ExecuteHere, LeaveToOthers, PopAll,
       BeginJob, EndJob, Finish, Subtract, KeepGoing, HandOver, ToGlobalWork,
       TakeGlobal, NextRound, ClockTick, Types, Places
  <2> USE <2>0
  <2>1. CASE ExecuteHere(t)
    <3>1. popped[t] = 0 /\ Owns(t, target[t])
      BY <2>1 DEF ExecuteHere, Places, Owns, Pushes
    <3>2. target[t] = q => \A u \in Threads : current[u] # q
      BY <2>1, <3>1 DEF ExecuteHere, HasOneCarrier, Owns
    <3>3. /\ jobCount' = jobCount /\ jobs' = jobs /\ popped' = popped
          /\ \A u \in Threads :
               current'[u] = IF u = t THEN target[t] ELSE current[u]
          /\ current[t] # q
      BY <2>1 DEF ExecuteHere, Types
    <3>4. QED
      BY <3>1, <3>2, <3>3, TakenOver
  <2>2. CASE LeaveToOthers(t)
    BY <2>2 DEF LeaveToOthers, CountMatches, Types
  <2>3. CASE PopAll(t)
    <3>1. CASE current[t] = q
      <4>1. jobs'[q] = <<>> /\ popped'[t] = Len(jobs[q]) /\ popped[t] = 0
        BY <2>3, <3>1 DEF PopAll, Types, Places
      <4>2. Len(jobs'[q]) = 0
        BY <4>1
      <4>3. \A u \in Threads : current[u] = q => u = t
        BY <3>1 DEF HasOneCarrier, Owns
      <4>4. QED
        BY <2>3, <3>1, <4>1, <4>2, <4>3 DEF PopAll, CountMatches, Types
    <3>2. CASE current[t] # q
      BY <2>3, <3>2 DEF PopAll, CountMatches, Types
    <3>3. QED
      BY <3>1, <3>2
  <2>4. CASE BeginJob(t)
    BY <2>4 DEF BeginJob, CountMatches, Types
  <2>5. CASE EndJob(t)
    BY <2>5 DEF EndJob, CountMatches, Types
  <2>6. CASE Finish(t) \/ Subtract(t)
    <3>1. CASE current[t] = q
      <4>1. \A u \in Threads : current[u] = q => u = t
        BY <3>1 DEF HasOneCarrier, Owns
      <4>2. /\ popped[t] \in Nat /\ popped'[t] = 0 /\ jobs' = jobs
            /\ jobCount'[q] = jobCount[q] - popped[t]
            /\ \A u \in Threads : u # t => current'[u] = current[u]
        BY <2>6, <3>1 DEF Finish, Subtract, Types
      <4>3. jobCount'[q] = Len(jobs'[q]) + Cardinality(Entering(q)')
        BY <3>1, <4>2 DEF CountMatches
      <4>4. QED
        BY <4>1, <4>2, <4>3 DEF CountMatches
    <3>2. CASE current[t] # q
      <4>1. current[t] \in Queues
        BY <2>6 DEF Finish, Subtract, Places
      <4>2. /\ jobCount'[q] = jobCount[q] /\ jobs' = jobs
            /\ \A u \in Threads : current'[u] = q <=> current[u] = q
            /\ \A u \in Threads : u # t => popped'[u] = popped[u]
        BY <2>6, <3>2, <4>1 DEF Finish, Subtract, Types
      <4>3. QED
        BY <3>2, <4>2 DEF CountMatches
    <3>3. QED
      BY <3>1, <3>2
  <2>7. CASE KeepGoing(t)
    BY <2>7 DEF KeepGoing, CountMatches, Types
  <2>8. CASE HandOver(t)
    BY <2>8 DEF HandOver, CountMatches, Types, Places, HasOneCarrier, Owns
  <2>9. CASE ToGlobalWork(t)
    BY <2>9 DEF ToGlobalWork, CountMatches, Types
  <2>10. CASE TakeGlobal(t)
    <3>1. globalQueue \in Seq(Queues) /\ globalQueue # <<>>
      BY <2>10 DEF TakeGlobal, Types
    <3>2. 1 \in 1 .. Len(globalQueue) /\ Head(globalQueue) = globalQueue[1]
      BY <3>1
    <3>3. Head(globalQueue) = q => \A u \in Threads : current[u] # q
      BY <3>2 DEF HasOneCarrier, Owns, InGlobalQueue
    <3>4. /\ jobCount' = jobCount /\ jobs' = jobs /\ popped' = popped
          /\ \A u \in Threads :
               current'[u] = IF u = t THEN Head(globalQueue) ELSE current[u]
          /\ current[t] # q /\ popped[t] = 0
      BY <2>10 DEF TakeGlobal, Types, Places
    <3>5. QED
      BY <3>3, <3>4, TakenOver
  <2>11. CASE NextRound(t)
    BY <2>11 DEF NextRound, CountMatches, Types
  <2>12. CASE ClockTick(t)
    BY <2>12 DEF ClockTick, CountMatches, Types
  <2>13. QED
    BY <1>3, <2>1, <2>2, <2>3, <2>4, <2>5, <2>6, <2>7, <2>8, <2>9, <2>10,
       <2>11, <2>12 DEF Step, Progress
<1>4. QED
  BY <1>1, <1>2, <1>3

(* A queue the carrier of which does not change. *)
LEMMA SameCarrier ==
  ASSUME NEW q \in Queues, HasOneCarrier(q),
         jobCount'[q] > 0 <=> jobCount[q] > 0,
         \A u \in Threads : Owns(u, q)' <=> Owns(u, q),
         \A u \in Threads : current'[u] = q /\ Pushes(u, q)' => prevCount'[u] # 0,
         globalQueue' = globalQueue
  PROVE  HasOneCarrier(q)'
BY DEF HasOneCarrier, InGlobalQueue

(* What an append to the global queue does to the entries. *)
LEMMA GlobalAppend ==
  ASSUME globalQueue \in Seq(Queues), NEW r \in Queues,
         globalQueue' = Append(globalQueue, r)
  PROVE  /\ Len(globalQueue') = Len(globalQueue) + 1
         /\ Len(globalQueue) \in Nat
         /\ \A i \in 1 .. Len(globalQueue) : globalQueue'[i] = globalQueue[i]
         /\ globalQueue'[Len(globalQueue) + 1] = r
OBVIOUS

(* What taking its head does to the entries. *)
LEMMA GlobalTail ==
  ASSUME globalQueue \in Seq(Queues), globalQueue # <<>>,
         globalQueue' = Tail(globalQueue)
  PROVE  /\ Len(globalQueue') = Len(globalQueue) - 1
         /\ Len(globalQueue) \in Nat /\ Len(globalQueue) >= 1
         /\ \A i \in 1 .. Len(globalQueue') : globalQueue'[i] = globalQueue[i + 1]
         /\ globalQueue[1] = Head(globalQueue)
OBVIOUS

(* A thread that owns a queue appends it to the global queue and lets it go. *)
LEMMA PassOn ==
  ASSUME Types, NEW q \in Queues, HasOneCarrier(q), NEW t \in Threads,
         NEW r \in Queues, Owns(t, r),
         globalQueue' = Append(globalQueue, r),
         jobCount' = jobCount,
         \A u \in Threads : Owns(u, q)' <=> Owns(u, q) /\ ~(u = t /\ r = q),
         \A u \in Threads : current'[u] = q /\ Pushes(u, q)' => prevCount'[u] # 0
  PROVE  HasOneCarrier(q)'
<1>1. globalQueue \in Seq(Queues)
  BY DEF Types
<1>2. CASE r = q
  <2>1. \A u \in Threads : ~Owns(u, q)'
    BY <1>2 DEF HasOneCarrier
  <2>2. ~InGlobalQueue(q) /\ jobCount[q] > 0
    BY <1>2 DEF HasOneCarrier
  <2>3. InGlobalQueue(q)'
    BY <1>1, <1>2, GlobalAppend DEF InGlobalQueue
  <2>4. \A i \in 1 .. Len(globalQueue') :
          globalQueue'[i] = q => i = Len(globalQueue')
    BY <1>1, <2>2, GlobalAppend DEF InGlobalQueue
  <2>5. QED
    BY <2>1, <2>2, <2>3, <2>4 DEF HasOneCarrier
<1>3. CASE r # q
  <2>1. \A i \in 1 .. Len(globalQueue') :
          globalQueue'[i] = q => i \in 1 .. Len(globalQueue) /\ globalQueue[i] = q
    BY <1>1, <1>3, GlobalAppend
  <2>2. \A i \in 1 .. Len(globalQueue) :
          i \in 1 .. Len(globalQueue') /\ globalQueue'[i] = globalQueue[i]
    BY <1>1, GlobalAppend
  <2>3. InGlobalQueue(q)' <=> InGlobalQueue(q)
    BY <2>1, <2>2 DEF InGlobalQueue
  <2>4. QED
    BY <1>3, <2>1, <2>3 DEF HasOneCarrier
<1>4. QED
  BY <1>2, <1>3

(* A step keeps one carrier for each queue that has jobs. *)
LEMMA StepOneCarrier ==
  ASSUME IInv, NEW t \in Threads, Step(t)
  PROVE  OneCarrier'
<1> SUFFICES ASSUME NEW q \in Queues
             PROVE  HasOneCarrier(q)'
  BY DEF OneCarrier
<1>0. Types /\ Places /\ HasOneCarrier(q)
  BY DEF IInv, TypeOK, OneCarrier
<1> USE <1>0, NoQueueAssumption DEF Goto, shared, PC, NoJob
<1>1. ASSUME NEW r \in Queues, Count(t, r) PROVE HasOneCarrier(q)'
  <2>1. /\ ~Pushes(t, q) /\ jobCount[q] \in Nat
        /\ jobCount'[q] = IF r = q THEN jobCount[q] + 1 ELSE jobCount[q]
        /\ current' = current /\ globalQueue' = globalQueue
        /\ pc'[t] = "counted" /\ target'[t] = r /\ prevCount'[t] = jobCount[r]
        /\ \A u \in Threads : u # t => /\ pc'[u] = pc[u]
                                       /\ target'[u] = target[u]
                                       /\ prevCount'[u] = prevCount[u]
    BY <1>1 DEF Count, Types, Pushes
  <2>2. \A u \in Threads : u # t => /\ Owns(u, q)' <=> Owns(u, q)
                                    /\ Pushes(u, q)' <=> Pushes(u, q)
    BY <2>1 DEF Owns, Pushes
  <2>3. Pushes(t, q)' <=> r = q
    BY <2>1 DEF Pushes
  <2>4. CASE r = q /\ jobCount[q] = 0
    <3>1. \A u \in Threads : Owns(u, q)' <=> u = t
      BY <2>1, <2>2, <2>3, <2>4 DEF HasOneCarrier, Owns
    <3>2. ~InGlobalQueue(q)' /\ \A u \in Threads : current'[u] # q
      BY <2>1, <2>4 DEF HasOneCarrier, InGlobalQueue, Owns
    <3>3. jobCount'[q] > 0
      BY <2>1, <2>4
    <3>4. QED
      BY <3>1, <3>2, <3>3, <2>1 DEF HasOneCarrier, InGlobalQueue
  <2>5. CASE ~(r = q /\ jobCount[q] = 0)
    <3>1. Owns(t, q)' <=> Owns(t, q)
      BY <2>1, <2>3, <2>5 DEF Owns
    <3>2. jobCount'[q] > 0 <=> jobCount[q] > 0
      BY <2>1, <2>5
    <3>3. \A u \in Threads : current'[u] = q /\ Pushes(u, q)' => prevCount'[u] # 0
      BY <2>1, <2>2, <2>3, <2>5 DEF HasOneCarrier
    <3>4. QED
      BY <2>1, <2>2, <3>1, <3>2, <3>3, SameCarrier
  <2>6. QED
    BY <2>4, <2>5
<1>2. CASE Enqueue(t)
  <2>1. \A u \in Threads : Owns(u, q)' <=> Owns(u, q)
    BY <1>2 DEF Enqueue, AfterPush, Types, Owns, Pushes
  <2>2. \A u \in Threads : current'[u] = q /\ Pushes(u, q)' => prevCount'[u] # 0
    BY <1>2 DEF Enqueue, AfterPush, Types, Pushes, HasOneCarrier
  <2>3. QED
    BY <1>2, <2>1, <2>2, SameCarrier DEF Enqueue
<1>3. CASE ExecuteHere(t)
  <2>1. \A u \in Threads : Owns(u, q)' <=> Owns(u, q)
    BY <1>3 DEF ExecuteHere, Types, Places, Owns, Pushes
  <2>2. \A u \in Threads : current'[u] = q /\ Pushes(u, q)' => prevCount'[u] # 0
    BY <1>3 DEF ExecuteHere, Types, Pushes, HasOneCarrier
  <2>3. QED
    BY <1>3, <2>1, <2>2, SameCarrier DEF ExecuteHere
<1>4. CASE LeaveToOthers(t)
  <2>1. target[t] \in Queues /\ prevCount[t] = 0 /\ Pushes(t, target[t])
    BY <1>4 DEF LeaveToOthers, Places, Pushes
  <2>2. Owns(t, target[t])
    BY <2>1 DEF Owns
  <2>3. target[t] = q => current[t] # q
    BY <2>1 DEF HasOneCarrier
  <2>4. \A u \in Threads :
          Owns(u, q)' <=> Owns(u, q) /\ ~(u = t /\ target[t] = q)
    BY <1>4, <2>1, <2>3 DEF LeaveToOthers, Types, Owns, Pushes
  <2>5. \A u \in Threads : current'[u] = q /\ Pushes(u, q)' => prevCount'[u] # 0
    BY <1>4 DEF LeaveToOthers, Types, Pushes, HasOneCarrier
  <2>6. globalQueue' = Append(globalQueue, target[t]) /\ jobCount' = jobCount
    BY <1>4 DEF LeaveToOthers
  <2>7. QED
    BY <2>1, <2>2, <2>4, <2>5, <2>6, PassOn
<1>5. CASE PopAll(t) \/ BeginJob(t) \/ EndJob(t) \/ KeepGoing(t)
           \/ ToGlobalWork(t) \/ NextRound(t) \/ ClockTick(t)
  <2>1. \A u \in Threads : Pushes(u, q)' => Pushes(u, q)
    BY <1>5 DEF PopAll, BeginJob, EndJob, KeepGoing, ToGlobalWork, NextRound,
       ClockTick, Types, Pushes
  <2>2. \A u \in Threads : Pushes(u, q) => Pushes(u, q)'
    BY <1>5 DEF PopAll, BeginJob, EndJob, KeepGoing, ToGlobalWork, NextRound,
       ClockTick, Types, Pushes
  <2>3. /\ current' = current /\ prevCount' = prevCount
        /\ jobCount' = jobCount /\ globalQueue' = globalQueue
    BY <1>5 DEF PopAll, BeginJob, EndJob, KeepGoing, ToGlobalWork, NextRound,
       ClockTick
  <2>4. \A u \in Threads : Owns(u, q)' <=> Owns(u, q)
    BY <2>1, <2>2, <2>3 DEF Owns
  <2>5. \A u \in Threads : current'[u] = q /\ Pushes(u, q)' => prevCount'[u] # 0
    BY <2>1, <2>3 DEF HasOneCarrier
  <2>6. QED
    BY <2>3, <2>4, <2>5, SameCarrier
<1>6. CASE Finish(t)
  <2>x. /\ current[t] \in Queues /\ popped[t] \in Nat
         /\ jobCount[current[t]] = popped[t]
         /\ caller[t] \in {"dispatch", "global"}
    BY <1>6 DEF Finish, Types, Places
  <2>0. jobCount' = [jobCount EXCEPT ![current[t]] = 0]
    <3>1. jobCount[current[t]] - popped[t] = 0
      BY <2>x
    <3>2. QED
      BY <1>6, <3>1 DEF Finish
  <2>1. /\ current[t] \in Queues /\ globalQueue' = globalQueue
        /\ jobCount'[q] = IF current[t] = q THEN 0 ELSE jobCount[q]
        /\ ~Pushes(t, q) /\ ~Pushes(t, q)'
        /\ \A u \in Threads : u # t => (Pushes(u, q)' <=> Pushes(u, q))
        /\ prevCount' = prevCount
        /\ \A u \in Threads : current'[u] = IF u = t THEN NoQueue ELSE current[u]
    BY <1>6, <2>x, <2>0 DEF Finish, Types, Pushes
  <2>2. \A u \in Threads : u # t => (Owns(u, q)' <=> Owns(u, q))
    BY <2>1 DEF Owns
  <2>3. CASE current[t] = q
    <3>1. \A u \in Threads : ~Owns(u, q)'
      BY <2>1, <2>2, <2>3 DEF HasOneCarrier, Owns
    <3>2. ~InGlobalQueue(q)'
      BY <2>1, <2>3 DEF HasOneCarrier, Owns, InGlobalQueue
    <3>3. ~(jobCount'[q] > 0)
      BY <2>1, <2>3
    <3>4. \A u \in Threads : current'[u] # q
      BY <3>1 DEF Owns
    <3>5. QED
      BY <3>1, <3>2, <3>3, <3>4 DEF HasOneCarrier, InGlobalQueue
  <2>4. CASE current[t] # q
    <3>1. \A u \in Threads : Owns(u, q)' <=> Owns(u, q)
      BY <2>1, <2>2, <2>4 DEF Owns
    <3>2. \A u \in Threads : current'[u] = q /\ Pushes(u, q)' => prevCount'[u] # 0
      BY <2>1, <2>4 DEF HasOneCarrier
    <3>3. QED
      BY <2>1, <2>4, <3>1, <3>2, SameCarrier
  <2>5. QED
    BY <2>3, <2>4
<1>7. CASE Subtract(t)
  <2>1. /\ current[t] \in Queues /\ globalQueue' = globalQueue
        /\ jobCount'[q] = IF current[t] = q THEN jobCount[q] - popped[t] ELSE jobCount[q]
        /\ jobCount[current[t]] # popped[t] /\ popped[t] \in Nat
        /\ \A u \in Threads : Pushes(u, q)' <=> Pushes(u, q)
        /\ prevCount' = prevCount /\ current' = current
    BY <1>7 DEF Subtract, Types, Places, Pushes
  <2>2. jobCount'[q] > 0 <=> jobCount[q] > 0
    <3>1. CASE current[t] = q
      <4>1. jobCount[q] \in Nat /\ jobCount[q] - popped[t] \in Nat
        BY <2>1, <3>1, CountHeld
      <4>2. QED
        BY <2>1, <3>1, <4>1
    <3>2. QED
      BY <2>1, <3>1
  <2>3. \A u \in Threads : Owns(u, q)' <=> Owns(u, q)
    BY <2>1 DEF Owns
  <2>4. \A u \in Threads : current'[u] = q /\ Pushes(u, q)' => prevCount'[u] # 0
    BY <2>1 DEF HasOneCarrier
  <2>5. QED
    BY <2>1, <2>2, <2>3, <2>4, SameCarrier
<1>8. CASE HandOver(t)
  <2>1. /\ current[t] \in Queues /\ Owns(t, current[t])
        /\ globalQueue' = Append(globalQueue, current[t]) /\ jobCount' = jobCount
        /\ ~Pushes(t, q) /\ ~Pushes(t, q)'
        /\ \A u \in Threads : u # t => (Pushes(u, q)' <=> Pushes(u, q))
        /\ prevCount' = prevCount
        /\ \A u \in Threads : current'[u] = IF u = t THEN NoQueue ELSE current[u]
    BY <1>8 DEF HandOver, Types, Places, Pushes, Owns
  <2>2. \A u \in Threads :
          Owns(u, q)' <=> Owns(u, q) /\ ~(u = t /\ current[t] = q)
    BY <2>1 DEF Owns
  <2>3. \A u \in Threads : current'[u] = q /\ Pushes(u, q)' => prevCount'[u] # 0
    BY <2>1 DEF HasOneCarrier
  <2>4. QED
    BY <2>1, <2>2, <2>3, PassOn
<1>9. CASE TakeGlobal(t)
  <2>1. /\ globalQueue \in Seq(Queues) /\ globalQueue # <<>>
        /\ globalQueue' = Tail(globalQueue) /\ jobCount' = jobCount
        /\ current[t] = NoQueue /\ prevCount' = prevCount
        /\ ~Pushes(t, q) /\ ~Pushes(t, q)'
        /\ \A u \in Threads : u # t => (Pushes(u, q)' <=> Pushes(u, q))
        /\ \A u \in Threads :
             current'[u] = IF u = t THEN Head(globalQueue) ELSE current[u]
    BY <1>9 DEF TakeGlobal, Types, Places, Pushes
  <2>2. /\ Len(globalQueue') = Len(globalQueue) - 1
        /\ Len(globalQueue) \in Nat /\ Len(globalQueue) >= 1
        /\ \A i \in 1 .. Len(globalQueue') : globalQueue'[i] = globalQueue[i + 1]
        /\ globalQueue[1] = Head(globalQueue)
    BY <2>1, GlobalTail
  <2>3. \A i \in 1 .. Len(globalQueue') :
          i + 1 \in 1 .. Len(globalQueue) /\ i + 1 # 1
    BY <2>2
  <2>4. CASE Head(globalQueue) = q
    <3>1. InGlobalQueue(q)
      BY <2>2, <2>4 DEF InGlobalQueue
    <3>2. \A u \in Threads : ~Owns(u, q)
      BY <3>1 DEF HasOneCarrier
    <3>3. \A u \in Threads : Owns(u, q)' <=> u = t
      BY <2>1, <2>4, <3>2 DEF Owns
    <3>4. \A i \in 1 .. Len(globalQueue') : globalQueue'[i] # q
      <4>1. 1 \in 1 .. Len(globalQueue)
        BY <2>2
      <4>2. QED
        BY <2>2, <2>3, <2>4, <4>1 DEF HasOneCarrier
    <3>5. \A u \in Threads : current'[u] = q /\ Pushes(u, q)' => prevCount'[u] # 0
      BY <2>1, <3>2 DEF Owns
    <3>6. QED
      BY <2>1, <3>1, <3>3, <3>4, <3>5 DEF HasOneCarrier, InGlobalQueue
  <2>5. CASE Head(globalQueue) # q
    <3>1. \A u \in Threads : Owns(u, q)' <=> Owns(u, q)
      BY <2>1, <2>5 DEF Owns
    <3>2. InGlobalQueue(q)' => InGlobalQueue(q)
      BY <2>2, <2>3 DEF InGlobalQueue
    <3>3. ASSUME NEW i \in 1 .. Len(globalQueue), globalQueue[i] = q
          PROVE  i - 1 \in 1 .. Len(globalQueue') /\ globalQueue'[i - 1] = q
      BY <2>2, <2>5, <3>3
    <3>4. InGlobalQueue(q) => InGlobalQueue(q)'
      BY <3>3 DEF InGlobalQueue
    <3>5. \A i, j \in 1 .. Len(globalQueue') :
            globalQueue'[i] = q /\ globalQueue'[j] = q => i = j
      <4> SUFFICES ASSUME NEW i \in 1 .. Len(globalQueue'),
                          NEW j \in 1 .. Len(globalQueue'),
                          globalQueue'[i] = q, globalQueue'[j] = q
                   PROVE  i = j
        OBVIOUS
      <4>1. i + 1 = j + 1
        BY <2>2, <2>3 DEF HasOneCarrier
      <4>2. QED
        BY <4>1
    <3>6. \A u \in Threads : current'[u] = q /\ Pushes(u, q)' => prevCount'[u] # 0
      BY <2>1, <2>5 DEF HasOneCarrier
    <3>7. QED
      BY <2>1, <3>1, <3>2, <3>4, <3>5, <3>6 DEF HasOneCarrier
  <2>6. QED
    BY <2>4, <2>5
<1>10. QED
  BY <1>1, <1>2, <1>3, <1>4, <1>5, <1>6, <1>7, <1>8, <1>9 DEF Step, Progress

-----------------------------------------------------------------------------
(* IInv is inductive. *)
THEOREM Invariance == Spec => []IInv
<1>1. IInv /\ [Next]_vars => IInv'
  <2> SUFFICES ASSUME IInv, [Next]_vars PROVE IInv'
    OBVIOUS
  <2>1. CASE Next
    <3>1. PICK t \in Threads : Step(t)
      BY <2>1 DEF Next, Step
    <3>2. TypeOK' /\ CountExact' /\ OneCarrier'
      BY <3>1, StepTypeOK, StepCountExact, StepOneCarrier
    <3>3. QED
      BY <3>2 DEF IInv
  <2>2. CASE UNCHANGED vars
    <3> USE <2>2 DEF vars, IInv
    <3>1. TypeOK'
      BY DEF TypeOK, Types, Places
    <3>2. CountExact'
      <4>1. \A q \in Queues : Entering(q)' = Entering(q)
        BY DEF Entering
      <4>2. QED
        BY <4>1 DEF CountExact, CountMatches
    <3>3. OneCarrier'
      BY DEF OneCarrier, HasOneCarrier, Owns, Pushes, InGlobalQueue
    <3>4. QED
      BY <3>1, <3>2, <3>3
  <2>3. QED
    BY <2>1, <2>2
<1>2. QED
  BY InitIInv, <1>1, PTL DEF Spec

(* The variables keep their types. *)
THEOREM TypeCorrect == Spec => []TypeOK
<1>1. IInv => TypeOK
  BY DEF IInv
<1>2. QED
  BY Invariance, <1>1, PTL

(* No two threads execute one queue at a time (JobQueue.cpp:33-62). *)
THEOREM Exclusion == Spec => []MutualExclusion
<1>1. IInv => MutualExclusion
  BY DEF IInv, OneCarrier, HasOneCarrier, Owns, MutualExclusion, TypeOK, Types
<1>2. QED
  BY Invariance, <1>1, PTL

(* A queue with jobs is carried by one thread or one global queue entry,   *)
(* a queue without jobs by none: nothing is stranded (JobQueue.cpp:9-62).  *)
THEOREM NothingStranded == Spec => []OneCarrier
<1>1. IInv => OneCarrier
  BY DEF IInv
<1>2. QED
  BY Invariance, <1>1, PTL

(* The counter is exact, so fetch_sub sees 0 only when nothing is left.    *)
THEOREM CounterExact == Spec => []CountExact
<1>1. IInv => CountExact
  BY DEF IInv
<1>2. QED
  BY Invariance, <1>1, PTL

-----------------------------------------------------------------------------
(* JobQueue implements SerialExecutor.  A job is submitted when _jobs.Push *)
(* stores it (Enqueue), begins when Execute calls it (BeginJob) and ends   *)
(* when that call returns (EndJob).  Every other step leaves the abstract  *)
(* queue as it is: moving jobs to the batch, and passing a queue between   *)
(* threads, which happens only with an empty batch.                        *)

(* Sequence facts. *)
LEMMA ConcatOfAppend ==
  ASSUME NEW S, NEW s \in Seq(S), NEW u \in Seq(S), NEW e \in S
  PROVE  s \o Append(u, e) = Append(s \o u, e)
<1>1. Append(u, e) = u \o <<e>> /\ <<e>> \in Seq(S)
  BY AppendIsConcat
<1>2. s \o u \in Seq(S)
  BY ConcatProperties
<1>3. Append(s \o u, e) = (s \o u) \o <<e>>
  BY <1>2, AppendIsConcat
<1>4. QED
  BY <1>1, <1>3, ConcatAssociative

LEMMA ConcatHeadTail ==
  ASSUME NEW S, NEW s \in Seq(S), NEW u \in Seq(S), s # <<>>
  PROVE  s \o u # <<>> /\ Head(s \o u) = Head(s) /\ Tail(s \o u) = Tail(s) \o u
OBVIOUS

(* While t executes q, the abstract queue is read off t. *)
LEMMA ReadExecutor ==
  ASSUME NEW q \in Queues, NEW t \in Threads, current[t] = q,
         \A u \in Threads : current[u] = q => u = t
  PROVE  Waiting(q) = batch[t] \o jobs[q] /\ Running(q) = running[t]
<1>1. Executed(q) /\ Executor(q) = t
  BY DEF Executed, Executor
<1>2. QED
  BY <1>1 DEF Waiting, Running

(* While nobody executes q, the abstract queue is what q stores. *)
LEMMA ReadIdle ==
  ASSUME NEW q \in Queues, \A u \in Threads : current[u] # q
  PROVE  Waiting(q) = jobs[q] /\ Running(q) = NoJob
BY DEF Executed, Waiting, Running

(* The executor of a queue is unique. *)
LEMMA OneExecutor ==
  ASSUME IInv, NEW q \in Queues, NEW t \in Threads, current[t] = q
  PROVE  \A u \in Threads : current[u] = q => u = t
BY DEF IInv, OneCarrier, HasOneCarrier, Owns

(* A queue whose executor, batch, running job and store do not change. *)
LEMMA SameAbstract ==
  ASSUME NEW q \in Queues, jobs'[q] = jobs[q],
         \A u \in Threads : current'[u] = q <=> current[u] = q,
         \A u \in Threads : current[u] = q =>
           batch'[u] = batch[u] /\ running'[u] = running[u]
  PROVE  Waiting(q)' = Waiting(q) /\ Running(q)' = Running(q)
<1>1. Executed(q)' <=> Executed(q)
  BY DEF Executed
<1>2. Executor(q)' = Executor(q)
  BY DEF Executor
<1>3. Executed(q) => current[Executor(q)] = q /\ Executor(q) \in Threads
  BY DEF Executed, Executor
<1>4. QED
  BY <1>1, <1>2, <1>3 DEF Waiting, Running

(* A thread with nothing popped and nothing running begins or ends its     *)
(* execution of q: the abstract queue does not notice.                     *)
LEMMA QuietTakeOver ==
  ASSUME IInv, IInv', NEW t \in Threads, NEW q \in Queues,
         jobs' = jobs, batch' = batch, running' = running,
         \A u \in Threads : u # t => current'[u] = current[u],
         current[t] = NoQueue \/ current'[t] = NoQueue,
         batch[t] = <<>>, running[t] = NoJob
  PROVE  Waiting(q)' = Waiting(q) /\ Running(q)' = Running(q)
<1>0. jobs[q] \in Seq(Jobs) /\ <<>> \o jobs[q] = jobs[q]
  BY ConcatEmptySeq DEF IInv, TypeOK, Types
<1>1. CASE current[t] = q /\ current'[t] # q
  <2>1. \A u \in Threads : current[u] = q => u = t
    BY <1>1, OneExecutor
  <2>2. Waiting(q) = jobs[q] /\ Running(q) = NoJob
    BY <1>0, <1>1, <2>1, ReadExecutor
  <2>3. \A u \in Threads : current'[u] # q
    BY <1>1, <2>1
  <2>4. Waiting(q)' = jobs'[q] /\ Running(q)' = NoJob
    BY <2>3 DEF Executed, Waiting, Running
  <2>5. QED
    BY <2>2, <2>4
<1>2. CASE current[t] # q /\ current'[t] = q
  <2>1. \A u \in Threads : current'[u] = q => u = t
    BY <1>2, OneExecutor, IInv' DEF IInv, OneCarrier, HasOneCarrier, Owns
  <2>2. \A u \in Threads : current[u] # q
    BY <1>2, <2>1
  <2>3. Waiting(q) = jobs[q] /\ Running(q) = NoJob
    BY <2>2, ReadIdle
  <2>4. Executed(q)' /\ Executor(q)' = t
    BY <1>2, <2>1 DEF Executed, Executor
  <2>5. Waiting(q)' = batch'[t] \o jobs'[q] /\ Running(q)' = running'[t]
    BY <2>4 DEF Waiting, Running
  <2>6. QED
    BY <1>0, <2>3, <2>5
<1>3. CASE (current[t] = q) <=> (current'[t] = q)
  <2>1. \A u \in Threads : current'[u] = q <=> current[u] = q
    BY <1>3
  <2>2. QED
    BY <2>1, SameAbstract
<1>4. QED
  BY <1>1, <1>2, <1>3

-----------------------------------------------------------------------------
AbsWaiting == [q \in Queues |-> Waiting(q)]
AbsRunning == [q \in Queues |-> Running(q)]

(* Initially both are empty. *)
LEMMA InitRefines == Init => Serial!Init
<1> SUFFICES ASSUME Init PROVE Serial!Init
  OBVIOUS
<1>1. ASSUME NEW q \in Queues PROVE Waiting(q) = <<>> /\ Running(q) = NoJob
  <2>1. \A u \in Threads : current[u] # q
    BY NoQueueAssumption DEF Init
  <2>2. QED
    BY <2>1, ReadIdle DEF Init
<1>2. QED
  BY <1>1 DEF Serial!Init

(* _jobs.Push submits the job. *)
LEMMA EnqueueRefines ==
  ASSUME IInv, IInv', NEW t \in Threads, Enqueue(t)
  PROVE  Serial!Submit(target[t], posting[t])
<1>0. PICK r \in Queues : r = target[t]
  BY DEF Enqueue, IInv, TypeOK, Places
<1>1. /\ posting[t] \in Jobs
      /\ \A q \in Queues : jobs[q] \in Seq(Jobs)
      /\ \A u \in Threads : batch[u] \in Seq(Jobs)
      /\ jobs'[r] = Append(jobs[r], posting[t])
      /\ \A q \in Queues : q # r => jobs'[q] = jobs[q]
      /\ current' = current /\ batch' = batch /\ running' = running
  BY <1>0 DEF Enqueue, IInv, TypeOK, Types, Places
<1>2. ASSUME NEW q \in Queues, q # r
      PROVE  Waiting(q)' = Waiting(q) /\ Running(q)' = Running(q)
  BY <1>1, <1>2, SameAbstract
<1>3. Waiting(r)' = Append(Waiting(r), posting[t]) /\ Running(r)' = Running(r)
  <2>1. (Executed(r)' <=> Executed(r)) /\ Executor(r)' = Executor(r)
    BY <1>1 DEF Executed, Executor
  <2>2. CASE Executed(r)
    <3>1. Executor(r) \in Threads
      BY <2>2 DEF Executed, Executor
    <3>2. /\ batch[Executor(r)] \in Seq(Jobs) /\ jobs[r] \in Seq(Jobs)
          /\ posting[t] \in Jobs
      BY <1>1, <3>1
    <3>3. batch[Executor(r)] \o Append(jobs[r], posting[t])
            = Append(batch[Executor(r)] \o jobs[r], posting[t])
      <4>1. \A s, u \in Seq(Jobs) : \A e \in Jobs :
              s \o Append(u, e) = Append(s \o u, e)
        BY ConcatOfAppend
      <4>2. QED
        BY <3>2, <4>1, Zenon
    <3>4. QED
      BY <1>1, <2>1, <2>2, <3>3 DEF Waiting, Running
  <2>3. CASE ~Executed(r)
    BY <1>1, <2>1, <2>3 DEF Waiting, Running
  <2>4. QED
    BY <2>2, <2>3
<1>4. AbsWaiting' = [AbsWaiting EXCEPT ![r] = Append(@, posting[t])]
  BY <1>1, <1>2, <1>3 DEF AbsWaiting
<1>5. AbsRunning' = AbsRunning
  BY <1>2, <1>3 DEF AbsRunning
<1>6. QED
  BY <1>0, <1>4, <1>5 DEF Serial!Submit, AbsWaiting, AbsRunning

(* Calling the next job of the batch begins it. *)
LEMMA BeginJobRefines ==
  ASSUME IInv, IInv', NEW t \in Threads, BeginJob(t)
  PROVE  Serial!Begin(current[t])
<1> DEFINE r == current[t]
<1>1. /\ r \in Queues /\ batch[t] \in Seq(Jobs) /\ batch[t] # <<>>
      /\ jobs[r] \in Seq(Jobs) /\ running[t] = NoJob
      /\ jobs' = jobs /\ current' = current
      /\ batch'[t] = Tail(batch[t]) /\ running'[t] = Head(batch[t])
      /\ \A u \in Threads : u # t => batch'[u] = batch[u] /\ running'[u] = running[u]
  BY DEF BeginJob, IInv, TypeOK, Types, Places, shared
<1>2. \A u \in Threads : current[u] = r => u = t
  BY <1>1, OneExecutor
<1>3. ASSUME NEW q \in Queues, q # r
      PROVE  Waiting(q)' = Waiting(q) /\ Running(q)' = Running(q)
  <2>1. \A u \in Threads : current[u] = q => u # t
    BY <1>3
  <2>2. QED
    BY <1>1, <2>1, SameAbstract
<1>4. Waiting(r) = batch[t] \o jobs[r] /\ Running(r) = NoJob
  BY <1>1, <1>2, ReadExecutor
<1>5. Executed(r)' /\ Executor(r)' = t
  BY <1>1, <1>2 DEF Executed, Executor
<1>6. Waiting(r)' = Tail(batch[t]) \o jobs[r] /\ Running(r)' = Head(batch[t])
  BY <1>1, <1>5 DEF Waiting, Running
<1>7. /\ Waiting(r) # <<>> /\ Running(r)' = Head(Waiting(r))
      /\ Waiting(r)' = Tail(Waiting(r))
  BY <1>1, <1>4, <1>6, ConcatHeadTail, ZenonT(40)
<1>8. AbsWaiting' = [AbsWaiting EXCEPT ![r] = Tail(@)]
  BY <1>1, <1>3, <1>7 DEF AbsWaiting
<1>9. AbsRunning' = [AbsRunning EXCEPT ![r] = Head(Waiting(r))]
  BY <1>1, <1>3, <1>7 DEF AbsRunning
<1>10. QED
  BY <1>1, <1>4, <1>7, <1>8, <1>9 DEF Serial!Begin, AbsWaiting, AbsRunning

(* The return of a job ends it. *)
LEMMA EndJobRefines ==
  ASSUME IInv, IInv', NEW t \in Threads, EndJob(t)
  PROVE  current[t] \in Queues /\ Serial!End(current[t])
<1> DEFINE r == current[t]
<1>1. /\ r \in Queues /\ running[t] # NoJob /\ running'[t] = NoJob
      /\ jobs' = jobs /\ current' = current /\ batch' = batch
      /\ \A u \in Threads : u # t => running'[u] = running[u]
  BY NoQueueAssumption DEF EndJob, IInv, TypeOK, Types, Places, shared
<1>2. \A u \in Threads : current[u] = r => u = t
  BY <1>1, OneExecutor
<1>3. ASSUME NEW q \in Queues, q # r
      PROVE  Waiting(q)' = Waiting(q) /\ Running(q)' = Running(q)
  <2>1. \A u \in Threads : current[u] = q => u # t
    BY <1>3
  <2>2. QED
    BY <1>1, <2>1, SameAbstract
<1>4. Waiting(r) = batch[t] \o jobs[r] /\ Running(r) = running[t]
  BY <1>1, <1>2, ReadExecutor
<1>5. Executed(r)' /\ Executor(r)' = t
  BY <1>1, <1>2 DEF Executed, Executor
<1>6. Waiting(r)' = batch[t] \o jobs[r] /\ Running(r)' = NoJob
  BY <1>1, <1>5 DEF Waiting, Running
<1>7. AbsWaiting' = AbsWaiting
  BY <1>1, <1>3, <1>4, <1>6 DEF AbsWaiting
<1>8. AbsRunning' = [AbsRunning EXCEPT ![r] = NoJob]
  BY <1>1, <1>3, <1>6 DEF AbsRunning
<1>9. QED
  BY <1>1, <1>4, <1>7, <1>8 DEF Serial!End, AbsWaiting, AbsRunning

(* The steps that move jobs or queues between threads are stutters. *)
LEMMA OtherRefines ==
  ASSUME IInv, IInv', NEW t \in Threads, Step(t),
         ~Enqueue(t), ~BeginJob(t), ~EndJob(t), NEW q \in Queues
  PROVE  Waiting(q)' = Waiting(q) /\ Running(q)' = Running(q)
<1> USE NoQueueAssumption DEF Goto, shared
<1>0. Types /\ Places
  BY DEF IInv, TypeOK
<1>1. CASE PopAll(t)
  <2>1. /\ current[t] \in Queues /\ batch[t] = <<>> /\ current' = current
        /\ running' = running /\ batch'[t] = jobs[current[t]]
        /\ jobs'[current[t]] = <<>> /\ jobs[current[t]] \in Seq(Jobs)
        /\ \A u \in Threads : u # t => batch'[u] = batch[u]
        /\ \A p \in Queues : p # current[t] => jobs'[p] = jobs[p]
    BY <1>0, <1>1 DEF PopAll, Types, Places
  <2>2. CASE current[t] = q
    <3>1. \A u \in Threads : current[u] = q => u = t
      BY <2>2, OneExecutor
    <3>2. Waiting(q) = batch[t] \o jobs[q] /\ Running(q) = running[t]
      BY <2>2, <3>1, ReadExecutor
    <3>3. Executed(q)' /\ Executor(q)' = t
      BY <2>1, <2>2, <3>1 DEF Executed, Executor
    <3>4. Waiting(q)' = jobs[q] \o <<>> /\ Running(q)' = running[t]
      BY <2>1, <2>2, <3>3 DEF Waiting, Running
    <3>5. jobs[q] \o <<>> = <<>> \o jobs[q]
      BY <2>1, <2>2, ConcatEmptySeq
    <3>6. QED
      BY <2>1, <3>2, <3>4, <3>5
  <2>3. CASE current[t] # q
    <3>1. \A u \in Threads : current[u] = q => u # t
      BY <2>3
    <3>2. QED
      BY <2>1, <2>3, <3>1, SameAbstract
  <2>4. QED
    BY <2>2, <2>3
<1>2. CASE ExecuteHere(t) \/ TakeGlobal(t)
  <2>1. /\ current[t] = NoQueue /\ batch[t] = <<>> /\ running[t] = NoJob
        /\ \A u \in Threads : u # t => current'[u] = current[u]
        /\ jobs' = jobs /\ batch' = batch /\ running' = running
    BY <1>0, <1>2 DEF ExecuteHere, TakeGlobal, Types, Places
  <2>2. QED
    BY <2>1, QuietTakeOver
<1>3. CASE Finish(t) \/ HandOver(t)
  <2>1. /\ current'[t] = NoQueue /\ batch[t] = <<>> /\ running[t] = NoJob
        /\ \A u \in Threads : u # t => current'[u] = current[u]
        /\ jobs' = jobs /\ batch' = batch /\ running' = running
    BY <1>0, <1>3 DEF Finish, HandOver, Types, Places
  <2>2. QED
    BY <2>1, QuietTakeOver
<1>4. CASE \/ \E r \in Queues : Count(t, r)
           \/ LeaveToOthers(t) \/ Subtract(t) \/ KeepGoing(t)
           \/ ToGlobalWork(t) \/ NextRound(t) \/ ClockTick(t)
  <2>1. jobs' = jobs /\ current' = current /\ batch' = batch /\ running' = running
    BY <1>4 DEF Count, LeaveToOthers, Subtract, KeepGoing, ToGlobalWork,
       NextRound, ClockTick
  <2>2. QED
    BY <2>1, SameAbstract
<1>5. QED
  BY <1>1, <1>2, <1>3, <1>4 DEF Step, Progress

-----------------------------------------------------------------------------
(* Every queue is a serial executor: its jobs run one at a time, each      *)
(* once, in the order in which they were stored (JobQueue.cpp:9-62).       *)
THEOREM Refinement == Spec => ImplementsSerial
<1>1. ASSUME IInv, IInv', [Next]_vars
      PROVE  [Serial!Next]_(Serial!vars)
  <2>1. ASSUME NEW t \in Threads, Step(t) PROVE [Serial!Next]_(Serial!vars)
    <3>1. CASE Enqueue(t)
      <4>1. target[t] \in Queues /\ posting[t] \in Jobs
        BY <1>1, <3>1 DEF Enqueue, IInv, TypeOK, Places
      <4>2. QED
        BY <1>1, <3>1, <4>1, EnqueueRefines DEF Serial!Next
    <3>2. CASE BeginJob(t)
      <4>1. current[t] \in Queues
        BY <1>1, <3>2 DEF BeginJob, IInv, TypeOK, Places
      <4>2. QED
        BY <1>1, <3>2, <4>1, BeginJobRefines DEF Serial!Next
    <3>3. CASE EndJob(t)
      BY <1>1, <3>3, EndJobRefines DEF Serial!Next
    <3>4. CASE ~Enqueue(t) /\ ~BeginJob(t) /\ ~EndJob(t)
      <4>1. \A q \in Queues : Waiting(q)' = Waiting(q) /\ Running(q)' = Running(q)
        BY <1>1, <2>1, <3>4, OtherRefines
      <4>2. QED
        BY <4>1 DEF Serial!vars
    <3>5. QED
      BY <3>1, <3>2, <3>3, <3>4
  <2>2. ASSUME UNCHANGED vars PROVE [Serial!Next]_(Serial!vars)
    <3>1. \A q \in Queues : Waiting(q)' = Waiting(q) /\ Running(q)' = Running(q)
      BY <2>2, SameAbstract DEF vars
    <3>2. QED
      BY <3>1 DEF Serial!vars
  <2>3. QED
    BY <1>1, <2>1, <2>2 DEF Next, Step
<1>2. QED
  BY InitRefines, Invariance, <1>1, PTL DEF Spec, ImplementsSerial, Serial!Spec
=============================================================================
