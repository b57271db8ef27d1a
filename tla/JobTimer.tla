------------------------------ MODULE JobTimer ------------------------------
(***************************************************************************)
(* The job timer: DoTimer from a running job, the heap of reserved jobs,   *)
(* and the worker threads that distribute those that are due into the job  *)
(* queues.  The queues are taken by their promise, SerialExecutor; a Push  *)
(* may run the queue, so the thread that distributes comes back from it    *)
(* only some time later, with the gate still closed.                       *)
(*                                                                         *)
(* Every caller uses the DoTimer that takes a member function, whose job   *)
(* holds a shared_ptr to the queue.  Clear has no caller.                  *)
(***************************************************************************)
EXTENDS Naturals, Sequences, FiniteSets

CONSTANTS
  Threads,    \* worker threads
  Queues,     \* JobQueue objects: the manager, each accept session
  First,      \* the queue of the timer that InitMatchmakingManager leads to
  MaxTimers,  \* bound: timers reserved in a behaviour
  MaxDelay,   \* bound: tickAfter
  MaxTime     \* bound: the clock

ASSUME FirstAssumption == First \in Queues
ASSUME BoundAssumption ==
  MaxTimers \in Nat \ {0} /\ MaxDelay \in Nat /\ MaxTime \in Nat

Timers  == 1 .. MaxTimers
NoTimer == 0

VARIABLES
  now,           \* GetTickCount64
  issued,        \* DoTimer calls so far; names the next timer
  owner,         \* JobData::owner of each timer
  due,           \* TimerItem::executeTick
  reserving,     \* the timer a job has made and not yet put into the heap
  heap,          \* _items
  distributing,  \* _distributing
  pc,            \* where each thread is
  seen,          \* Distribute: now, read before the gate
  items,         \* Distribute: items taken and not yet handed over
  waiting,       \* the jobs of each queue (SerialExecutor)
  running,       \* the job each queue runs (SerialExecutor)
  kept,          \* queues to which something else holds a shared_ptr
  done,          \* timers whose job has ended
  ahead          \* history: unserved timers due earlier, when one is taken

queueVars == <<waiting, running>>
timerVars == <<issued, owner, due>>
vars == <<now, issued, owner, due, reserving, heap, distributing, pc, seen,
          items, waiting, running, kept, done, ahead>>

Serial == INSTANCE SerialExecutor WITH Jobs <- Timers, NoJob <- NoTimer

(* work: anywhere else in the worker loop; gate: before the exchange; pop: *)
(* in the loop under WRITE_LOCK; hand: in the loop over the items; push:   *)
(* inside Push.                                                            *)
PC == {"work", "gate", "pop", "hand", "push"}

Goto(t, label) == pc' = [pc EXCEPT ![t] = label]

(* The Tick that InitMatchmakingManager posts has reserved the next one.   *)
Init ==
  /\ now          = 0
  /\ issued       = 1
  /\ owner        = [i \in Timers |-> First]
  /\ due          = [i \in Timers |-> 0]
  /\ reserving    = [q \in Queues |-> NoTimer]
  /\ heap         = {1}
  /\ distributing = FALSE
  /\ pc           = [t \in Threads |-> "work"]
  /\ seen         = [t \in Threads |-> 0]
  /\ items        = [t \in Threads |-> <<>>]
  /\ Serial!Init
  /\ kept         = Queues
  /\ done         = {}
  /\ ahead        = [i \in Timers |-> {}]

-----------------------------------------------------------------------------
(* mutant: the job does not hold its queue                                 *)
Alive_Kept(q) == q \in kept

(* A queue lives while somebody keeps it or a timer's job that has not     *)
(* ended holds it.                                                         *)
Alive(q) ==
  q \in kept \/ \E i \in (1 .. issued) \ done : owner[i] = q

Tick ==
  /\ now < MaxTime
  /\ now' = now + 1
  /\ UNCHANGED <<timerVars, reserving, heap, distributing, pc, seen, items,
                 queueVars, kept, done, ahead>>

(* The last reference from outside the timer goes away.                    *)
Release(q) ==
  /\ q \in kept
  /\ kept' = kept \ {q}
  /\ UNCHANGED <<now, timerVars, reserving, heap, distributing, pc, seen,
                 items, queueVars, done, ahead>>

(* DoTimer, called by the job of q for a queue it has at hand: executeTick *)
(* is computed before the lock is taken.                                   *)
Reserve(q, o, d) ==
  /\ running[q] # NoTimer
  /\ reserving[q] = NoTimer
  /\ Alive(o)
  /\ issued < MaxTimers
  /\ now + d <= MaxTime
  /\ issued'    = issued + 1
  /\ owner'     = [owner EXCEPT ![issued + 1] = o]
  /\ due'       = [due EXCEPT ![issued + 1] = now + d]
  /\ reserving' = [reserving EXCEPT ![q] = issued + 1]
  /\ UNCHANGED <<now, heap, distributing, pc, seen, items, queueVars, kept,
                 done, ahead>>

Locked == \E t \in Threads : pc[t] = "pop"

Insert(q) ==
  /\ reserving[q] # NoTimer
  /\ ~Locked
  /\ heap'      = heap \cup {reserving[q]}
  /\ reserving' = [reserving EXCEPT ![q] = NoTimer]
  /\ UNCHANGED <<now, timerVars, distributing, pc, seen, items, queueVars,
                 kept, done, ahead>>

BeginJob(q) ==
  /\ Serial!Begin(q)
  /\ UNCHANGED <<now, timerVars, reserving, heap, distributing, pc, seen,
                 items, kept, done, ahead>>

EndJob(q) ==
  /\ reserving[q] = NoTimer
  /\ Serial!End(q)
  /\ done' = done \cup {running[q]}
  /\ UNCHANGED <<now, timerVars, reserving, heap, distributing, pc, seen,
                 items, kept, ahead>>

-----------------------------------------------------------------------------
(* DistributeReservedJobs and Distribute.                                  *)

ReadClock(t) ==
  /\ pc[t] = "work"
  /\ seen' = [seen EXCEPT ![t] = now]
  /\ Goto(t, "gate")
  /\ UNCHANGED <<now, timerVars, reserving, heap, distributing, items,
                 queueVars, kept, done, ahead>>

Skip(t) ==
  /\ pc[t] = "gate"
  /\ distributing
  /\ seen' = [seen EXCEPT ![t] = 0]
  /\ Goto(t, "work")
  /\ UNCHANGED <<now, timerVars, reserving, heap, distributing, items,
                 queueVars, kept, done, ahead>>

(* mutant: the result of the exchange is ignored                           *)
Enter_Always(t) ==
  /\ pc[t] = "gate"
  /\ ~Locked
  /\ distributing' = TRUE
  /\ Goto(t, "pop")
  /\ UNCHANGED <<now, timerVars, reserving, heap, seen, items, queueVars,
                 kept, done, ahead>>

(* The exchange finds the gate open; WRITE_LOCK.                           *)
Enter(t) ==
  /\ pc[t] = "gate"
  /\ ~distributing
  /\ ~Locked
  /\ distributing' = TRUE
  /\ Goto(t, "pop")
  /\ UNCHANGED <<now, timerVars, reserving, heap, seen, items, queueVars,
                 kept, done, ahead>>

InHand(i) == \E t \in Threads : \E n \in DOMAIN items[t] : items[t][n] = i

(* mutant: the heap is not asked whether it is empty                       *)
PopItem_NoTest(t) ==
  /\ pc[t] = "pop"
  /\ items' = [items EXCEPT ![t] = Append(@, NoTimer)]
  /\ Goto(t, "hand")
  /\ UNCHANGED <<now, timerVars, reserving, heap, distributing, seen,
                 queueVars, kept, done, ahead>>

(* _items.top() is due: items that are due at the same time leave the heap *)
(* in any order.                                                           *)
PopItem(t) ==
  /\ pc[t] = "pop"
  /\ \E i \in heap :
       /\ due[i] <= seen[t]
       /\ \A k \in heap : due[i] <= due[k]
       /\ heap'  = heap \ {i}
       /\ items' = [items EXCEPT ![t] = Append(@, i)]
       /\ ahead' = [ahead EXCEPT ![i] =
                      {k \in Timers : (k \in heap \/ InHand(k)) /\ due[k] < due[i]}]
  /\ UNCHANGED <<now, timerVars, reserving, distributing, pc, seen, queueVars,
                 kept, done>>

PopEnds(t) ==
  /\ pc[t] = "pop"
  /\ \A i \in heap : due[i] > seen[t]
  /\ seen' = [seen EXCEPT ![t] = 0]
  /\ Goto(t, "hand")
  /\ UNCHANGED <<now, timerVars, reserving, heap, distributing, items,
                 queueVars, kept, done, ahead>>

(* owner.lock() and Push.                                                  *)
Hand(t) ==
  /\ pc[t] = "hand"
  /\ items[t] # <<>>
  /\ LET i == Head(items[t]) IN
       IF Alive(owner[i]) THEN Serial!Submit(owner[i], i) /\ Goto(t, "push")
                          ELSE UNCHANGED <<queueVars, pc>>
  /\ items' = [items EXCEPT ![t] = Tail(@)]
  /\ UNCHANGED <<now, timerVars, reserving, heap, distributing, seen, kept,
                 done, ahead>>

PushReturns(t) ==
  /\ pc[t] = "push"
  /\ Goto(t, "hand")
  /\ UNCHANGED <<now, timerVars, reserving, heap, distributing, seen, items,
                 queueVars, kept, done, ahead>>

(* mutant: _distributing stays set                                         *)
Leave_Closed(t) ==
  /\ pc[t] = "hand"
  /\ items[t] = <<>>
  /\ Goto(t, "work")
  /\ UNCHANGED <<now, timerVars, reserving, heap, distributing, seen, items,
                 queueVars, kept, done, ahead>>

Leave(t) ==
  /\ pc[t] = "hand"
  /\ items[t] = <<>>
  /\ distributing' = FALSE
  /\ Goto(t, "work")
  /\ UNCHANGED <<now, timerVars, reserving, heap, seen, items, queueVars, kept,
                 done, ahead>>

-----------------------------------------------------------------------------
Distribute(t) ==
  \/ ReadClock(t) \/ Skip(t) \/ Enter(t) \/ PopItem(t) \/ PopEnds(t)
  \/ Hand(t) \/ PushReturns(t) \/ Leave(t)

Next ==
  \/ Tick
  \/ \E q \in Queues :
       \/ Release(q) \/ Insert(q) \/ BeginJob(q) \/ EndJob(q)
       \/ \E o \in Queues, d \in 0 .. MaxDelay : Reserve(q, o, d)
  \/ \E t \in Threads : Distribute(t)

Spec == Init /\ [][Next]_vars

(* Time passes, worker threads go round, the queues keep their promise.  A *)
(* job that spins for the lock of the heap gets it, or WriteLock would end *)
(* the program (Lock.cpp:36): other threads hold it again and again, so    *)
(* that takes strong fairness.                                             *)
Fairness ==
  /\ WF_vars(Tick)
  /\ \A t \in Threads : WF_vars(Distribute(t))
  /\ \A q \in Queues :
       SF_vars(Insert(q)) /\ WF_vars(BeginJob(q)) /\ WF_vars(EndJob(q))

FairSpec == Spec /\ Fairness

-----------------------------------------------------------------------------
TypeOK ==
  /\ now          \in 0 .. MaxTime
  /\ issued       \in 1 .. MaxTimers
  /\ owner        \in [Timers -> Queues]
  /\ due          \in [Timers -> Nat]
  /\ reserving    \in [Queues -> Timers \cup {NoTimer}]
  /\ heap         \subseteq Timers
  /\ distributing \in BOOLEAN
  /\ pc           \in [Threads -> PC]
  /\ seen         \in [Threads -> Nat]
  /\ items        \in [Threads -> Seq(Timers)]
  /\ Serial!TypeOK
  /\ kept         \subseteq Queues
  /\ done         \subseteq Timers
  /\ ahead        \in [Timers -> SUBSET Timers]

Made(i)  == \E q \in Queues : reserving[q] = i
Waits(i) == \E q \in Queues : \E n \in DOMAIN waiting[q] : waiting[q][n] = i
Runs(i)  == \E q \in Queues : running[q] = i

Handed(i) == Waits(i) \/ Runs(i) \/ i \in done

AtOneStage(i) ==
  /\ Made(i) \/ i \in heap \/ InHand(i) \/ Handed(i)
  /\ Made(i)   => ~(i \in heap \/ InHand(i) \/ Handed(i))
  /\ i \in heap => ~(InHand(i) \/ Handed(i))
  /\ InHand(i) => ~Handed(i)
  /\ Waits(i)  => ~(Runs(i) \/ i \in done)
  /\ Runs(i)   => i \notin done

(* f[a][m] is the same timer for no two places <<a, m>>. *)
NoTwice(f) ==
  \A a, b \in DOMAIN f : \A m \in DOMAIN f[a], n \in DOMAIN f[b] :
    f[a][m] = f[b][n] => a = b /\ m = n

(* A timer is at one place from DoTimer to the end of its job, whichever   *)
(* thread carries it and whatever is reserved meanwhile: none is lost, as  *)
(* one whose queue has died would be, none is handed over twice            *)
(* (JobTimer.cpp:9-54).                                                    *)
OnePlace ==
  /\ \A i \in 1 .. issued : AtOneStage(i)
  /\ NoTwice(items) /\ NoTwice(waiting)
  /\ \A p, q \in Queues : p # q =>
       /\ reserving[p] = reserving[q] => reserving[p] = NoTimer
       /\ running[p] = running[q] => running[p] = NoTimer

(* A timer reaches its queue after all those that were due earlier when it *)
(* was taken from the heap, though rounds are distributed by different     *)
(* threads and each may stop inside a job it pushed: that is what the gate *)
(* is for (JobTimer.cpp:22, 29-50).                                        *)
InDueOrder ==
  \A i \in Timers : Handed(i) => \A k \in ahead[i] : Handed(k)

(* Every timer's job runs and ends, also one whose queue nobody else keeps *)
(* (MatchAcceptSession.cpp:79) and one reserved while another thread       *)
(* distributes (JobTimer.cpp:22-23, 53).                                   *)
EveryTimerRuns == \A i \in Timers : i <= issued ~> i \in done
=============================================================================
