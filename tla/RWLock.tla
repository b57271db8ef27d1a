------------------------------- MODULE RWLock -------------------------------
(***************************************************************************)
(* The reader-writer spin lock (class Lock): one flag word with the owner  *)
(* in its upper half and the number of readers in its lower half, and      *)
(* _writeCount, which only the owner touches.  Used through the guards of  *)
(* WRITE_LOCK and READ_LOCK, so a thread unlocks in the reverse order, and *)
(* by the rule of Lock.h:15: read guards inside a write guard, never a     *)
(* write guard inside a read guard.                                        *)
(*                                                                         *)
(* One step is one access to the flag.  A failed round of the spin loop    *)
(* changes nothing; the lock may give up after ACQUIRE_TIMEOUT_TICK, which *)
(* ends the program.  Debug builds also call the deadlock profiler.        *)
(***************************************************************************)
EXTENDS Naturals, FiniteSets

CONSTANTS
  Threads,  \* the LThreadIds; InitTLS hands them out from 1
  MaxDepth  \* bound: guards of one kind that a thread nests

NoOwner == 0

ASSUME ThreadsAssumption ==
  IsFiniteSet(Threads) /\ Threads \subseteq Nat /\ NoOwner \notin Threads
ASSUME DepthAssumption == MaxDepth \in Nat \ {0}

VARIABLES
  flag,        \* _lockFlag: owner and readers
  writeCount,  \* _writeCount
  pc,          \* where a thread is, see PC
  seen,        \* ReadLock: expected, the reader count it loaded
  writes,      \* write guards a thread holds
  reads,       \* read guards a thread holds
  crash        \* "no", or the reason given to CRASH

vars == <<flag, writeCount, pc, seen, writes, reads, crash>>

EMPTY_FLAG == [owner |-> NoOwner, readers |-> 0]

Init ==
  /\ flag       = EMPTY_FLAG
  /\ writeCount = 0
  /\ pc         = [t \in Threads |-> "run"]
  /\ seen       = [t \in Threads |-> 0]
  /\ writes     = [t \in Threads |-> 0]
  /\ reads      = [t \in Threads |-> 0]
  /\ crash      = "no"

At(t, place)   == crash = "no" /\ pc[t] = place
Goto(t, place) == pc' = [pc EXCEPT ![t] = place]

-----------------------------------------------------------------------------
(* WriteLock: load the flag; then either count up or compare and swap.     *)
CallWriteLock(t) ==
  /\ At(t, "run")
  /\ reads[t] = 0 /\ writes[t] < MaxDepth
  /\ Goto(t, IF flag.owner = t THEN "writeAgain" ELSE "writeSpin")
  /\ UNCHANGED <<flag, writeCount, seen, writes, reads, crash>>

(* mutant: the owner is let in without counting                            *)
WriteAgain_Free(t) ==
  /\ At(t, "writeAgain")
  /\ writes' = [writes EXCEPT ![t] = @ + 1]
  /\ Goto(t, "run")
  /\ UNCHANGED <<flag, writeCount, seen, reads, crash>>

WriteAgain(t) ==
  /\ At(t, "writeAgain")
  /\ writeCount' = writeCount + 1
  /\ writes'     = [writes EXCEPT ![t] = @ + 1]
  /\ Goto(t, "run")
  /\ UNCHANGED <<flag, seen, reads, crash>>

Free == flag = EMPTY_FLAG

WriteTake(t) ==
  /\ At(t, "writeSpin")
  /\ Free
  /\ flag'   = [owner |-> t, readers |-> 0]
  /\ writes' = [writes EXCEPT ![t] = @ + 1]
  /\ Goto(t, "writeCount")
  /\ UNCHANGED <<writeCount, seen, reads, crash>>

WriteCount(t) ==
  /\ At(t, "writeCount")
  /\ writeCount' = writeCount + 1
  /\ Goto(t, "run")
  /\ UNCHANGED <<flag, seen, writes, reads, crash>>

-----------------------------------------------------------------------------
(* ReadLock: the owner adds one; others load the count, compare and swap.  *)
CallReadLock(t) ==
  /\ At(t, "run")
  /\ reads[t] < MaxDepth
  /\ Goto(t, IF flag.owner = t THEN "readAgain" ELSE "readLoad")
  /\ UNCHANGED <<flag, writeCount, seen, writes, reads, crash>>

AddReader(t) ==
  /\ flag'  = [flag EXCEPT !.readers = @ + 1]
  /\ reads' = [reads EXCEPT ![t] = @ + 1]
  /\ Goto(t, "run")

ReadAgain(t) ==
  /\ At(t, "readAgain")
  /\ AddReader(t)
  /\ UNCHANGED <<writeCount, seen, writes, crash>>

ReadLoad(t) ==
  /\ At(t, "readLoad")
  /\ seen' = [seen EXCEPT ![t] = flag.readers]
  /\ Goto(t, "readTry")
  /\ UNCHANGED <<flag, writeCount, writes, reads, crash>>

(* mutant: expected is taken with the owner bits                           *)
Unchanged_AnyOwner(t) == flag.readers = seen[t]

Unchanged(t) == flag = [owner |-> NoOwner, readers |-> seen[t]]

ReadTake(t) ==
  /\ At(t, "readTry")
  /\ Unchanged(t)
  /\ AddReader(t)
  /\ UNCHANGED <<writeCount, seen, writes, crash>>

ReadRetry(t) ==
  /\ At(t, "readTry")
  /\ ~Unchanged(t)
  /\ Goto(t, "readLoad")
  /\ UNCHANGED <<flag, writeCount, seen, writes, reads, crash>>

-----------------------------------------------------------------------------
(* LOCK_TIMEOUT of both loops.                                             *)
GiveUp(t) ==
  /\ \/ At(t, "writeSpin") /\ ~Free
     \/ At(t, "readTry") /\ ~Unchanged(t)
  /\ crash' = "LOCK_TIMEOUT"
  /\ UNCHANGED <<flag, writeCount, pc, seen, writes, reads>>

-----------------------------------------------------------------------------
(* WriteUnlock: the two checks, --_writeCount, and the store of EMPTY_FLAG.*)
CheckWriteUnlock(t) ==
  /\ At(t, "run")
  /\ writes[t] > 0 /\ reads[t] = 0
  /\ IF writeCount = 0 THEN crash' = "MULTIPLE_UNLOCK" /\ UNCHANGED pc
     ELSE IF flag.readers # 0 THEN crash' = "INVALID_UNLOCK_ORDER" /\ UNCHANGED pc
     ELSE Goto(t, "writeDrop") /\ UNCHANGED crash
  /\ UNCHANGED <<flag, writeCount, seen, writes, reads>>

(* mutant: the last unlock does not count down                             *)
WriteDrop_Last(t) ==
  /\ At(t, "writeDrop")
  /\ IF writeCount = 1
     THEN Goto(t, "writeStore") /\ UNCHANGED <<writeCount, writes>>
     ELSE /\ Goto(t, "run")
          /\ writeCount' = writeCount - 1
          /\ writes' = [writes EXCEPT ![t] = @ - 1]
  /\ UNCHANGED <<flag, seen, reads, crash>>

WriteDrop(t) ==
  /\ At(t, "writeDrop")
  /\ writeCount' = writeCount - 1
  /\ IF writeCount = 1
     THEN Goto(t, "writeStore") /\ UNCHANGED writes
     ELSE Goto(t, "run") /\ writes' = [writes EXCEPT ![t] = @ - 1]
  /\ UNCHANGED <<flag, seen, reads, crash>>

Cleared == EMPTY_FLAG

WriteStore(t) ==
  /\ At(t, "writeStore")
  /\ flag'   = Cleared
  /\ writes' = [writes EXCEPT ![t] = @ - 1]
  /\ Goto(t, "run")
  /\ UNCHANGED <<writeCount, seen, reads, crash>>

(* ReadUnlock: fetch_sub, and a crash when there was no reader (the flag   *)
(* has wrapped by then, which nobody lives to see).                        *)
ReadUnlock(t) ==
  /\ At(t, "run")
  /\ reads[t] > 0
  /\ IF flag.readers = 0
     THEN crash' = "MULTIPLE_UNLOCK" /\ UNCHANGED <<flag, reads>>
     ELSE /\ flag'  = [flag EXCEPT !.readers = @ - 1]
          /\ reads' = [reads EXCEPT ![t] = @ - 1]
          /\ UNCHANGED crash
  /\ UNCHANGED <<writeCount, pc, seen, writes>>

-----------------------------------------------------------------------------
Step(t) ==
  \/ CallWriteLock(t) \/ WriteAgain(t) \/ WriteTake(t) \/ WriteCount(t)
  \/ CallReadLock(t) \/ ReadAgain(t) \/ ReadLoad(t) \/ ReadTake(t) \/ ReadRetry(t)
  \/ GiveUp(t)
  \/ CheckWriteUnlock(t) \/ WriteDrop(t) \/ WriteStore(t) \/ ReadUnlock(t)

Next == \E t \in Threads : Step(t)

Spec == Init /\ [][Next]_vars

-----------------------------------------------------------------------------
PC == {"run", "writeAgain", "writeSpin", "writeCount", "readAgain", "readLoad",
       "readTry", "writeDrop", "writeStore"}

Crashes == {"no", "LOCK_TIMEOUT", "MULTIPLE_UNLOCK", "INVALID_UNLOCK_ORDER"}

TypeOK ==
  /\ flag       \in [owner : Threads \cup {NoOwner}, readers : Nat]
  /\ writeCount \in 0 .. MaxDepth
  /\ pc         \in [Threads -> PC]
  /\ seen       \in [Threads -> Nat]
  /\ writes     \in [Threads -> 0 .. MaxDepth]
  /\ reads      \in [Threads -> 0 .. MaxDepth]
  /\ crash      \in Crashes

(* A thread that holds a write guard keeps everybody else out, readers and *)
(* writers, through all the accesses of an unlock or of a nested lock that *)
(* is under way (Lock.cpp:24-34, 65-67, 87-92).                            *)
WriterAlone ==
  \A t, u \in Threads :
    t # u /\ writes[t] > 0 => writes[u] = 0 /\ reads[u] = 0

(* The read guards of all threads, each with its nesting level.            *)
ReadGuards == {g \in Threads \X (1 .. MaxDepth) : g[2] <= reads[g[1]]}

(* The flag word says who holds what: its lower half is the number of read *)
(* guards and its upper half the thread with a write guard, so that a lock *)
(* nobody holds is EMPTY_FLAG again and can be taken (Lock.cpp:67, 79, 90, *)
(* 110).                                                                   *)
FlagExact ==
  /\ flag.readers = Cardinality(ReadGuards)
  /\ \A t \in Threads : flag.owner = t <=> writes[t] > 0

(* Guards that are used by the rule of Lock.h:15 never meet the crashes of *)
(* an unlock: recursion count and reader count match what is held          *)
(* (Lock.cpp:53-63, 110-114).                                              *)
GuardsMatch == crash \in {"no", "LOCK_TIMEOUT"}

RW == INSTANCE ReadWriteLock

(* Every access to the flag is one step of the lock the guards rely on, or *)
(* none (Lock.cpp:6-115).                                                  *)
ImplementsLock == RW!Spec
=============================================================================
