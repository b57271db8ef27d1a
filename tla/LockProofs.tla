----------------------------- MODULE LockProofs -----------------------------
(***************************************************************************)
(* Proofs about the locks: RWLock, for every number of threads and every   *)
(* depth, and DeadLockProfiler, for any threads, locks, names and nests.   *)
(*                                                                         *)
(* WriterAlone rests on FlagExact: a compare-and-swap of EMPTY_FLAG shows  *)
(* that nobody holds anything only if the word says who holds what.  That  *)
(* the word is cleared at the right moment needs _writeCount to match the  *)
(* guards of the owner, except between its own two accesses (CountInv).    *)
(*                                                                         *)
(* CrashExact rests on what a depth-first search keeps (Searching): its    *)
(* calls are a path, in the order of discovery; an edge it has looked at   *)
(* leads to a call that has returned or to the next call; and the calls    *)
(* that have returned lead only to each other and round no cycle.  Each    *)
(* step takes from what is to do (ToDo), so the search is over after as    *)
(* many steps as CheckCycle makes (SearchExact).  NoSilentDeadlock rests   *)
(* on that and on the nests of all threads being recorded (ProfilerInv).   *)
(*                                                                         *)
(* LeastOf, UpTo and FcnExists are stated as in MatchmakingProofs.         *)
(***************************************************************************)
EXTENDS RWLock, DeadLockProfiler, FiniteSetTheorems, WellFoundedInduction, TLAPS

(* What a thread holds at each place, and what _writeCount is then.        *)
PlaceInv == \A t \in Threads :
  /\ pc[t] = "writeAgain" => writes[t] > 0 /\ writes[t] < MaxDepth /\ reads[t] = 0
  /\ pc[t] = "writeSpin"  => writes[t] = 0 /\ reads[t] = 0
  /\ pc[t] = "readAgain"  => writes[t] > 0 /\ reads[t] < MaxDepth
  /\ pc[t] \in {"readLoad", "readTry"} => writes[t] = 0 /\ reads[t] < MaxDepth
  /\ pc[t] = "writeDrop"  => writes[t] > 0 /\ reads[t] = 0
  /\ pc[t] \in {"writeCount", "writeStore"} => writes[t] = 1 /\ reads[t] = 0

CountInv ==
  /\ \A t \in Threads :
       writes[t] > 0 =>
         writeCount = IF pc[t] \in {"writeCount", "writeStore"} THEN 0 ELSE writes[t]
  /\ flag.owner = NoOwner => writeCount = 0

IInv == TypeOK /\ WriterAlone /\ FlagExact /\ GuardsMatch /\ PlaceInv /\ CountInv

LEMMA InitIInv == Init => IInv
<1> SUFFICES ASSUME Init PROVE IInv
  OBVIOUS
<1> USE ThreadsAssumption, DepthAssumption DEF Init, EMPTY_FLAG, NoOwner
<1>1. TypeOK
  BY DEF TypeOK, PC, Crashes
<1>2. ReadGuards = {}
  BY DEF ReadGuards
<1>3. Cardinality(ReadGuards) = 0
  BY <1>2, FS_EmptySet
<1>4. WriterAlone /\ FlagExact /\ GuardsMatch /\ PlaceInv /\ CountInv
  BY <1>3 DEF WriterAlone, FlagExact, GuardsMatch, PlaceInv, CountInv
<1>5. QED
  BY <1>1, <1>4 DEF IInv

(* There are finitely many read guards; none of them means that no thread  *)
(* holds one.                                                              *)
LEMMA ReadGuardsFinite ==
  ASSUME TypeOK
  PROVE  /\ IsFiniteSet(ReadGuards)
         /\ Cardinality(ReadGuards) \in Nat
         /\ Cardinality(ReadGuards) = 0 <=> \A t \in Threads : reads[t] = 0
<1> USE ThreadsAssumption, DepthAssumption
<1>1. IsFiniteSet(1 .. MaxDepth)
  BY FS_Interval
<1>2. IsFiniteSet(Threads \X (1 .. MaxDepth))
  BY <1>1, FS_Product
<1>3. ReadGuards \subseteq Threads \X (1 .. MaxDepth)
  BY DEF ReadGuards
<1>4. IsFiniteSet(ReadGuards) /\ Cardinality(ReadGuards) \in Nat
  BY <1>2, <1>3, FS_Subset, FS_CardinalityType
<1>5. Cardinality(ReadGuards) = 0 <=> ReadGuards = {}
  BY <1>4, FS_EmptySet
<1>6. ASSUME ReadGuards = {}, NEW t \in Threads PROVE reads[t] = 0
  <2>1. reads[t] \in 0 .. MaxDepth
    BY DEF TypeOK
  <2>2. CASE reads[t] > 0
    <3>1. <<t, 1>> \in Threads \X (1 .. MaxDepth) /\ <<t, 1>>[2] <= reads[<<t, 1>>[1]]
      BY <2>1, <2>2
    <3>2. QED
      BY <1>6, <3>1 DEF ReadGuards
  <2>3. QED
    BY <2>1, <2>2
<1>7. ASSUME \A t \in Threads : reads[t] = 0 PROVE ReadGuards = {}
  <2>1. ASSUME NEW x \in Threads \X (1 .. MaxDepth), x[2] <= reads[x[1]] PROVE FALSE
    <3>1. x[1] \in Threads /\ x[2] \in 1 .. MaxDepth
      BY <2>1
    <3>2. reads[x[1]] = 0
      BY <1>7, <3>1
    <3>3. QED
      BY <2>1, <3>1, <3>2
  <2>2. QED
    BY <2>1 DEF ReadGuards
<1>8. QED
  BY <1>4, <1>5, <1>6, <1>7

(* A new guard of t, or one that t gives up, changes their number by one.  *)
LEMMA OneMoreRead ==
  ASSUME TypeOK, NEW t \in Threads, reads[t] < MaxDepth,
         reads' = [reads EXCEPT ![t] = @ + 1]
  PROVE  Cardinality(ReadGuards') = Cardinality(ReadGuards) + 1
<1> USE ThreadsAssumption, DepthAssumption
<1> DEFINE g == <<t, reads[t] + 1>>
<1>1. reads \in [Threads -> 0 .. MaxDepth]
  BY DEF TypeOK
<1>2. g \in Threads \X (1 .. MaxDepth) /\ g \notin ReadGuards
  BY <1>1 DEF ReadGuards
<1>3. ASSUME NEW x \in Threads \X (1 .. MaxDepth)
      PROVE  x[2] <= reads'[x[1]] <=> x[2] <= reads[x[1]] \/ x = g
  <2>1. x[1] \in Threads /\ x[2] \in 1 .. MaxDepth /\ x = <<x[1], x[2]>>
    BY <1>3
  <2>2. CASE x[1] = t
    BY <1>1, <2>1, <2>2
  <2>3. CASE x[1] # t
    BY <1>1, <2>1, <2>3
  <2>4. QED
    BY <2>2, <2>3
<1>4. ReadGuards' = ReadGuards \cup {g}
  BY <1>2, <1>3 DEF ReadGuards
<1>5. QED
  BY <1>2, <1>4, ReadGuardsFinite, FS_AddElement

LEMMA OneLessRead ==
  ASSUME TypeOK, NEW t \in Threads, reads[t] > 0,
         reads' = [reads EXCEPT ![t] = @ - 1]
  PROVE  Cardinality(ReadGuards') = Cardinality(ReadGuards) - 1
<1> USE ThreadsAssumption, DepthAssumption
<1> DEFINE g == <<t, reads[t]>>
<1>1. reads \in [Threads -> 0 .. MaxDepth]
  BY DEF TypeOK
<1>2. g \in Threads \X (1 .. MaxDepth) /\ g \in ReadGuards
  BY <1>1 DEF ReadGuards
<1>3. ASSUME NEW x \in Threads \X (1 .. MaxDepth)
      PROVE  x[2] <= reads'[x[1]] <=> x[2] <= reads[x[1]] /\ x # g
  <2>1. x[1] \in Threads /\ x[2] \in 1 .. MaxDepth /\ x = <<x[1], x[2]>>
    BY <1>3
  <2>2. CASE x[1] = t
    BY <1>1, <2>1, <2>2
  <2>3. CASE x[1] # t
    BY <1>1, <2>1, <2>3
  <2>4. QED
    BY <2>2, <2>3
<1>4. ReadGuards' = ReadGuards \ {g}
  BY <1>2, <1>3 DEF ReadGuards
<1>5. QED
  BY <1>2, <1>4, ReadGuardsFinite, FS_RemoveElement

(* No step changes the type of a variable.                                 *)
LEMMA StepTypeOK ==
  ASSUME IInv, NEW t \in Threads, Step(t)
  PROVE  TypeOK'
<1> USE ThreadsAssumption, DepthAssumption DEF TypeOK, At, Goto, PC, Crashes
<1>0. TypeOK /\ PlaceInv /\ CountInv
  BY DEF IInv
<1>1. CASE CallWriteLock(t)
  BY <1>0, <1>1 DEF CallWriteLock
<1>2. CASE WriteAgain(t)
  <2>1. writes[t] > 0 /\ writes[t] < MaxDepth /\ writeCount = writes[t]
    BY <1>0, <1>2 DEF WriteAgain, PlaceInv, CountInv
  <2>2. QED
    BY <1>0, <1>2, <2>1 DEF WriteAgain
<1>3. CASE WriteTake(t)
  <2>1. writes[t] = 0
    BY <1>0, <1>3 DEF WriteTake, PlaceInv
  <2>2. QED
    BY <1>0, <1>3, <2>1 DEF WriteTake
<1>4. CASE WriteCount(t)
  <2>1. writes[t] = 1 /\ writeCount = 0
    BY <1>0, <1>4 DEF WriteCount, PlaceInv, CountInv
  <2>2. QED
    BY <1>0, <1>4, <2>1 DEF WriteCount
<1>5. CASE CallReadLock(t)
  BY <1>0, <1>5 DEF CallReadLock
<1>6. CASE ReadAgain(t)
  <2>1. reads[t] < MaxDepth
    BY <1>0, <1>6 DEF ReadAgain, PlaceInv
  <2>2. QED
    BY <1>0, <1>6, <2>1 DEF ReadAgain, AddReader
<1>7. CASE ReadLoad(t)
  BY <1>0, <1>7 DEF ReadLoad
<1>8. CASE ReadTake(t)
  <2>1. reads[t] < MaxDepth
    BY <1>0, <1>8 DEF ReadTake, PlaceInv
  <2>2. QED
    BY <1>0, <1>8, <2>1 DEF ReadTake, AddReader
<1>9. CASE ReadRetry(t)
  BY <1>0, <1>9 DEF ReadRetry
<1>10. CASE GiveUp(t)
  BY <1>0, <1>10 DEF GiveUp
<1>11. CASE CheckWriteUnlock(t)
  BY <1>0, <1>11 DEF CheckWriteUnlock
<1>12. CASE WriteDrop(t)
  <2>1. writes[t] > 0 /\ writeCount = writes[t]
    BY <1>0, <1>12 DEF WriteDrop, PlaceInv, CountInv
  <2>2. QED
    BY <1>0, <1>12, <2>1 DEF WriteDrop
<1>13. CASE WriteStore(t)
  <2>1. writes[t] = 1
    BY <1>0, <1>13 DEF WriteStore, PlaceInv
  <2>2. QED
    BY <1>0, <1>13, <2>1 DEF WriteStore, Cleared, EMPTY_FLAG
<1>14. CASE ReadUnlock(t)
  BY <1>0, <1>14 DEF ReadUnlock
<1>15. QED
  BY <1>1, <1>2, <1>3, <1>4, <1>5, <1>6, <1>7, <1>8, <1>9, <1>10, <1>11, <1>12,
     <1>13, <1>14 DEF Step

(* Guards are taken and given up only where nobody else is in the way.     *)
LEMMA TakeFree ==
  ASSUME IInv, NEW t \in Threads, WriteTake(t)
  PROVE  \A u \in Threads : writes[u] = 0 /\ reads[u] = 0
<1> USE ThreadsAssumption
<1>1. flag.owner = NoOwner /\ Cardinality(ReadGuards) = 0
  BY DEF IInv, WriteTake, Free, EMPTY_FLAG, FlagExact
<1>2. \A u \in Threads : reads[u] = 0
  BY <1>1, ReadGuardsFinite DEF IInv
<1>3. \A u \in Threads : ~(writes[u] > 0) /\ writes[u] \in 0 .. MaxDepth
  BY <1>1 DEF IInv, FlagExact, TypeOK
<1>4. QED
  BY <1>2, <1>3, DepthAssumption

LEMMA ReadTakeFree ==
  ASSUME IInv, NEW t \in Threads, ReadTake(t)
  PROVE  \A u \in Threads : writes[u] = 0
<1>1. flag.owner = NoOwner
  BY DEF IInv, ReadTake, Unchanged
<1>2. \A u \in Threads : ~(writes[u] > 0) /\ writes[u] \in 0 .. MaxDepth
  BY <1>1, ThreadsAssumption DEF IInv, FlagExact, TypeOK
<1>3. QED
  BY <1>2, DepthAssumption

(* A writer alone stays alone.                                             *)
LEMMA StepWriterAlone ==
  ASSUME IInv, NEW t \in Threads, Step(t)
  PROVE  WriterAlone'
<1> USE DepthAssumption DEF WriterAlone
<1>0. TypeOK /\ WriterAlone /\ FlagExact /\ PlaceInv
  BY DEF IInv
<1>1. CASE WriteAgain(t)
  <2>1. writes[t] > 0
    BY <1>0, <1>1 DEF WriteAgain, At, PlaceInv
  <2>2. QED
    BY <1>0, <1>1, <2>1 DEF WriteAgain, TypeOK
<1>2. CASE WriteTake(t)
  <2>1. \A u \in Threads : writes[u] = 0 /\ reads[u] = 0
    BY <1>2, TakeFree
  <2>2. QED
    BY <1>0, <1>2, <2>1 DEF WriteTake, TypeOK
<1>3. CASE ReadAgain(t)
  <2>1. writes[t] > 0
    BY <1>0, <1>3 DEF ReadAgain, At, PlaceInv
  <2>2. \A u \in Threads : u # t => writes[u] = 0
    BY <1>0, <2>1
  <2>3. QED
    BY <1>0, <1>3, <2>2 DEF ReadAgain, AddReader, TypeOK
<1>4. CASE ReadTake(t)
  <2>1. \A u \in Threads : writes[u] = 0
    BY <1>4, ReadTakeFree
  <2>2. QED
    BY <1>4, <2>1 DEF ReadTake
<1>5. CASE WriteDrop(t) \/ WriteStore(t)
  <2>1. writes[t] > 0 /\ UNCHANGED reads
    BY <1>0, <1>5 DEF WriteDrop, WriteStore, At, PlaceInv
  <2>2. writes' = writes \/ writes' = [writes EXCEPT ![t] = @ - 1]
    BY <1>5 DEF WriteDrop, WriteStore
  <2>3. \A u \in Threads : (writes'[u] > 0 => writes[u] > 0)
                           /\ (writes[u] = 0 => writes'[u] = 0)
    BY <1>0, <2>1, <2>2 DEF TypeOK
  <2>4. QED
    BY <1>0, <2>1, <2>3
<1>6. CASE ReadUnlock(t)
  <2>1. reads[t] > 0 /\ UNCHANGED writes
    BY <1>6 DEF ReadUnlock
  <2>2. reads' = reads \/ reads' = [reads EXCEPT ![t] = @ - 1]
    BY <1>6 DEF ReadUnlock
  <2>3. \A u \in Threads : reads[u] = 0 => reads'[u] = 0
    BY <1>0, <2>1, <2>2 DEF TypeOK
  <2>4. QED
    BY <1>0, <2>1, <2>3
<1>7. CASE UNCHANGED <<writes, reads>>
  BY <1>0, <1>7
<1>8. QED
  BY <1>1, <1>2, <1>3, <1>4, <1>5, <1>6, <1>7
  DEF Step, CallWriteLock, WriteCount, CallReadLock, ReadLoad, ReadRetry, GiveUp,
      CheckWriteUnlock

(* The flag word keeps up with the guards.                                 *)
LEMMA StepFlagExact ==
  ASSUME IInv, NEW t \in Threads, Step(t)
  PROVE  FlagExact'
<1> USE ThreadsAssumption, DepthAssumption DEF FlagExact
<1>0. TypeOK /\ WriterAlone /\ FlagExact /\ PlaceInv /\ CountInv
  BY DEF IInv
<1>1. ASSUME UNCHANGED reads PROVE Cardinality(ReadGuards') = Cardinality(ReadGuards)
  BY <1>1 DEF ReadGuards
<1>2. CASE WriteAgain(t)
  <2>1. writes[t] > 0 /\ UNCHANGED <<flag, reads>>
    BY <1>0, <1>2 DEF WriteAgain, At, PlaceInv
  <2>2. \A u \in Threads : writes'[u] > 0 <=> writes[u] > 0
    BY <1>0, <1>2, <2>1 DEF WriteAgain, TypeOK
  <2>3. QED
    BY <1>0, <1>1, <2>1, <2>2
<1>3. CASE WriteTake(t)
  <2>1. \A u \in Threads : writes[u] = 0
    BY <1>3, TakeFree
  <2>2. \A u \in Threads : writes'[u] > 0 <=> u = t
    BY <1>0, <1>3, <2>1 DEF WriteTake, TypeOK
  <2>3. flag'.owner = t /\ flag'.readers = 0 /\ flag.readers = 0 /\ UNCHANGED reads
    BY <1>3 DEF WriteTake, Free, EMPTY_FLAG
  <2>4. QED
    BY <1>0, <1>1, <2>2, <2>3
<1>4. CASE ReadAgain(t) \/ ReadTake(t)
  <2>1. reads[t] < MaxDepth /\ AddReader(t) /\ UNCHANGED writes
    BY <1>0, <1>4 DEF ReadAgain, ReadTake, At, PlaceInv
  <2>2. Cardinality(ReadGuards') = Cardinality(ReadGuards) + 1
    BY <1>0, <2>1, OneMoreRead DEF AddReader
  <2>3. flag'.owner = flag.owner /\ flag'.readers = flag.readers + 1
    BY <1>0, <2>1 DEF AddReader, TypeOK
  <2>4. QED
    BY <1>0, <2>1, <2>2, <2>3
<1>5. CASE WriteDrop(t)
  <2>1. writes[t] > 0 /\ writeCount = writes[t] /\ UNCHANGED <<flag, reads>>
    BY <1>0, <1>5 DEF WriteDrop, At, PlaceInv, CountInv
  <2>2. \A u \in Threads : writes'[u] > 0 <=> writes[u] > 0
    BY <1>0, <1>5, <2>1 DEF WriteDrop, TypeOK
  <2>3. QED
    BY <1>0, <1>1, <2>1, <2>2
<1>6. CASE WriteStore(t)
  <2>1. writes[t] = 1 /\ reads[t] = 0
    BY <1>0, <1>6 DEF WriteStore, At, PlaceInv
  <2>2. \A u \in Threads : reads[u] = 0
    BY <1>0, <2>1 DEF WriterAlone
  <2>3. Cardinality(ReadGuards) = 0
    BY <1>0, <2>2, ReadGuardsFinite
  <2>4. \A u \in Threads : writes'[u] = 0
    BY <1>0, <1>6, <2>1 DEF WriteStore, WriterAlone, TypeOK
  <2>5. flag' = EMPTY_FLAG /\ UNCHANGED reads
    BY <1>6 DEF WriteStore, Cleared
  <2>6. QED
    BY <1>1, <2>3, <2>4, <2>5 DEF EMPTY_FLAG
<1>7. CASE ReadUnlock(t)
  <2>1. reads[t] > 0 /\ UNCHANGED writes
    BY <1>7 DEF ReadUnlock
  <2>2. CASE flag.readers = 0
    BY <1>0, <1>1, <1>7, <2>1, <2>2 DEF ReadUnlock
  <2>3. CASE flag.readers # 0
    <3>1. Cardinality(ReadGuards') = Cardinality(ReadGuards) - 1
      BY <1>0, <1>7, <2>1, <2>3, OneLessRead DEF ReadUnlock
    <3>2. flag'.owner = flag.owner /\ flag'.readers = flag.readers - 1
      BY <1>0, <1>7, <2>3 DEF ReadUnlock, TypeOK
    <3>3. QED
      BY <1>0, <2>1, <3>1, <3>2
  <2>4. QED
    BY <2>2, <2>3
<1>8. CASE UNCHANGED <<flag, writes, reads>>
  BY <1>0, <1>1, <1>8
<1>9. QED
  BY <1>2, <1>3, <1>4, <1>5, <1>6, <1>7, <1>8
  DEF Step, CallWriteLock, WriteCount, CallReadLock, ReadLoad, ReadRetry, GiveUp,
      CheckWriteUnlock

(* Every place keeps what it says a thread holds.                          *)
LEMMA StepPlaceInv ==
  ASSUME IInv, NEW t \in Threads, Step(t)
  PROVE  PlaceInv'
<1> USE DepthAssumption, ThreadsAssumption
<1>0. TypeOK /\ FlagExact /\ PlaceInv /\ CountInv
  BY DEF IInv
<1> DEFINE Place(u) ==
      /\ pc[u] = "writeAgain" => writes[u] > 0 /\ writes[u] < MaxDepth /\ reads[u] = 0
      /\ pc[u] = "writeSpin"  => writes[u] = 0 /\ reads[u] = 0
      /\ pc[u] = "readAgain"  => writes[u] > 0 /\ reads[u] < MaxDepth
      /\ pc[u] \in {"readLoad", "readTry"} => writes[u] = 0 /\ reads[u] < MaxDepth
      /\ pc[u] = "writeDrop"  => writes[u] > 0 /\ reads[u] = 0
      /\ pc[u] \in {"writeCount", "writeStore"} => writes[u] = 1 /\ reads[u] = 0
<1>1. ASSUME NEW u \in Threads, u # t PROVE Place(u)'
  <2>1. pc'[u] = pc[u] /\ writes'[u] = writes[u] /\ reads'[u] = reads[u]
    BY <1>0, <1>1 DEF TypeOK, Step, Goto, AddReader, CallWriteLock, WriteAgain,
       WriteTake, WriteCount, CallReadLock, ReadAgain, ReadLoad, ReadTake, ReadRetry,
       GiveUp, CheckWriteUnlock, WriteDrop, WriteStore, ReadUnlock
  <2>2. Place(u)
    BY <1>0 DEF PlaceInv
  <2>3. QED
    BY <2>1, <2>2
<1>2. Place(t)'
  <2> USE DEF TypeOK, At, Goto
  <2>0. /\ pc \in [Threads -> PC]
        /\ writes[t] \in 0 .. MaxDepth /\ reads[t] \in 0 .. MaxDepth
        /\ flag.owner = t <=> writes[t] > 0
        /\ Place(t)
    BY <1>0 DEF FlagExact, PlaceInv
  <2>1. CASE CallWriteLock(t)
    BY <2>0, <2>1 DEF CallWriteLock
  <2>2. CASE CallReadLock(t)
    BY <2>0, <2>2 DEF CallReadLock
  <2>3. CASE WriteAgain(t) \/ WriteCount(t) \/ ReadAgain(t) \/ ReadTake(t) \/ WriteStore(t)
    <3>1. pc'[t] = "run"
      BY <2>0, <2>3 DEF WriteAgain, WriteCount, ReadAgain, ReadTake, AddReader, WriteStore
    <3>2. QED
      BY <3>1
  <2>4. CASE WriteTake(t)
    BY <1>0, <2>0, <2>4 DEF WriteTake
  <2>5. CASE ReadLoad(t)
    BY <2>0, <2>5 DEF ReadLoad
  <2>6. CASE ReadRetry(t)
    BY <2>0, <2>6 DEF ReadRetry
  <2>7. CASE GiveUp(t)
    BY <2>0, <2>7 DEF GiveUp
  <2>8. CASE CheckWriteUnlock(t)
    BY <2>0, <2>8 DEF CheckWriteUnlock
  <2>9. CASE WriteDrop(t)
    <3>1. writes[t] > 0 /\ reads[t] = 0 /\ writeCount = writes[t]
      BY <1>0, <2>0, <2>9 DEF WriteDrop, CountInv
    <3>2. QED
      BY <2>0, <2>9, <3>1 DEF WriteDrop
  <2>10. CASE ReadUnlock(t)
    <3>1. pc'[t] = "run"
      BY <2>0, <2>10 DEF ReadUnlock
    <3>2. QED
      BY <3>1
  <2>11. QED
    BY <2>1, <2>2, <2>3, <2>4, <2>5, <2>6, <2>7, <2>8, <2>9, <2>10 DEF Step
<1>3. QED
  BY <1>1, <1>2 DEF PlaceInv

(* _writeCount counts the guards of the owner, and is 0 without one.       *)
LEMMA StepCountInv ==
  ASSUME IInv, NEW t \in Threads, Step(t)
  PROVE  CountInv'
<1> USE DepthAssumption, ThreadsAssumption DEF CountInv, At, Goto
<1>0. TypeOK /\ WriterAlone /\ FlagExact /\ PlaceInv /\ CountInv
  BY DEF IInv
<1> DEFINE Counted(u) == writes[u] > 0 =>
      writeCount = IF pc[u] \in {"writeCount", "writeStore"} THEN 0 ELSE writes[u]
<1>t. /\ pc \in [Threads -> PC] /\ writes \in [Threads -> 0 .. MaxDepth]
      /\ writeCount \in 0 .. MaxDepth
  BY <1>0 DEF TypeOK
<1>1. CASE WriteAgain(t)
  <2>1. writes[t] > 0 /\ writeCount = writes[t] /\ flag.owner = t
    BY <1>0, <1>1 DEF WriteAgain, PlaceInv, FlagExact
  <2>2. \A u \in Threads : u # t => writes[u] = 0
    BY <1>0, <2>1 DEF WriterAlone
  <2>3. QED
    BY <1>t, <1>1, <2>1, <2>2 DEF WriteAgain
<1>2. CASE WriteTake(t)
  <2>1. writeCount = 0 /\ \A u \in Threads : writes[u] = 0
    BY <1>0, <1>2, TakeFree DEF WriteTake, Free, EMPTY_FLAG
  <2>2. QED
    BY <1>t, <1>2, <2>1 DEF WriteTake
<1>3. CASE WriteCount(t)
  <2>1. writes[t] = 1 /\ writeCount = 0 /\ flag.owner = t
    BY <1>0, <1>3 DEF WriteCount, PlaceInv, FlagExact
  <2>2. \A u \in Threads : u # t => writes[u] = 0
    BY <1>0, <2>1 DEF WriterAlone
  <2>3. QED
    BY <1>t, <1>3, <2>1, <2>2 DEF WriteCount
<1>4. CASE ReadAgain(t) \/ ReadTake(t)
  <2>1. /\ pc[t] \in {"readAgain", "readTry"} /\ pc' = [pc EXCEPT ![t] = "run"]
        /\ UNCHANGED <<writes, writeCount>> /\ flag'.owner = flag.owner
    BY <1>0, <1>4 DEF ReadAgain, ReadTake, AddReader, TypeOK
  <2>2. ASSUME NEW u \in Threads PROVE Counted(u)'
    BY <1>0, <1>t, <2>1
  <2>3. QED
    BY <1>0, <2>1, <2>2
<1>5. CASE WriteDrop(t)
  <2>1. writes[t] > 0 /\ writeCount = writes[t] /\ flag.owner = t
    BY <1>0, <1>5 DEF WriteDrop, PlaceInv, FlagExact
  <2>2. \A u \in Threads : u # t => writes[u] = 0
    BY <1>0, <2>1 DEF WriterAlone
  <2>3. QED
    BY <1>t, <1>5, <2>1, <2>2 DEF WriteDrop
<1>6. CASE WriteStore(t)
  <2>1. writes[t] = 1 /\ writeCount = 0
    BY <1>0, <1>6 DEF WriteStore, PlaceInv
  <2>2. \A u \in Threads : u # t => writes[u] = 0
    BY <1>0, <2>1 DEF WriterAlone
  <2>3. QED
    BY <1>t, <1>6, <2>1, <2>2 DEF WriteStore
<1>7. CASE ReadUnlock(t)
  <2>1. UNCHANGED <<pc, writes, writeCount>> /\ flag'.owner = flag.owner
    BY <1>0, <1>7 DEF ReadUnlock, TypeOK
  <2>2. QED
    BY <1>0, <2>1
<1>8. CASE \/ CallWriteLock(t) \/ CallReadLock(t) \/ ReadLoad(t) \/ ReadRetry(t)
           \/ GiveUp(t) \/ CheckWriteUnlock(t)
  <2>1. /\ UNCHANGED <<flag, writes, writeCount>>
        /\ \/ UNCHANGED pc
           \/ /\ pc[t] \in {"run", "readLoad", "readTry"}
              /\ \E place \in PC \ {"writeCount", "writeStore"} :
                   pc' = [pc EXCEPT ![t] = place]
    BY <1>8 DEF PC, CallWriteLock, CallReadLock, ReadLoad, ReadRetry, GiveUp,
       CheckWriteUnlock
  <2>2. ASSUME NEW u \in Threads PROVE Counted(u)'
    BY <1>0, <1>t, <2>1
  <2>3. QED
    BY <1>0, <2>1, <2>2
<1>9. QED
  BY <1>1, <1>2, <1>3, <1>4, <1>5, <1>6, <1>7, <1>8 DEF Step

(* An unlock finds the counts it checks.                                   *)
LEMMA StepGuardsMatch ==
  ASSUME IInv, NEW t \in Threads, Step(t)
  PROVE  GuardsMatch'
<1> USE DepthAssumption, ThreadsAssumption DEF GuardsMatch
<1>0. TypeOK /\ WriterAlone /\ FlagExact /\ PlaceInv /\ CountInv /\ GuardsMatch
  BY DEF IInv
<1>1. CASE CheckWriteUnlock(t)
  <2>1. pc[t] = "run" /\ writes[t] > 0 /\ reads[t] = 0
    BY <1>1 DEF CheckWriteUnlock, At
  <2>2. writeCount = writes[t] /\ writeCount # 0
    BY <1>0, <2>1 DEF CountInv, TypeOK
  <2>3. \A u \in Threads : reads[u] = 0
    BY <1>0, <2>1 DEF WriterAlone
  <2>4. flag.readers = 0
    BY <1>0, <2>3, ReadGuardsFinite DEF FlagExact
  <2>5. QED
    BY <1>0, <1>1, <2>2, <2>4 DEF CheckWriteUnlock
<1>2. CASE ReadUnlock(t)
  <2>1. reads[t] > 0
    BY <1>2 DEF ReadUnlock
  <2>2. flag.readers # 0
    BY <1>0, <2>1, ReadGuardsFinite DEF FlagExact
  <2>3. QED
    BY <1>0, <1>2, <2>2 DEF ReadUnlock
<1>3. CASE crash' = crash \/ crash' = "LOCK_TIMEOUT"
  BY <1>0, <1>3
<1>4. QED
  BY <1>1, <1>2, <1>3
  DEF Step, CallWriteLock, WriteAgain, WriteTake, WriteCount, CallReadLock, ReadAgain,
      ReadLoad, ReadTake, ReadRetry, GiveUp, WriteDrop, WriteStore

LEMMA StutterIInv == IInv /\ UNCHANGED vars => IInv'
BY DEF IInv, TypeOK, WriterAlone, FlagExact, ReadGuards, GuardsMatch, PlaceInv,
       CountInv, vars

(* The inductive invariant holds of every behaviour of the lock.           *)
THEOREM Invariance == Spec => []IInv
<1>1. Init => IInv
  BY InitIInv
<1>2. IInv /\ [Next]_vars => IInv'
  <2>1. ASSUME IInv, NEW t \in Threads, Step(t) PROVE IInv'
    BY <2>1, StepTypeOK, StepWriterAlone, StepFlagExact, StepPlaceInv, StepCountInv,
       StepGuardsMatch DEF IInv
  <2>2. QED
    BY <2>1, StutterIInv DEF Next
<1>3. QED
  BY <1>1, <1>2, PTL DEF Spec

(* Types, for any threads and depth.                                       *)
THEOREM TypeCorrect == Spec => []TypeOK
BY Invariance, PTL DEF IInv

(* A write guard excludes every other guard (Lock.cpp:24-34, 87-92).       *)
THEOREM Exclusion == Spec => []WriterAlone
BY Invariance, PTL DEF IInv

(* The flag word counts the guards exactly (Lock.cpp:67, 79, 90, 110).     *)
THEOREM FlagWord == Spec => []FlagExact
BY Invariance, PTL DEF IInv

(* Guards never meet the crashes of an unlock (Lock.cpp:53-63, 110-114).   *)
THEOREM NoUnlockCrash == Spec => []GuardsMatch
BY Invariance, PTL DEF IInv

(* Every step is a step of the lock the guards rely on, or none.           *)
LEMMA StepRefines ==
  ASSUME IInv, NEW t \in Threads, Step(t)
  PROVE  [RW!Next]_<<writes, reads>>
<1> USE DepthAssumption, ThreadsAssumption
<1>0. TypeOK /\ WriterAlone /\ PlaceInv /\ CountInv
  BY DEF IInv
<1>1. CASE WriteAgain(t)
  <2>1. writes[t] > 0 /\ reads[t] = 0
    BY <1>0, <1>1 DEF WriteAgain, At, PlaceInv
  <2>2. RW!EnterWrite(t)
    BY <1>0, <1>1, <2>1 DEF WriteAgain, WriterAlone, RW!EnterWrite, RW!Others
  <2>3. QED
    BY <2>2 DEF RW!Next
<1>2. CASE WriteTake(t)
  <2>1. RW!EnterWrite(t)
    BY <1>2, TakeFree DEF WriteTake, RW!EnterWrite, RW!Others
  <2>2. QED
    BY <2>1 DEF RW!Next
<1>3. CASE ReadAgain(t)
  <2>1. writes[t] > 0
    BY <1>0, <1>3 DEF ReadAgain, At, PlaceInv
  <2>2. RW!EnterRead(t)
    BY <1>0, <1>3, <2>1 DEF ReadAgain, AddReader, WriterAlone, RW!EnterRead, RW!Others
  <2>3. QED
    BY <2>2 DEF RW!Next
<1>4. CASE ReadTake(t)
  <2>1. RW!EnterRead(t)
    BY <1>4, ReadTakeFree DEF ReadTake, AddReader, RW!EnterRead, RW!Others
  <2>2. QED
    BY <2>1 DEF RW!Next
<1>5. CASE WriteDrop(t) \/ WriteStore(t)
  <2>1. writes[t] > 0 /\ reads[t] = 0 /\ UNCHANGED reads
    BY <1>0, <1>5 DEF WriteDrop, WriteStore, At, PlaceInv
  <2>2. UNCHANGED writes \/ RW!LeaveWrite(t)
    BY <1>5, <2>1 DEF WriteDrop, WriteStore, RW!LeaveWrite
  <2>3. QED
    BY <2>1, <2>2 DEF RW!Next
<1>6. CASE ReadUnlock(t)
  <2>1. UNCHANGED <<writes, reads>> \/ RW!LeaveRead(t)
    BY <1>6 DEF ReadUnlock, RW!LeaveRead
  <2>2. QED
    BY <2>1 DEF RW!Next
<1>7. CASE UNCHANGED <<writes, reads>>
  BY <1>7
<1>8. QED
  BY <1>1, <1>2, <1>3, <1>4, <1>5, <1>6, <1>7
  DEF Step, CallWriteLock, WriteCount, CallReadLock, ReadLoad, ReadRetry, GiveUp,
      CheckWriteUnlock

(* The spin lock implements the reader-writer lock (Lock.cpp:6-115).       *)
THEOREM Refinement == Spec => ImplementsLock
<1>1. Init => RW!Init
  BY DEF Init, RW!Init
<1>2. IInv /\ [Next]_vars => [RW!Next]_<<writes, reads>>
  BY StepRefines DEF Next, vars
<1>3. QED
  BY <1>1, <1>2, Invariance, PTL DEF Spec, ImplementsLock, RW!Spec

-----------------------------------------------------------------------------
(* Induction over what a recursive function computes.                      *)

(* A set of naturals has a least element.                                  *)
LEMMA LeastOf ==
  ASSUME NEW S \in SUBSET Nat, S # {}
  PROVE  \E x \in S : \A y \in S : x <= y
<1> DEFINE R == OpToRel(<, Nat)
<1>1. IsWellFoundedOn(R, Nat)
  BY NatLessThanWellFounded
<1> HIDE DEF R
<1>2. PICK x \in S : \A y \in S : ~(<<y, x>> \in R)
  BY <1>1, WFMin
<1>3. \A n, m \in Nat : m < n => <<m, n>> \in R
  BY DEF R, OpToRel
<1>4. \A y \in S : x <= y
  <2> TAKE y \in S
  <2>1. ~(y < x)
    BY <1>2, <1>3
  <2> QED
    BY <2>1
<1> QED
  BY <1>4

(* What holds of 0 and of the next of each holds up to m.                  *)
LEMMA UpTo ==
  ASSUME NEW m \in Nat, NEW S, 0 \in S,
         \A n \in 0 .. m - 1 : n \in S => n + 1 \in S
  PROVE  \A n \in 0 .. m : n \in S
<1>1. SUFFICES ASSUME (0 .. m) \ S # {} PROVE FALSE
  OBVIOUS
<1> DEFINE T == (0 .. m) \ S
<1>2. PICK x \in T : \A y \in T : x <= y
  <2>1. T \in SUBSET Nat /\ T # {}
    BY <1>1
  <2> HIDE DEF T
  <2> QED
    BY <2>1, LeastOf
<1>3. x # 0 /\ x - 1 \in 0 .. m - 1
  BY <1>2
<1>4. x - 1 \in S
  BY <1>2, <1>3
<1>5. (x - 1) + 1 = x
  OBVIOUS
<1> QED
  BY <1>2, <1>3, <1>4, <1>5

(* F leads from the value before k to the one at k, and stays in X.        *)
Closed(F, X, m) == \A x \in X, k \in 1 .. m : F[<<x, k>>] \in X

Iterates(f, F, X, x0, m) ==
  /\ f \in [0 .. m -> X]
  /\ f[0] = x0
  /\ \A k \in 1 .. m : f[k] = F[<<f[k - 1], k>>]

(* Some function starts at x0 and goes on as F says.                       *)
LEMMA FcnExists ==
  ASSUME NEW X, NEW x0 \in X, NEW m \in Nat, NEW F, Closed(F, X, m)
  PROVE  \E f : Iterates(f, F, X, x0, m)
<1> USE DEF Closed, Iterates
<1> DEFINE Reaches(n) == \E f \in [0 .. n -> X] :
             f[0] = x0 /\ \A k \in 1 .. n : f[k] = F[<<f[k - 1], k>>]
           S == {n \in 0 .. m : Reaches(n)}
<1>1. Reaches(0)
  <2> DEFINE f == [k \in 0 .. 0 |-> x0]
  <2>1. f \in [0 .. 0 -> X] /\ f[0] = x0 /\ \A k \in 1 .. 0 : f[k] = F[<<f[k - 1], k>>]
    OBVIOUS
  <2> QED
    BY <2>1
<1>2. ASSUME NEW n \in 0 .. m - 1, Reaches(n)
      PROVE  Reaches(n + 1)
  <2>1. PICK f \in [0 .. n -> X] :
          f[0] = x0 /\ \A k \in 1 .. n : f[k] = F[<<f[k - 1], k>>]
    BY <1>2
  <2> DEFINE next == F[<<f[n], n + 1>>]
             g == [k \in 0 .. n + 1 |-> IF k <= n THEN f[k] ELSE next]
  <2>2. next \in X
    <3>1. f[n] \in X /\ n \in Nat /\ n + 1 \in 1 .. m
      OBVIOUS
    <3> QED
      BY <3>1
  <2>3. g \in [0 .. n + 1 -> X] /\ g[0] = f[0]
    <3> HIDE DEF next
    <3> QED
      BY <2>2
  <2>4. ASSUME NEW k \in 1 .. n + 1
        PROVE  g[k] = F[<<g[k - 1], k>>]
    <3>1. CASE k <= n
      <4>1. g[k] = f[k] /\ g[k - 1] = f[k - 1] /\ k \in 1 .. n
        BY <3>1
      <4> HIDE DEF g
      <4> QED
        BY <4>1, <2>1
    <3>2. CASE k = n + 1
      <4>1. g[k] = next /\ g[k - 1] = f[n]
        BY <3>2
      <4> HIDE DEF g
      <4> QED
        BY <4>1, <3>2
    <3> QED
      BY <3>1, <3>2
  <2> HIDE DEF g
  <2> QED
    BY <2>1, <2>3, <2>4
<1> HIDE DEF Reaches
<1>3. 0 \in S
  BY <1>1
<1>4. \A n \in 0 .. m - 1 : n \in S => n + 1 \in S
  BY <1>2
<1>5. \A n \in 0 .. m : n \in S
  <2> HIDE DEF S
  <2> QED
    BY <1>3, <1>4, UpTo
<1> QED
  BY <1>5 DEF Reaches

(* Min of a set of naturals.                                               *)
LEMMA FirstOf ==
  ASSUME NEW I \in SUBSET Nat, I # {}
  PROVE  Min(I) \in I /\ \A y \in I : Min(I) <= y
<1> DEFINE P(x) == x \in I /\ \A y \in I : x <= y
<1>1. \E x : P(x)
  BY LeastOf
<1>2. P(CHOOSE x : P(x))
  <2> HIDE DEF P
  <2> QED
    BY <1>1, Zenon
<1> QED
  BY <1>2 DEF Min

-----------------------------------------------------------------------------
(* The search.                                                             *)

(* What CheckCycle is called with: edges between different known names.    *)
Graph(edges, names) ==
  /\ names \in Seq(Names)
  /\ edges \subseteq Range(names) \X Range(names)
  /\ \A a, b \in Names : <<a, b>> \in edges => a # b

Searches ==
  [root : Nat, calls : Seq(Names), left : SUBSET (Names \X Names),
   order : [Names -> Int], count : Nat, finished : SUBSET Names,
   parent : [Names -> Names], found : Seq(Names \X Names)]

(* The calls of Dfs are a path, and were discovered in this order.         *)
Path(s, edges) ==
  /\ \A i, j \in DOMAIN s.calls : i < j => s.order[s.calls[i]] < s.order[s.calls[j]]
  /\ \A i \in DOMAIN s.calls : i > 1 =>
       s.parent[s.calls[i]] = s.calls[i - 1] /\ <<s.calls[i - 1], s.calls[i]>> \in edges

(* Who has an order has been called, and has returned or not.              *)
Orders(s) ==
  /\ \A n \in Names : s.order[n] = -1 \/ (0 <= s.order[n] /\ s.order[n] < s.count)
  /\ \A n \in Names : Discovered(s, n) <=> n \in s.finished \/ \E i \in DOMAIN s.calls : s.calls[i] = n
  /\ \A i \in DOMAIN s.calls : s.calls[i] \notin s.finished

(* An edge that was looked at leads to a call that has returned, or to the *)
(* call its own call waits for.                                            *)
Walked(s, edges) ==
  \A a, b \in Names :
    <<a, b>> \in edges \ s.left =>
      /\ Discovered(s, a)
      /\ \/ b \in s.finished
         \/ \E i \in DOMAIN s.calls :
              i + 1 \in DOMAIN s.calls /\ s.calls[i] = a /\ s.calls[i + 1] = b

(* The calls that have returned lead to no other name, and round no cycle. *)
Returned(s, edges) ==
  /\ \A a \in s.finished, b \in Names : <<a, b>> \in edges => b \in s.finished
  /\ \A S \in SUBSET s.finished : S # {} => \E a \in S : \A b \in S : <<a, b>> \notin edges

Searching(s, edges, names) ==
  /\ s \in Searches /\ s.found = <<>>
  /\ s.left \subseteq edges
  /\ s.root <= Len(names) /\ \A i \in 1 .. s.root : Discovered(s, names[i])
  /\ s.finished \subseteq Range(names)
  /\ \A i \in DOMAIN s.calls : s.calls[i] \in Range(names)
  /\ Orders(s) /\ Path(s, edges) /\ Walked(s, edges) /\ Returned(s, edges)

Chained(found, edges) ==
  /\ found \in Seq(Names \X Names) /\ found # <<>>
  /\ \A i \in DOMAIN found : found[i] \in edges
  /\ \A i \in 1 .. Len(found) - 1 : found[i][1] = found[i + 1][2]
  /\ found[Len(found)][1] = found[1][2]

Caught(s, edges) == s \in Searches /\ Chained(s.found, edges) /\ Cyclic(edges)

LEMMA GraphFacts ==
  ASSUME NEW edges, NEW names, Graph(edges, names)
  PROVE  /\ names \in Seq(Names) /\ Range(names) \subseteq Names
         /\ edges \subseteq Names \X Names
         /\ \A a, b \in Names : <<a, b>> \in edges => a \in Range(names) /\ b \in Range(names) /\ a # b
<1>1. names \in Seq(Names) /\ edges \subseteq Range(names) \X Range(names)
  BY DEF Graph
<1>2. Range(names) \subseteq Names
  BY <1>1 DEF Range
<1> QED
  BY <1>1, <1>2 DEF Graph

(* Before the first call.                                                  *)
LEMMA Begins ==
  ASSUME NEW edges, NEW names, Graph(edges, names)
  PROVE  Searching(Unvisited(edges), edges, names)
<1> DEFINE s == Unvisited(edges)
<1>1. edges \subseteq Names \X Names /\ Len(names) \in Nat
  BY GraphFacts
<1>2. /\ s.root = 0 /\ s.calls = <<>> /\ s.left = edges /\ s.count = 0 /\ s.finished = {} /\ s.found = <<>>
      /\ \A n \in Names : s.order[n] = -1
  BY DEF Unvisited
<1>3. s \in Searches
  <2>1. [n \in Names |-> -1] \in [Names -> Int] /\ [n \in Names |-> n] \in [Names -> Names]
    OBVIOUS
  <2>2. <<>> \in Seq(Names) /\ <<>> \in Seq(Names \X Names)
    OBVIOUS
  <2> QED
    BY <1>1, <2>1, <2>2 DEF Unvisited, Searches
<1> HIDE DEF s
<1>4. DOMAIN s.calls = {}
  BY <1>2
<1>5. Orders(s) /\ Path(s, edges)
  BY <1>2, <1>4 DEF Orders, Path, Discovered
<1>6. Walked(s, edges) /\ Returned(s, edges)
  BY <1>2 DEF Walked, Returned
<1> QED
  BY <1>1, <1>2, <1>3, <1>4, <1>5, <1>6 DEF Searching, s

(* A call of Dfs(n), from CheckCycle or from the call on top.              *)
Calls(s, t, n, edges) ==
  /\ t.calls = Append(s.calls, n) /\ t.order = [s.order EXCEPT ![n] = s.count]
  /\ t.count = s.count + 1 /\ t.finished = s.finished /\ t.found = <<>>
  /\ \A m \in Names : m # n => t.parent[m] = s.parent[m]
  /\ \/ s.calls = <<>> /\ t.left = s.left
     \/ /\ s.calls # <<>> /\ t.left = s.left \ {<<Last(s.calls), n>>}
        /\ t.parent[n] = Last(s.calls) /\ <<Last(s.calls), n>> \in edges

LEMMA CallMade ==
  ASSUME NEW edges, NEW names, Graph(edges, names), NEW s, Searching(s, edges, names),
         NEW t \in Searches, NEW n \in Range(names), ~Discovered(s, n), Calls(s, t, n, edges),
         t.root <= Len(names), \A i \in 1 .. t.root : Discovered(s, names[i]) \/ names[i] = n
  PROVE  Searching(t, edges, names)
<1> DEFINE c == s.calls
           d == t.calls
           k == Len(c)
<1>1. /\ s \in Searches /\ c \in Seq(Names) /\ s.count \in Nat /\ s.order \in [Names -> Int]
      /\ s.parent \in [Names -> Names] /\ k \in Nat /\ DOMAIN c = 1 .. k
      /\ s.finished \subseteq Names /\ s.left \subseteq edges
      /\ Orders(s) /\ Path(s, edges) /\ Walked(s, edges) /\ Returned(s, edges)
      /\ s.finished \subseteq Range(names) /\ \A i \in 1 .. k : c[i] \in Range(names) /\ c[i] \in Names
  BY SMTT(40) DEF Searching, Searches
<1>2. n \in Names /\ edges \subseteq Names \X Names
  BY GraphFacts
<1>3. /\ d = Append(c, n) /\ t.order = [s.order EXCEPT ![n] = s.count]
      /\ t.count = s.count + 1 /\ t.finished = s.finished /\ t.found = <<>>
      /\ \A m \in Names : m # n => t.parent[m] = s.parent[m]
  BY DEF Calls
<1>4. /\ DOMAIN d = 1 .. k + 1 /\ Len(d) = k + 1 /\ d[k + 1] = n /\ \A i \in 1 .. k : d[i] = c[i]
      /\ Last(c) = c[k] /\ (c = <<>> <=> k = 0)
  BY <1>1, <1>2, <1>3 DEF Last
<1>5. \/ k = 0 /\ t.left = s.left
      \/ k > 0 /\ t.left = s.left \ {<<c[k], n>>} /\ t.parent[n] = c[k] /\ <<c[k], n>> \in edges
  BY <1>1, <1>4 DEF Calls
<1> HIDE DEF c, d, k
<1>6. n \notin s.finished /\ (\A i \in 1 .. k : c[i] # n)
  BY <1>1, <1>2 DEF Orders, c
<1>7. \A m \in Names : t.order[m] = IF m = n THEN s.count ELSE s.order[m]
  BY <1>1, <1>2, <1>3
<1>8. \A m \in Names : Discovered(t, m) <=> Discovered(s, m) \/ m = n
  BY <1>1, <1>7 DEF Discovered
<1>9. \A i \in 1 .. k + 1 : i \in 1 .. k \/ i = k + 1
  BY <1>1
<1>10. Orders(t)
  <2>1. \A m \in Names : t.order[m] = -1 \/ (0 <= t.order[m] /\ t.order[m] < t.count)
    BY <1>1, <1>3, <1>7 DEF Orders
  <2>2. ASSUME NEW m \in Names
        PROVE  Discovered(t, m) <=> m \in t.finished \/ \E i \in DOMAIN d : d[i] = m
    <3>1. (\E i \in 1 .. k + 1 : d[i] = m) <=> (\E i \in 1 .. k : c[i] = m) \/ m = n
      BY <1>1, <1>4, <1>9
    <3> QED
      BY <1>1, <1>3, <1>4, <1>8, <3>1 DEF Orders, c
  <2>3. \A i \in DOMAIN d : d[i] \notin t.finished
    BY <1>1, <1>3, <1>4, <1>6, <1>9 DEF Orders, c
  <2> QED
    BY <2>1, <2>2, <2>3 DEF Orders, d
<1>11. Path(t, edges)
  <2>1. ASSUME NEW i \in 1 .. k + 1, NEW j \in 1 .. k + 1, i < j
        PROVE  t.order[d[i]] < t.order[d[j]]
    <3>1. i \in 1 .. k
      BY <1>1, <2>1
    <3>2. d[i] = c[i] /\ t.order[d[i]] = s.order[c[i]]
      BY <1>1, <1>4, <1>6, <1>7, <3>1
    <3>3. CASE j = k + 1
      <4>1. t.order[d[j]] = s.count
        BY <1>2, <1>4, <1>7, <3>3
      <4>2. Discovered(s, c[i])
        BY <1>1, <3>1 DEF Orders, c
      <4>3. s.order[c[i]] < s.count
        BY <1>1, <3>1, <4>2 DEF Orders, Discovered
      <4> QED
        BY <3>2, <4>1, <4>3
    <3>4. CASE j \in 1 .. k
      <4>1. d[j] = c[j] /\ t.order[d[j]] = s.order[c[j]]
        BY <1>1, <1>4, <1>6, <1>7, <3>4
      <4>2. s.order[c[i]] < s.order[c[j]]
        BY <1>1, <2>1, <3>1, <3>4 DEF Path, c
      <4> QED
        BY <3>2, <4>1, <4>2
    <3> QED
      BY <1>9, <3>3, <3>4
  <2>2. ASSUME NEW i \in 1 .. k + 1, i > 1
        PROVE  t.parent[d[i]] = d[i - 1] /\ <<d[i - 1], d[i]>> \in edges
    <3>1. CASE i = k + 1
      <4>1. k \in 1 .. k /\ i - 1 = k
        BY <1>1, <2>2, <3>1
      <4> QED
        BY <4>1, <3>1, <1>4, <1>5
    <3>2. CASE i \in 1 .. k
      <4>1. i - 1 \in 1 .. k
        BY <1>1, <2>2, <3>2
      <4>2. d[i] = c[i] /\ d[i - 1] = c[i - 1] /\ t.parent[c[i]] = s.parent[c[i]]
        BY <1>1, <1>3, <1>4, <1>6, <3>2, <4>1
      <4> QED
        BY <1>1, <2>2, <3>2, <4>2 DEF Path, c
    <3> QED
      BY <1>9, <3>1, <3>2
  <2> QED
    BY <1>4, <2>1, <2>2 DEF Path, d
<1>12. Walked(t, edges)
  <2> SUFFICES ASSUME NEW a \in Names, NEW b \in Names, <<a, b>> \in edges \ t.left
               PROVE  /\ Discovered(t, a)
                      /\ \/ b \in t.finished
                         \/ \E i \in DOMAIN d : i + 1 \in DOMAIN d /\ d[i] = a /\ d[i + 1] = b
    BY DEF Walked, d
  <2>1. CASE <<a, b>> \in edges \ s.left
    <3>1. /\ Discovered(s, a)
          /\ \/ b \in s.finished
             \/ \E i \in 1 .. k : i + 1 \in 1 .. k /\ c[i] = a /\ c[i + 1] = b
      <4>1. DOMAIN s.calls = 1 .. k /\ s.calls = c
        BY <1>1 DEF c
      <4>2. /\ Discovered(s, a)
            /\ \/ b \in s.finished
               \/ \E i \in DOMAIN s.calls :
                    i + 1 \in DOMAIN s.calls /\ s.calls[i] = a /\ s.calls[i + 1] = b
        BY <1>1, <2>1 DEF Walked
      <4> QED
        BY <4>1, <4>2
    <3>2. CASE \E i \in 1 .. k : i + 1 \in 1 .. k /\ c[i] = a /\ c[i + 1] = b
      <4>1. PICK i \in 1 .. k : i + 1 \in 1 .. k /\ c[i] = a /\ c[i + 1] = b
        BY <3>2
      <4>2. i \in 1 .. k + 1 /\ i + 1 \in 1 .. k + 1 /\ d[i] = a /\ d[i + 1] = b
        BY <1>1, <1>4, <4>1
      <4> QED
        BY <1>4, <1>8, <3>1, <4>2
    <3> QED
      BY <1>3, <1>8, <3>1, <3>2
  <2>2. CASE k > 0 /\ a = c[k] /\ b = n
    <3>1. k \in 1 .. k + 1 /\ k + 1 \in 1 .. k + 1 /\ k \in 1 .. k
      BY <1>1, <2>2
    <3>2. Discovered(s, a)
      BY <1>1, <2>2, <3>1 DEF Orders, c
    <3> QED
      BY <1>4, <1>8, <2>2, <3>1, <3>2
  <2>3. k > 0 => t.left = s.left \ {<<c[k], n>>}
    BY <1>5
  <2>4. k = 0 => t.left = s.left
    BY <1>5
  <2> QED
    BY <1>1, <2>1, <2>2, <2>3, <2>4
<1>13. Returned(t, edges)
  BY <1>1, <1>3 DEF Returned
<1>14. \A i \in 1 .. t.root : Discovered(t, names[i])
  <2>1. t.root \in Nat /\ names \in Seq(Names)
    BY GraphFacts DEF Searches
  <2>2. \A i \in 1 .. t.root : names[i] \in Names
    BY <2>1
  <2> QED
    BY <2>2, <1>8
<1>15. t.left \subseteq edges
  BY <1>1, <1>5
<1>16. t.finished \subseteq Range(names) /\ \A i \in DOMAIN d : d[i] \in Range(names)
  BY <1>1, <1>3, <1>4, <1>9
<1> QED
  BY <1>3, <1>10, <1>11, <1>12, <1>13, <1>14, <1>15, <1>16 DEF Searching, d

(* The types of a search that goes on.                                     *)
LEMMA Fields ==
  ASSUME NEW edges, NEW names, Graph(edges, names), NEW s, Searching(s, edges, names)
  PROVE  /\ s \in Searches /\ s.found = <<>> /\ s.calls \in Seq(Names)
         /\ s.root \in Nat /\ s.root <= Len(names) /\ Len(names) \in Nat
         /\ s.finished \subseteq Range(names) /\ s.left \subseteq edges /\ s.count \in Nat
         /\ s.order \in [Names -> Int] /\ s.parent \in [Names -> Names]
         /\ \A i \in DOMAIN s.calls : s.calls[i] \in Range(names)
BY GraphFacts DEF Searching, Searches

(* The next round of the loop in CheckCycle: a call of Dfs, or none for a  *)
(* name that has been discovered.                                          *)
LEMMA RootStep ==
  ASSUME NEW edges, NEW names, Graph(edges, names), NEW s, Searching(s, edges, names),
         s.calls = <<>>, s.root < Len(names)
  PROVE  LET t == NextRoot(s, names) IN
         /\ Searching(t, edges, names) /\ t.left = s.left /\ t.finished = s.finished
         /\ t.root = s.root + 1
<1> DEFINE n == names[s.root + 1]
           u == [s EXCEPT !.root = @ + 1]
           t == Call(u, n)
<1>1. /\ s \in Searches /\ s.found = <<>> /\ s.root \in Nat /\ Len(names) \in Nat
      /\ s.order \in [Names -> Int] /\ s.count \in Nat
  BY Fields
<1>2. /\ s.root + 1 \in 1 .. Len(names) /\ s.root + 1 \in DOMAIN names
      /\ \A i \in 1 .. s.root + 1 : i \in 1 .. s.root \/ i = s.root + 1
  BY <1>1, GraphFacts
<1>3. n \in Range(names) /\ n \in Names
  BY <1>2, GraphFacts DEF Range
<1> HIDE DEF n
<1>4. /\ u \in Searches /\ u.root = s.root + 1 /\ u.calls = s.calls /\ u.left = s.left
      /\ u.order = s.order /\ u.count = s.count /\ u.finished = s.finished
      /\ u.parent = s.parent /\ u.found = s.found
  <2> DEFINE m == s.root + 1
  <2>1. m \in Nat
    BY <1>1
  <2>2. u = [s EXCEPT !.root = m]
    OBVIOUS
  <2> HIDE DEF m, u
  <2>3. u \in Searches /\ u.root = m
    BY <1>1, <2>1, <2>2 DEF Searches
  <2>4. /\ u.calls = s.calls /\ u.left = s.left
        /\ u.order = s.order /\ u.count = s.count /\ u.finished = s.finished
        /\ u.parent = s.parent /\ u.found = s.found
    BY <1>1, <2>2 DEF Searches
  <2> QED
    BY <2>3, <2>4 DEF m
<1> HIDE DEF u
<1>5. CASE Discovered(s, n)
  <2>1. NextRoot(s, names) = u
    BY <1>5 DEF NextRoot, n, u
  <2>2. \A i \in 1 .. u.root : Discovered(s, names[i])
    BY <1>2, <1>4, <1>5 DEF Searching, n
  <2>3. \A m : Discovered(u, m) <=> Discovered(s, m)
    BY <1>4 DEF Discovered
  <2>4. Orders(u) /\ Path(u, edges) /\ Walked(u, edges) /\ Returned(u, edges)
    BY <1>4, <2>3 DEF Searching, Orders, Path, Walked, Returned
  <2>5. Searching(u, edges, names)
    BY <1>1, <1>2, <1>4, <2>2, <2>3, <2>4 DEF Searching
  <2> QED
    BY <1>4, <2>1, <2>5
<1>6. CASE ~Discovered(s, n)
  <2>1. NextRoot(s, names) = t
    BY <1>6 DEF NextRoot, n, u
  <2>2. /\ t.calls = Append(s.calls, n) /\ t.order = [s.order EXCEPT ![n] = s.count]
        /\ t.count = s.count + 1 /\ t.finished = s.finished /\ t.found = <<>>
        /\ t.parent = s.parent /\ t.left = s.left /\ t.root = s.root + 1 /\ t \in Searches
    <3> DEFINE calls == Append(u.calls, n)
               order == [u.order EXCEPT ![n] = u.count]
               count == u.count + 1
    <3>1. /\ calls \in Seq(Names) /\ order \in [Names -> Int] /\ count \in Nat
          /\ u \in Searches
      BY <1>1, <1>3, <1>4 DEF Searches
    <3>2. t = [u EXCEPT !.calls = calls, !.order = order, !.count = count]
      BY <1>4 DEF Call, Searches
    <3>3. calls = Append(s.calls, n) /\ order = [s.order EXCEPT ![n] = s.count] /\ count = s.count + 1
      BY <1>4
    <3> HIDE DEF calls, order, count, t
    <3>4. t \in Searches /\ t.calls = calls /\ t.order = order /\ t.count = count
      BY <3>1, <3>2 DEF Searches
    <3>5. t.finished = u.finished /\ t.found = u.found /\ t.parent = u.parent /\ t.left = u.left /\ t.root = u.root
      BY <3>1, <3>2 DEF Searches
    <3> QED
      BY <1>1, <1>4, <3>3, <3>4, <3>5
  <2> HIDE DEF t
  <2>3. Calls(s, t, n, edges)
    BY <2>2 DEF Calls
  <2>4. \A i \in 1 .. t.root : Discovered(s, names[i]) \/ names[i] = n
    BY <1>2, <2>2 DEF Searching, n
  <2>5. Searching(t, edges, names)
    BY <1>1, <1>2, <1>3, <1>6, <2>2, <2>3, <2>4, CallMade
  <2> QED
    BY <2>1, <2>2, <2>5
<1> QED
  BY <1>5, <1>6

(* All edges of the call on top have been looked at, so they lead to calls *)
(* that have returned: the call returns, and closes no cycle.              *)
LEMMA ReturnStep ==
  ASSUME NEW edges, NEW names, Graph(edges, names), NEW s, Searching(s, edges, names),
         s.calls # <<>>, ToFollow(s, names, Last(s.calls)) = {}
  PROVE  LET t == Return(s, Last(s.calls)) IN
         /\ Searching(t, edges, names) /\ t.left = s.left /\ t.root = s.root
         /\ Last(s.calls) \in Range(names) \ s.finished
         /\ t.finished = s.finished \cup {Last(s.calls)}
<1> DEFINE c == s.calls
           k == Len(c)
           here == Last(c)
           d == Front(c)
           t == Return(s, here)
<1>1. /\ s \in Searches /\ s.found = <<>> /\ c \in Seq(Names) /\ s.finished \subseteq Range(names)
      /\ s.order \in [Names -> Int] /\ s.left \subseteq edges
      /\ \A i \in DOMAIN c : c[i] \in Range(names) /\ c[i] \in Names
      /\ k \in Nat /\ k > 0 /\ DOMAIN c = 1 .. k
  BY Fields
<1>2. here = c[k] /\ k \in 1 .. k
  BY <1>1 DEF Last
<1>3. d \in Seq(Names) /\ DOMAIN d = 1 .. k - 1 /\ \A i \in 1 .. k - 1 : d[i] = c[i]
  BY <1>1 DEF Front
<1>4. /\ t.calls = d /\ t.finished = s.finished \cup {here} /\ t.left = s.left /\ t.root = s.root
      /\ t.order = s.order /\ t.count = s.count /\ t.parent = s.parent /\ t.found = s.found
      /\ t \in Searches
  <2>1. s.finished \cup {here} \subseteq Names /\ s \in Searches
    BY <1>1, <1>2, GraphFacts
  <2> HIDE DEF d, here
  <2> QED
    BY <1>3, <2>1 DEF Return, Searches, d
<1>5. /\ Orders(s) /\ Path(s, edges) /\ Walked(s, edges) /\ Returned(s, edges)
      /\ \A i \in 1 .. s.root : Discovered(s, names[i])
  BY DEF Searching
<1>6. DOMAIN s.calls = 1 .. k /\ c = s.calls
  BY <1>1
<1> HIDE DEF c, k, here, d, t
<1>7. here \in Range(names) /\ here \in Names /\ here \notin s.finished
  BY <1>1, <1>2, <1>5, <1>6 DEF Orders
<1>8. \A i, j \in 1 .. k : c[i] = c[j] => i = j
  <2> SUFFICES ASSUME NEW i \in 1 .. k, NEW j \in 1 .. k, c[i] = c[j], i < j PROVE FALSE
    BY <1>1
  <2> s.order[c[i]] < s.order[c[j]]
    BY <1>5, <1>6 DEF Path
  <2> s.order[c[i]] \in Int
    BY <1>1
  <2> QED
    OBVIOUS
<1>9. \A i \in 1 .. k : i \in 1 .. k - 1 \/ i = k
  BY <1>1
<1>10. \A i \in 1 .. k - 1 : i \in 1 .. k /\ i + 1 \in 1 .. k /\ i # k
  BY <1>1
<1>11. \A m : Discovered(t, m) <=> Discovered(s, m)
  BY <1>4 DEF Discovered
<1>12. Orders(t)
  <2>1. \A m \in Names : t.order[m] = -1 \/ (0 <= t.order[m] /\ t.order[m] < t.count)
    BY <1>4, <1>5 DEF Orders
  <2>2. ASSUME NEW m \in Names
        PROVE  Discovered(t, m) <=> m \in t.finished \/ \E i \in DOMAIN t.calls : t.calls[i] = m
    <3>1. (\E i \in 1 .. k : c[i] = m) <=> (\E i \in 1 .. k - 1 : d[i] = m) \/ m = here
      BY <1>2, <1>3, <1>9, <1>10
    <3>2. Discovered(s, m) <=> m \in s.finished \/ \E i \in 1 .. k : c[i] = m
      BY <1>5, <1>6 DEF Orders
    <3> QED
      BY <1>3, <1>4, <1>11, <3>1, <3>2
  <2>3. ASSUME NEW i \in DOMAIN t.calls PROVE t.calls[i] \notin t.finished
    <3>1. i \in 1 .. k - 1 /\ t.calls[i] = c[i]
      BY <1>3, <1>4
    <3>2. c[i] # here /\ c[i] \notin s.finished
      BY <1>2, <1>5, <1>6, <1>8, <1>10, <3>1 DEF Orders
    <3> QED
      BY <1>4, <3>1, <3>2
  <2> QED
    BY <2>1, <2>2, <2>3 DEF Orders
<1>13. Path(t, edges)
  <2>1. ASSUME NEW i \in 1 .. k - 1, NEW j \in 1 .. k - 1, i < j
        PROVE  t.order[d[i]] < t.order[d[j]]
    BY <1>3, <1>4, <1>5, <1>6, <1>10, <2>1 DEF Path
  <2>2. ASSUME NEW i \in 1 .. k - 1, i > 1
        PROVE  t.parent[d[i]] = d[i - 1] /\ <<d[i - 1], d[i]>> \in edges
    <3>1. i - 1 \in 1 .. k - 1
      BY <1>1, <2>2
    <3> QED
      BY <1>3, <1>4, <1>5, <1>6, <1>10, <2>2, <3>1, ZenonT(40) DEF Path
  <2> QED
    BY <1>3, <1>4, <2>1, <2>2 DEF Path
<1>14. ASSUME NEW b \in Names, <<here, b>> \in edges PROVE b \in s.finished
  <2>1. b \in Range(names)
    BY <1>7, <1>14, GraphFacts
  <2>2. <<here, b>> \notin s.left
    BY <2>1 DEF ToFollow, Range, here, c
  <2>3. ASSUME NEW i \in 1 .. k, i + 1 \in 1 .. k, c[i] = here PROVE FALSE
    BY <1>1, <1>2, <1>8, <2>3
  <2> QED
    BY <1>5, <1>6, <1>7, <1>14, <2>2, <2>3 DEF Walked
<1>15. Walked(t, edges)
  <2> SUFFICES ASSUME NEW a \in Names, NEW b \in Names, <<a, b>> \in edges \ t.left
               PROVE  /\ Discovered(t, a)
                      /\ \/ b \in t.finished
                         \/ \E i \in DOMAIN t.calls :
                              i + 1 \in DOMAIN t.calls /\ t.calls[i] = a /\ t.calls[i + 1] = b
    BY DEF Walked
  <2>1. /\ Discovered(s, a)
        /\ \/ b \in s.finished
           \/ \E i \in 1 .. k : i + 1 \in 1 .. k /\ c[i] = a /\ c[i + 1] = b
    BY <1>4, <1>5, <1>6 DEF Walked
  <2>2. CASE \E i \in 1 .. k : i + 1 \in 1 .. k /\ c[i] = a /\ c[i + 1] = b
    <3>1. PICK i \in 1 .. k : i + 1 \in 1 .. k /\ c[i] = a /\ c[i + 1] = b
      BY <2>2
    <3>2. CASE i + 1 = k
      BY <1>2, <1>4, <1>11, <2>1, <3>1, <3>2
    <3>3. CASE i + 1 # k
      <4>1. i \in 1 .. k - 1 /\ i + 1 \in 1 .. k - 1
        BY <1>1, <3>1, <3>3
      <4> QED
        BY <1>3, <1>4, <1>11, <2>1, <3>1, <4>1
    <3> QED
      BY <3>2, <3>3
  <2> QED
    BY <1>4, <1>11, <2>1, <2>2
<1>16. Returned(t, edges)
  <2>1. ASSUME NEW a \in t.finished, NEW b \in Names, <<a, b>> \in edges PROVE b \in t.finished
    BY <1>4, <1>5, <1>14, <2>1 DEF Returned
  <2>2. ASSUME NEW S \in SUBSET t.finished, S # {}
        PROVE  \E a \in S : \A b \in S : <<a, b>> \notin edges
    <3>1. <<here, here>> \notin edges
      BY <1>7, GraphFacts
    <3>2. CASE S \subseteq {here}
      BY <2>2, <3>1, <3>2
    <3>3. CASE ~(S \subseteq {here})
      <4> DEFINE R == S \ {here}
      <4>1. R \in SUBSET s.finished /\ R # {}
        BY <1>4, <3>3
      <4>2. PICK a \in R : \A b \in R : <<a, b>> \notin edges
        BY <1>5, <4>1 DEF Returned
      <4>3. <<a, here>> \notin edges
        BY <1>5, <1>7, <4>1 DEF Returned
      <4> QED
        BY <4>2, <4>3
    <3> QED
      BY <3>2, <3>3
  <2> QED
    BY <2>1, <2>2 DEF Returned
<1>17. \A i \in DOMAIN t.calls : t.calls[i] \in Range(names)
  BY <1>1, <1>3, <1>4, <1>10
<1>18. t.finished \subseteq Range(names)
  BY <1>1, <1>4, <1>7
<1>19. t.root <= Len(names) /\ \A i \in 1 .. t.root : Discovered(t, names[i])
  BY <1>4, <1>5, <1>11, Fields
<1>20. Searching(t, edges, names)
  BY <1>1, <1>4, <1>12, <1>13, <1>15, <1>16, <1>17, <1>18, <1>19 DEF Searching
<1> QED
  BY <1>4, <1>7, <1>20 DEF t, here, c

(* The chain that Dfs prints is the way from there to here along the calls,*)
(* closed by the edge from here to there.                                  *)
LEMMA ChainCloses ==
  ASSUME NEW edges, NEW names, Graph(edges, names), NEW s, Searching(s, edges, names),
         s.calls # <<>>, NEW there \in Names, <<Last(s.calls), there>> \in edges,
         Discovered(s, there), there \notin s.finished
  PROVE  Chained(Chain(s, Last(s.calls), there), edges) /\ Cyclic(edges)
<1> DEFINE c == s.calls
           n == Len(c)
           here == Last(c)
           P(f) == f = [k \in 0 .. n |-> IF k = 0 THEN here ELSE s.parent[f[k - 1]]]
           up == CHOOSE f : P(f)
           I == {i \in 1 .. n : up[i] = there}
           m == Min(I)
           chain == [i \in 1 .. m + 1 |-> IF i = 1 THEN <<here, there>> ELSE <<up[i - 1], up[i - 2]>>]
           F == [p \in Names \X (1 .. n) |-> s.parent[p[1]]]
<1>1. /\ s \in Searches /\ c \in Seq(Names) /\ n \in Nat /\ n > 0 /\ DOMAIN c = 1 .. n
      /\ s.parent \in [Names -> Names] /\ s.order \in [Names -> Int]
      /\ \A i \in 1 .. n : c[i] \in Names
      /\ edges \subseteq Names \X Names
  BY Fields, GraphFacts
<1>2. here = c[n] /\ n \in 1 .. n /\ here \in Names
  BY <1>1 DEF Last
<1>3. /\ \A i \in 1 .. n : i > 1 => s.parent[c[i]] = c[i - 1] /\ <<c[i - 1], c[i]>> \in edges
      /\ Discovered(s, there) <=> there \in s.finished \/ \E i \in 1 .. n : c[i] = there
  BY <1>1 DEF Searching, Path, Orders
<1>4. <<here, there>> \in edges /\ here # there
  BY <1>2, GraphFacts
<1>5. Chain(s, here, there) = chain
  BY DEF Chain
<1> HIDE DEF c, n, here
<1>6. \E f : P(f)
  <2>1. \A x \in Names, k \in 1 .. n : F[<<x, k>>] = s.parent[x]
    OBVIOUS
  <2>2. Closed(F, Names, n)
    BY <1>1, <2>1 DEF Closed
  <2> HIDE DEF F
  <2>3. PICK f : Iterates(f, F, Names, here, n)
    BY <1>1, <1>2, <2>2, FcnExists
  <2>4. ASSUME NEW k \in 0 .. n PROVE f[k] = IF k = 0 THEN here ELSE s.parent[f[k - 1]]
    <3>1. k # 0 => k \in 1 .. n /\ k - 1 \in 0 .. n
      BY <1>1
    <3> QED
      BY <2>1, <2>3, <3>1 DEF Iterates
  <2>5. f = [k \in 0 .. n |-> IF k = 0 THEN here ELSE s.parent[f[k - 1]]]
    BY <2>3, <2>4 DEF Iterates
  <2> QED
    BY <2>5
<1>7. P(up)
  <2> HIDE DEF P
  <2> QED
    BY <1>6, Zenon
<1> HIDE DEF up
<1>8. \A k \in 0 .. n - 1 : up[k] = c[n - k]
  <2> DEFINE S == {k \in 0 .. n - 1 : up[k] = c[n - k]}
  <2>1. 0 \in S
    BY <1>1, <1>2, <1>7
  <2>2. ASSUME NEW k \in 0 .. (n - 1) - 1, up[k] = c[n - k] PROVE up[k + 1] = c[n - (k + 1)]
    <3>1. /\ k + 1 \in 0 .. n /\ k + 1 # 0 /\ (k + 1) - 1 = k
          /\ n - k \in 1 .. n /\ n - k > 1 /\ n - (k + 1) = (n - k) - 1
      BY <1>1
    <3>2. up[k + 1] = s.parent[up[k]]
      BY <1>7, <3>1
    <3> QED
      BY <1>3, <2>2, <3>1, <3>2
  <2>3. \A k \in 0 .. (n - 1) - 1 : k \in S => k + 1 \in S
    BY <1>1, <2>2
  <2> HIDE DEF S
  <2>4. n - 1 \in Nat
    BY <1>1
  <2>5. \A k \in 0 .. n - 1 : k \in S
    BY <2>1, <2>3, <2>4, UpTo
  <2> QED
    BY <2>5 DEF S
<1>9. PICK j \in 1 .. n : c[j] = there /\ j < n
  <2>1. PICK j \in 1 .. n : c[j] = there
    BY <1>3
  <2> QED
    BY <1>1, <1>2, <1>4, <2>1
<1>10. m \in 1 .. n - 1 /\ up[m] = there
  <2>1. n - j \in 1 .. n /\ n - j \in 0 .. n - 1 /\ n - (n - j) = j
    BY <1>1, <1>9
  <2>2. n - j \in I
    BY <1>8, <1>9, <2>1
  <2>3. I \in SUBSET Nat /\ I # {}
    <3>1. I \subseteq 1 .. n
      OBVIOUS
    <3> HIDE DEF I
    <3>2. 1 .. n \subseteq Nat
      BY <1>1
    <3> QED
      BY <2>2, <3>1, <3>2
  <2> HIDE DEF I
  <2>4. m \in I /\ m <= n - j
    BY <2>2, <2>3, FirstOf
  <2>5. m \in 1 .. n /\ up[m] = there
    BY <2>4 DEF I
  <2> HIDE DEF m
  <2> QED
    BY <1>1, <1>9, <2>4, <2>5
<1> HIDE DEF m, I
<1>11. Chained(chain, edges)
  <2>1. ASSUME NEW i \in 1 .. m + 1, i # 1
        PROVE  /\ chain[i] = <<up[i - 1], up[i - 2]>>
               /\ chain[i] \in edges
    <3>1. /\ i - 1 \in 0 .. n - 1 /\ i - 2 \in 0 .. n - 1
          /\ n - (i - 2) \in 1 .. n /\ n - (i - 2) > 1 /\ n - (i - 1) = (n - (i - 2)) - 1
      BY <1>1, <1>10, <2>1
    <3>2. up[i - 1] = c[n - (i - 1)] /\ up[i - 2] = c[n - (i - 2)]
      BY <1>8, <3>1
    <3>3. <<c[n - (i - 1)], c[n - (i - 2)]>> \in edges
      BY <1>3, <3>1
    <3> QED
      BY <2>1, <3>2, <3>3
  <2>2. chain[1] = <<here, there>> /\ 1 \in 1 .. m + 1 /\ m + 1 \in 1 .. m + 1 /\ m + 1 # 1 /\ m + 1 \in Nat
    BY <1>1, <1>10
  <2>3. up[0] = here
    BY <1>1, <1>7
  <2> DEFINE r == chain
  <2>4. DOMAIN r = 1 .. m + 1
    OBVIOUS
  <2>5. \A i \in 1 .. m + 1 : r[i] \in edges
    BY <1>4, <2>1, <2>2
  <2>6. r \in Seq(Names \X Names) /\ Len(r) = m + 1 /\ r # <<>>
    <3>1. r = [i \in 1 .. m + 1 |-> r[i]]
      OBVIOUS
    <3>2. \A i \in 1 .. m + 1 : r[i] \in Names \X Names
      BY <1>1, <2>5
    <3> HIDE DEF r
    <3>3. r \in Seq(Names \X Names)
      BY <2>2, <3>1, <3>2, SMTT(40)
    <3> QED
      BY <2>2, <2>4, <3>3
  <2>7. \A i \in 1 .. m : r[i][1] = r[i + 1][2]
    <3> TAKE i \in 1 .. m
    <3>1. /\ i \in 1 .. m + 1 /\ i + 1 \in 1 .. m + 1 /\ i + 1 # 1
          /\ (i + 1) - 1 = i /\ (i + 1) - 2 = i - 1 /\ (i = 1 => i - 1 = 0)
      BY <1>1, <1>10
    <3>2. r[i + 1] = <<up[i], up[i - 1]>>
      BY <2>1, <3>1
    <3>3. CASE i = 1
      <4>1. r[1] = <<here, there>>
        BY <2>2
      <4>2. r[i + 1] = <<up[i], here>>
        BY <2>3, <3>1, <3>2, <3>3
      <4> HIDE DEF r
      <4> QED
        BY <3>3, <4>1, <4>2
    <3>4. CASE i # 1
      <4>1. r[i] = <<up[i - 1], up[i - 2]>>
        BY <2>1, <3>1, <3>4
      <4> HIDE DEF r
      <4> QED
        BY <3>2, <4>1
    <3> QED
      BY <3>3, <3>4
  <2>8. r[m + 1][1] = there
    <3>1. r[m + 1] = <<up[(m + 1) - 1], up[(m + 1) - 2]>> /\ (m + 1) - 1 = m
      BY <2>1, <2>2, <1>10
    <3> HIDE DEF r
    <3> QED
      BY <1>10, <3>1
  <2>9. r[1][2] = there
    BY <2>2
  <2>10. (m + 1) - 1 = m
    BY <1>10
  <2> HIDE DEF r
  <2>11. Chained(r, edges)
    BY <2>4, <2>5, <2>6, <2>7, <2>8, <2>9, <2>10 DEF Chained
  <2> QED
    BY <2>11 DEF r
<1>12. Cyclic(edges)
  <2> DEFINE S == {c[i] : i \in j .. n}
  <2>0. \A i \in j .. n : i \in 1 .. n
    BY <1>1, <1>9
  <2>1. S \subseteq Names
    BY <1>1, <2>0
  <2>2. S # {}
    <3>1. j \in j .. n
      BY <1>1, <1>9
    <3> QED
      BY <3>1
  <2>3. \A i \in j .. n : \E b \in S : <<c[i], b>> \in edges
    <3> TAKE i \in j .. n
    <3>1. CASE i = n
      <4>1. there \in S
        <5>1. j \in j .. n
          BY <1>1, <1>9
        <5> QED
          BY <5>1, <1>9
      <4> QED
        BY <1>2, <1>4, <3>1, <4>1
    <3>2. CASE i # n
      <4>1. i + 1 \in j .. n /\ i + 1 \in 1 .. n /\ i + 1 > 1 /\ (i + 1) - 1 = i
        BY <1>1, <1>9, <3>2
      <4>2. <<c[i], c[i + 1]>> \in edges
        BY <1>3, <4>1
      <4> QED
        BY <4>1, <4>2
    <3> QED
      BY <3>1, <3>2
  <2> QED
    BY <2>1, <2>2, <2>3, ZenonT(40) DEF Cyclic
<1> QED
  BY <1>5, <1>11, <1>12 DEF here, c

(* An edge leads to a name not yet discovered, to a call that has          *)
(* returned, or back to one that has not.                                  *)
LEMMA FollowStep ==
  ASSUME NEW edges, NEW names, Graph(edges, names), NEW s, Searching(s, edges, names),
         s.calls # <<>>, NEW there \in Range(names), <<Last(s.calls), there>> \in s.left
  PROVE  LET t == Follow(s, Last(s.calls), there) IN
         \/ Caught(t, edges)
         \/ /\ Searching(t, edges, names) /\ t.root = s.root /\ t.finished = s.finished
            /\ t.left = s.left \ {<<Last(s.calls), there>>}
<1> DEFINE c == s.calls
           n == Len(c)
           here == Last(c)
           less == s.left \ {<<here, there>>}
           u == [s EXCEPT !.left = less]
           t == Follow(s, here, there)
<1>1. /\ s \in Searches /\ c \in Seq(Names) /\ s.found = <<>> /\ n \in Nat /\ n > 0
      /\ DOMAIN c = 1 .. n /\ s.left \subseteq edges /\ s.left \subseteq Names \X Names
      /\ s.parent \in [Names -> Names] /\ s.order \in [Names -> Int] /\ s.count \in Nat
      /\ there \in Names /\ s.root <= Len(names) /\ s.root \in Nat
      /\ \A i \in 1 .. n : c[i] \in Names
  <2>1. /\ s \in Searches /\ c \in Seq(Names) /\ s.found = <<>> /\ n \in Nat /\ n > 0
        /\ DOMAIN c = 1 .. n /\ s.left \subseteq edges
        /\ \A i \in 1 .. n : c[i] \in Names
    BY Fields
  <2>2. /\ s.parent \in [Names -> Names] /\ s.order \in [Names -> Int] /\ s.count \in Nat
        /\ s.root <= Len(names) /\ s.root \in Nat
    BY Fields
  <2>3. there \in Names /\ edges \subseteq Names \X Names
    BY GraphFacts
  <2> QED
    BY <2>1, <2>2, <2>3
<1>2. here = c[n] /\ n \in 1 .. n /\ here \in Names /\ <<here, there>> \in edges
  BY <1>1 DEF Last
<1>3. /\ Orders(s) /\ Path(s, edges) /\ Walked(s, edges) /\ Returned(s, edges)
      /\ \A i \in 1 .. s.root : Discovered(s, names[i])
      /\ s.finished \subseteq Range(names) /\ \A i \in DOMAIN s.calls : s.calls[i] \in Range(names)
  BY DEF Searching
<1>4. /\ u \in Searches /\ u.left = less /\ u.root = s.root /\ u.calls = s.calls
      /\ u.order = s.order /\ u.count = s.count /\ u.finished = s.finished
      /\ u.parent = s.parent /\ u.found = s.found
  <2>1. less \subseteq Names \X Names
    BY <1>1
  <2> HIDE DEF less
  <2> QED
    BY <1>1, <2>1 DEF Searches
<1>5. t = IF ~Discovered(s, there) THEN Call([u EXCEPT !.parent[there] = here], there)
          ELSE IF s.order[here] < s.order[there] \/ there \in s.finished THEN u
          ELSE [u EXCEPT !.found = Chain(s, here, there)]
  BY DEF Follow
<1> HIDE DEF t, u
<1>6. CASE ~Discovered(s, there)
  <2> DEFINE parent == [s.parent EXCEPT ![there] = here]
             v == [u EXCEPT !.parent = parent]
             calls == Append(c, there)
             order == [s.order EXCEPT ![there] = s.count]
             count == s.count + 1
  <2>1. t = [v EXCEPT !.calls = calls, !.order = order, !.count = count]
    <3>1. t = Call(v, there)
      BY <1>4, <1>5, <1>6
    <3>2. v.calls = c /\ v.order = s.order /\ v.count = s.count
      BY <1>4 DEF Searches
    <3> HIDE DEF v
    <3> QED
      BY <3>1, <3>2 DEF Call
  <2>2. /\ parent \in [Names -> Names] /\ calls \in Seq(Names)
        /\ order \in [Names -> Int] /\ count \in Nat
    BY <1>1, <1>2
  <2>3. parent[there] = here /\ \A x \in Names : x # there => parent[x] = s.parent[x]
    BY <1>1
  <2> HIDE DEF parent, calls, order, count
  <2>4. /\ v \in Searches /\ v.parent = parent /\ v.left = less /\ v.root = s.root
        /\ v.finished = s.finished /\ v.found = s.found
    <3> HIDE DEF less
    <3> QED
      BY <1>4, <2>2 DEF Searches
  <2> HIDE DEF v
  <2>5. /\ t \in Searches /\ t.calls = calls /\ t.order = order /\ t.count = count
        /\ t.parent = v.parent /\ t.left = v.left /\ t.root = v.root
        /\ t.finished = v.finished /\ t.found = v.found
    BY <2>1, <2>2, <2>4 DEF Searches
  <2>6. Calls(s, t, there, edges)
    BY <1>1, <1>2, <2>3, <2>4, <2>5 DEF Calls, calls, order, count, c, here
  <2>7. Searching(t, edges, names)
    BY <1>1, <1>3, <1>6, <2>4, <2>5, <2>6, CallMade
  <2> QED
    BY <2>4, <2>5, <2>7 DEF t
<1>7. CASE Discovered(s, there) /\ (s.order[here] < s.order[there] \/ there \in s.finished)
  <2>1. t = u
    BY <1>5, <1>7
  <2>2. there \in s.finished
    <3> SUFFICES ASSUME there \notin s.finished, s.order[here] < s.order[there] PROVE FALSE
      BY <1>7
    <3>1. PICK j \in 1 .. n : c[j] = there
      BY <1>1, <1>3, <1>7 DEF Orders
    <3>2. j < n => s.order[there] < s.order[here]
      BY <1>1, <1>2, <1>3, <3>1 DEF Path
    <3>3. j = n \/ j < n
      BY <1>1
    <3>4. s.order[here] \in Int /\ s.order[there] \in Int
      BY <1>1, <1>2
    <3> QED
      BY <1>2, <3>1, <3>2, <3>3, <3>4
  <2>3. \A x : Discovered(u, x) <=> Discovered(s, x)
    BY <1>4 DEF Discovered
  <2>4. Discovered(s, here)
    BY <1>1, <1>2, <1>3 DEF Orders
  <2>5. Walked(u, edges)
    <3> SUFFICES ASSUME NEW a \in Names, NEW b \in Names, <<a, b>> \in edges \ u.left
                 PROVE  /\ Discovered(s, a)
                        /\ \/ b \in s.finished
                           \/ \E i \in DOMAIN s.calls :
                                i + 1 \in DOMAIN s.calls /\ s.calls[i] = a /\ s.calls[i + 1] = b
      BY <1>4, <2>3 DEF Walked
    <3>1. CASE <<a, b>> \in edges \ s.left
      BY <1>3, <3>1 DEF Walked
    <3>2. CASE a = here /\ b = there
      BY <2>2, <2>4, <3>2
    <3> QED
      BY <1>4, <3>1, <3>2
  <2>6. Orders(u) /\ Path(u, edges) /\ Returned(u, edges)
    BY <1>3, <1>4, <2>3 DEF Orders, Path, Returned
  <2>7. u.left \subseteq edges /\ \A i \in 1 .. u.root : Discovered(u, names[i])
    BY <1>1, <1>3, <1>4, <2>3
  <2>8. Searching(u, edges, names)
    BY <1>1, <1>3, <1>4, <2>5, <2>6, <2>7 DEF Searching
  <2> QED
    BY <1>4, <2>1, <2>8 DEF t
<1>8. CASE Discovered(s, there) /\ ~(s.order[here] < s.order[there] \/ there \in s.finished)
  <2> DEFINE chain == Chain(s, here, there)
  <2>1. t = [u EXCEPT !.found = chain]
    BY <1>5, <1>8
  <2>2. Chained(chain, edges) /\ Cyclic(edges)
    BY <1>1, <1>2, <1>8, ChainCloses DEF here, c
  <2> HIDE DEF chain
  <2>3. chain \in Seq(Names \X Names)
    BY <2>2 DEF Chained
  <2>4. t \in Searches /\ t.found = chain
    BY <1>4, <2>1, <2>3 DEF Searches
  <2> QED
    BY <2>2, <2>4 DEF Caught, t
<1> QED
  BY <1>6, <1>7, <1>8

(* What a search has still to do; at 0 it is over.                         *)
ToDo(s, names) ==
  Cardinality(s.left) + (Len(names) - s.root) + Cardinality(Range(names) \ s.finished)

Over(s, names) == s.calls = <<>> /\ s.root = Len(names)

(* The names and edges are finite, whatever Names is.                      *)
LEMMA GraphFinite ==
  ASSUME NEW edges, NEW names, Graph(edges, names)
  PROVE  /\ IsFiniteSet(Range(names)) /\ Cardinality(Range(names)) <= Len(names)
         /\ IsFiniteSet(edges)
<1>1. names \in Seq(Names) /\ edges \subseteq Range(names) \X Range(names)
  BY DEF Graph
<1> DEFINE n == Len(names)
<1>2. n \in Nat /\ DOMAIN names = 1 .. n /\ names = [i \in 1 .. n |-> names[i]]
  BY <1>1
<1> HIDE DEF n
<1>3. names \in Surjection(1 .. n, Range(names))
  BY <1>2 DEF Surjection, Range
<1>4. IsFiniteSet(1 .. n) /\ Cardinality(1 .. n) = n
  BY <1>2, FS_Interval
<1>5. IsFiniteSet(Range(names)) /\ Cardinality(Range(names)) <= n
  BY <1>3, <1>4, FS_Surjection
<1>6. IsFiniteSet(edges)
  BY <1>1, <1>5, FS_Product, FS_Subset
<1> QED
  BY <1>5, <1>6 DEF n

LEMMA ToDoFacts ==
  ASSUME NEW edges, NEW names, Graph(edges, names), NEW s, Searching(s, edges, names)
  PROVE  /\ IsFiniteSet(s.left) /\ Cardinality(s.left) \in Nat
         /\ IsFiniteSet(Range(names) \ s.finished) /\ Cardinality(Range(names) \ s.finished) \in Nat
         /\ Len(names) - s.root \in Nat
         /\ ToDo(s, names) \in Nat
<1>1. s.left \subseteq edges /\ s.root \in Nat /\ Len(names) \in Nat /\ s.root <= Len(names)
  BY Fields
<1>2. IsFiniteSet(s.left)
  BY <1>1, GraphFinite, FS_Subset
<1>3. IsFiniteSet(Range(names) \ s.finished)
  BY GraphFinite, FS_Difference
<1> QED
  <2>1. Cardinality(s.left) \in Nat /\ Cardinality(Range(names) \ s.finished) \in Nat
    BY <1>2, <1>3, FS_CardinalityType
  <2> QED
    BY <1>1, <1>2, <1>3, <2>1 DEF ToDo

(* A step keeps the search in order, and does some of what is to do, or    *)
(* finds a cycle.                                                          *)
LEMMA Stepped ==
  ASSUME NEW edges, NEW names, Graph(edges, names), NEW s, Searching(s, edges, names)
  PROVE  LET t == SearchStep(s, names) IN
         \/ Caught(t, edges)
         \/ /\ Searching(t, edges, names)
            /\ (Over(s, names) /\ t = s) \/ ToDo(t, names) + 1 = ToDo(s, names)
<1> DEFINE here == Last(s.calls)
           todo == ToFollow(s, names, here)
           t == SearchStep(s, names)
           there == names[Min(todo)]
<1>1. /\ s.found = <<>> /\ s.root \in Nat /\ Len(names) \in Nat /\ s.root <= Len(names)
      /\ s.finished \subseteq Range(names)
  BY Fields
<1>2. /\ IsFiniteSet(s.left) /\ Cardinality(s.left) \in Nat
      /\ IsFiniteSet(Range(names) \ s.finished) /\ Cardinality(Range(names) \ s.finished) \in Nat
  BY ToDoFacts
<1>3. t = IF s.calls = <<>> THEN IF s.root < Len(names) THEN NextRoot(s, names) ELSE s
          ELSE IF todo # {} THEN Follow(s, here, there)
          ELSE Return(s, here)
  BY <1>1 DEF SearchStep
<1> HIDE DEF t
<1>4. CASE s.calls = <<>> /\ s.root < Len(names)
  <2>1. Searching(t, edges, names) /\ t.left = s.left /\ t.finished = s.finished /\ t.root = s.root + 1
    BY <1>3, <1>4, RootStep
  <2>2. ToDo(t, names) + 1 = ToDo(s, names)
    BY <1>1, <1>2, <2>1 DEF ToDo
  <2> QED
    BY <2>1, <2>2 DEF t
<1>5. CASE s.calls = <<>> /\ ~(s.root < Len(names))
  <2>1. t = s /\ Over(s, names)
    BY <1>1, <1>3, <1>5 DEF Over
  <2> QED
    BY <2>1 DEF t
<1>6. CASE s.calls # <<>> /\ todo # {}
  <2>1. t = Follow(s, here, there)
    BY <1>3, <1>6
  <2>2. there \in Range(names) /\ <<here, there>> \in s.left
    <3>1. todo \subseteq DOMAIN names /\ DOMAIN names \subseteq Nat
      BY GraphFacts DEF ToFollow
    <3>2. Min(todo) \in todo
      <4> HIDE DEF todo
      <4> QED
        BY <1>6, <3>1, FirstOf
    <3> QED
      BY <3>2 DEF ToFollow, Range
  <2> HIDE DEF there, todo
  <2>3. \/ Caught(t, edges)
        \/ /\ Searching(t, edges, names) /\ t.root = s.root /\ t.finished = s.finished
           /\ t.left = s.left \ {<<here, there>>}
    BY <1>6, <2>1, <2>2, FollowStep
  <2>4. Cardinality(s.left \ {<<here, there>>}) = Cardinality(s.left) - 1
    BY <1>2, <2>2, FS_RemoveElement
  <2>5. t.root = s.root /\ t.finished = s.finished /\ t.left = s.left \ {<<here, there>>}
          => ToDo(t, names) + 1 = ToDo(s, names)
    BY <1>1, <1>2, <2>4 DEF ToDo
  <2> QED
    BY <2>3, <2>5 DEF t
<1>7. CASE s.calls # <<>> /\ todo = {}
  <2>1. t = Return(s, here)
    BY <1>3, <1>7
  <2>2. /\ Searching(t, edges, names) /\ t.left = s.left /\ t.root = s.root
        /\ here \in Range(names) \ s.finished /\ t.finished = s.finished \cup {here}
    BY <1>7, <2>1, ReturnStep
  <2>3. Range(names) \ t.finished = (Range(names) \ s.finished) \ {here}
    BY <2>2
  <2>4. Cardinality(Range(names) \ t.finished) = Cardinality(Range(names) \ s.finished) - 1
    <3> DEFINE rest == Range(names) \ s.finished
    <3>1. here \in rest /\ IsFiniteSet(rest) /\ Range(names) \ t.finished = rest \ {here}
      BY <1>2, <2>2, <2>3
    <3> HIDE DEF rest, here
    <3>2. Cardinality(rest \ {here}) = Cardinality(rest) - 1
      BY <3>1, FS_RemoveElement
    <3> QED
      BY <3>1, <3>2 DEF rest
  <2>5. ToDo(t, names) + 1 = ToDo(s, names)
    BY <1>1, <1>2, <2>2, <2>4 DEF ToDo
  <2> QED
    BY <2>2, <2>5 DEF t
<1> QED
  BY <1>4, <1>5, <1>6, <1>7

(* A search that is over has been everywhere and found no cycle.           *)
LEMMA OverAcyclic ==
  ASSUME NEW edges, NEW names, Graph(edges, names), NEW s, Searching(s, edges, names),
         Over(s, names)
  PROVE  ~Cyclic(edges)
<1>1. SUFFICES ASSUME NEW S \in SUBSET Names, S # {}, \A a \in S : \E b \in S : <<a, b>> \in edges
               PROVE  FALSE
  BY DEF Cyclic
<1>2. S \subseteq s.finished
  <2> SUFFICES ASSUME NEW a \in S PROVE a \in s.finished
    OBVIOUS
  <2>1. a \in Range(names)
    BY <1>1, GraphFacts
  <2>2. PICK i \in 1 .. Len(names) : names[i] = a
    BY <2>1, GraphFacts DEF Range
  <2>3. Discovered(s, a)
    BY <2>2 DEF Searching, Over
  <2>4. DOMAIN s.calls = {}
    BY DEF Over
  <2> QED
    BY <2>3, <2>4 DEF Searching, Orders
<1> QED
  BY <1>1, <1>2 DEF Searching, Returned

(* A search with nothing to do is over.                                    *)
LEMMA NothingToDo ==
  ASSUME NEW edges, NEW names, Graph(edges, names), NEW s, Searching(s, edges, names),
         ToDo(s, names) <= 0
  PROVE  Over(s, names)
<1>1. /\ Cardinality(Range(names) \ s.finished) = 0 /\ Len(names) - s.root = 0
      /\ s.root \in Nat /\ Len(names) \in Nat
  <2> DEFINE a == Cardinality(s.left)
             b == Len(names) - s.root
             c == Cardinality(Range(names) \ s.finished)
  <2>1. a \in Nat /\ b \in Nat /\ c \in Nat /\ a + b + c <= 0
    BY ToDoFacts DEF ToDo
  <2>2. b = 0 /\ c = 0
    <3> HIDE DEF a, b, c
    <3> QED
      BY <2>1
  <2> QED
    BY <2>2, Fields
<1>2. Range(names) \ s.finished = {}
  BY <1>1, ToDoFacts, FS_EmptySet
<1>3. s.calls = <<>>
  <2>1. SUFFICES ASSUME s.calls # <<>> PROVE FALSE
    OBVIOUS
  <2>2. s.calls \in Seq(Names) /\ 1 \in DOMAIN s.calls
    BY <2>1, Fields
  <2>3. s.calls[1] \in Range(names) /\ s.calls[1] \notin s.finished
    BY <2>2, Fields DEF Searching, Orders
  <2> QED
    BY <1>2, <2>3
<1> QED
  BY <1>1, <1>3 DEF Over

(* CheckCycle finds a cycle when the edges have one, and only then, and    *)
(* what it prints is one (DeadLockProfiler.cpp:58-129).                    *)
THEOREM SearchExact ==
  ASSUME NEW edges, NEW names, Graph(edges, names)
  PROVE  /\ CheckCycle(edges, names) # <<>> <=> Cyclic(edges)
         /\ CheckCycle(edges, names) # <<>> => Chained(CheckCycle(edges, names), edges)
         /\ CheckCycle(edges, names) \in Seq(Names \X Names)
<1> DEFINE n == Cardinality(edges) + 2 * Len(names)
           X == {s \in Searches : Searching(s, edges, names) \/ Caught(s, edges)}
           P(f) == f = [k \in 0 .. n |-> IF k = 0 THEN Unvisited(edges) ELSE SearchStep(f[k - 1], names)]
           run == CHOOSE f : P(f)
           F == [p \in X \X (1 .. n) |-> SearchStep(p[1], names)]
<1>1. Len(names) \in Nat /\ Cardinality(edges) \in Nat /\ n \in Nat
  BY GraphFacts, GraphFinite, FS_CardinalityType
<1>2. Unvisited(edges) \in X /\ Searching(Unvisited(edges), edges, names)
  BY Begins DEF Searching
<1>3. ASSUME NEW s \in X, Caught(s, edges)
      PROVE  SearchStep(s, names) = s
  BY <1>3 DEF SearchStep, Caught, Chained
<1>4. ASSUME NEW s \in X
      PROVE  SearchStep(s, names) \in X
  <2>1. CASE Caught(s, edges)
    BY <1>3, <2>1
  <2>2. CASE Searching(s, edges, names)
    <3> DEFINE t == SearchStep(s, names)
    <3>1. Caught(t, edges) \/ Searching(t, edges, names)
      BY <2>2, Stepped
    <3> HIDE DEF t
    <3>2. t \in Searches
      BY <3>1 DEF Caught, Searching
    <3>3. t \in X
      BY <3>1, <3>2
    <3> QED
      BY <3>3 DEF t
  <2> QED
    BY <2>1, <2>2
<1>5. CheckCycle(edges, names) = run[n].found
  BY DEF CheckCycle
<1>6. Cardinality(edges) + Len(names) + Cardinality(Range(names)) <= n
  BY <1>1, GraphFinite, FS_CardinalityType
<1> HIDE DEF n
<1>7. \E f : P(f)
  <2>1. \A s \in X, k \in 1 .. n : F[<<s, k>>] = SearchStep(s, names)
    OBVIOUS
  <2>2. Closed(F, X, n)
    BY <1>4, <2>1 DEF Closed
  <2> HIDE DEF X, F
  <2>3. PICK f : Iterates(f, F, X, Unvisited(edges), n)
    BY <1>1, <1>2, <2>2, FcnExists
  <2>4. ASSUME NEW k \in 0 .. n
        PROVE  f[k] = IF k = 0 THEN Unvisited(edges) ELSE SearchStep(f[k - 1], names)
    <3>1. k # 0 => k \in 1 .. n /\ k - 1 \in 0 .. n
      BY <1>1
    <3> QED
      BY <2>1, <2>3, <3>1 DEF Iterates
  <2>5. f = [k \in 0 .. n |-> IF k = 0 THEN Unvisited(edges) ELSE SearchStep(f[k - 1], names)]
    BY <2>3, <2>4 DEF Iterates
  <2> QED
    BY <2>5
<1>8. P(run)
  <2> HIDE DEF P
  <2> QED
    BY <1>7, Zenon
<1> HIDE DEF run
<1> DEFINE Q(k) == /\ run[k] \in X
                   /\ \/ Caught(run[k], edges)
                      \/ /\ Searching(run[k], edges, names)
                         /\ Over(run[k], names) \/ ToDo(run[k], names) + k <= n
           S == {k \in 0 .. n : Q(k)}
<1>9. Q(0)
  <2>1. run[0] = Unvisited(edges)
    BY <1>1, <1>8
  <2> DEFINE s == run[0]
  <2>2. s.left = edges /\ s.root = 0 /\ s.finished = {}
    BY <2>1 DEF Unvisited
  <2>3. Range(names) \ {} = Range(names)
    OBVIOUS
  <2>4. Cardinality(Range(names)) \in Nat
    BY GraphFinite, FS_CardinalityType
  <2>5. ToDo(s, names) + 0 <= n
    BY <1>1, <1>6, <2>2, <2>3, <2>4 DEF ToDo
  <2> QED
    BY <1>2, <2>1, <2>5
<1>10. ASSUME NEW k \in 0 .. n - 1, Q(k) PROVE Q(k + 1)
  <2>1. k + 1 \in 0 .. n /\ k + 1 # 0 /\ (k + 1) - 1 = k /\ k \in Nat
    BY <1>1
  <2> DEFINE s == run[k]
             t == run[k + 1]
  <2>2. t = SearchStep(s, names)
    BY <1>8, <2>1
  <2>3. s \in X /\ t \in X
    BY <1>4, <1>10, <2>2
  <2>4. CASE Caught(s, edges)
    BY <1>3, <2>2, <2>3, <2>4
  <2>5. CASE Searching(s, edges, names) /\ (Over(s, names) \/ ToDo(s, names) + k <= n)
    <3>1. \/ Caught(t, edges)
          \/ /\ Searching(t, edges, names)
             /\ (Over(s, names) /\ t = s) \/ ToDo(t, names) + 1 = ToDo(s, names)
      BY <2>2, <2>5, Stepped
    <3>2. CASE Caught(t, edges)
      BY <2>3, <3>2
    <3>3. CASE Searching(t, edges, names) /\ Over(s, names) /\ t = s
      BY <2>3, <3>3
    <3>4. CASE Searching(t, edges, names) /\ ToDo(t, names) + 1 = ToDo(s, names)
      <4>1. ToDo(t, names) \in Nat
        BY <3>4, ToDoFacts
      <4>2. CASE Over(s, names)
        <5>1. s.calls = <<>> /\ s.root = Len(names) /\ s.found = <<>>
          BY <2>5, <4>2, Fields DEF Over
        <5>2. t = s
          BY <1>1, <2>2, <5>1 DEF SearchStep
        <5> QED
          BY <2>3, <3>4, <4>2, <5>2
      <4>3. CASE ToDo(s, names) + k <= n
        <5>1. ToDo(t, names) + (k + 1) <= n
          BY <1>1, <2>1, <3>4, <4>1, <4>3
        <5> QED
          BY <2>3, <3>4, <5>1
      <4> QED
        BY <2>5, <4>2, <4>3
    <3> QED
      BY <3>1, <3>2, <3>3, <3>4
  <2> QED
    BY <1>10, <2>4, <2>5
<1>11. Q(n)
  <2>1. 0 \in S
    BY <1>1, <1>9
  <2>2. \A k \in 0 .. n - 1 : k \in S => k + 1 \in S
    BY <1>1, <1>10
  <2>3. n \in S
    <3> HIDE DEF S
    <3>1. \A k \in 0 .. n : k \in S
      BY <1>1, <2>1, <2>2, UpTo
    <3>2. n \in 0 .. n
      BY <1>1
    <3> QED
      BY <3>1, <3>2
  <2> QED
    BY <2>3
<1> DEFINE s == run[n]
<1>12. CASE Caught(s, edges)
  BY <1>5, <1>12 DEF Caught, Chained
<1>13. CASE Searching(s, edges, names) /\ (Over(s, names) \/ ToDo(s, names) + n <= n)
  <2>1. ToDo(s, names) \in Nat
    BY <1>13, ToDoFacts
  <2>2. ToDo(s, names) + n <= n => ToDo(s, names) <= 0
    BY <1>1, <2>1
  <2>3. Over(s, names)
    BY <1>13, <2>2, NothingToDo
  <2>4. ~Cyclic(edges)
    BY <1>13, <2>3, OverAcyclic
  <2>5. s.found = <<>>
    BY <1>13, Fields
  <2> QED
    BY <1>5, <2>4, <2>5
<1> QED
  BY <1>11, <1>12, <1>13

-----------------------------------------------------------------------------
(* The profiler.                                                           *)

Guards == [lock : Locks, mode : Modes, held : BOOLEAN]

NameAt(g, i) == NameOf[g[i].lock]

(* A nest of guards whose names are known, and each of whose steps from    *)
(* one name to another has been recorded.                                  *)
Recorded(g, names, edges) ==
  /\ \A i \in DOMAIN g : NameAt(g, i) \in Range(names)
  /\ \A i \in 1 .. Len(g) - 1 :
       NameAt(g, i) = NameAt(g, i + 1) \/ <<NameAt(g, i), NameAt(g, i + 1)>> \in edges

ProfilerInv ==
  /\ ProfilerTypeOK
  /\ Graph(history, ids)
  /\ \A t \in Workers : Recorded(guards[t], ids, history)
  /\ CrashExact

LEMMA RecordedMore ==
  ASSUME NEW g \in Seq(Guards), NEW names, NEW edges, NEW more, NEW bigger,
         Recorded(g, names, edges), Range(names) \subseteq Range(more), edges \subseteq bigger
  PROVE  Recorded(g, more, bigger)
BY DEF Recorded

LEMMA RecordedFront ==
  ASSUME NEW g \in Seq(Guards), NEW names, NEW edges, Recorded(g, names, edges), g # <<>>
  PROVE  Recorded(Front(g), names, edges)
<1> DEFINE f == Front(g)
           n == Len(g)
<1>1. n \in Nat /\ n > 0 /\ DOMAIN g = 1 .. n
  OBVIOUS
<1>2. f \in Seq(Guards) /\ Len(f) = n - 1 /\ DOMAIN f = 1 .. n - 1 /\ \A i \in 1 .. n - 1 : f[i] = g[i]
  BY <1>1 DEF Front
<1> HIDE DEF f, n
<1>3. \A i \in 1 .. n - 1 : i \in 1 .. n /\ NameAt(f, i) = NameAt(g, i)
  BY <1>1, <1>2 DEF NameAt
<1>4. \A i \in DOMAIN f : NameAt(f, i) \in Range(names)
  BY <1>1, <1>2, <1>3 DEF Recorded
<1>5. ASSUME NEW i \in 1 .. Len(f) - 1
      PROVE  NameAt(f, i) = NameAt(f, i + 1) \/ <<NameAt(f, i), NameAt(f, i + 1)>> \in edges
  <2>1. i \in 1 .. n - 1 /\ i + 1 \in 1 .. n - 1 /\ i \in 1 .. Len(g) - 1
    BY <1>1, <1>2 DEF n
  <2> QED
    BY <1>3, <2>1 DEF Recorded
<1> QED
  BY <1>4, <1>5 DEF Recorded, f

LEMMA RecordedHeld ==
  ASSUME NEW g \in Seq(Guards), NEW names, NEW edges, Recorded(g, names, edges), g # <<>>
  PROVE  LET h == [g EXCEPT ![Len(g)].held = TRUE] IN
         h \in Seq(Guards) /\ Recorded(h, names, edges)
<1> DEFINE n == Len(g)
           last == [g[n] EXCEPT !.held = TRUE]
           h == [g EXCEPT ![n] = last]
<1>1. n \in Nat /\ n > 0 /\ DOMAIN g = 1 .. n /\ n \in 1 .. n /\ \A i \in 1 .. n : g[i] \in Guards
  OBVIOUS
<1>2. last \in Guards /\ last.lock = g[n].lock
  BY <1>1 DEF Guards
<1> HIDE DEF last
<1>3. h \in Seq(Guards) /\ Len(h) = n /\ DOMAIN h = 1 .. n /\ \A i \in 1 .. n : h[i] = IF i = n THEN last ELSE g[i]
  BY <1>1, <1>2
<1> HIDE DEF h
<1>4. \A i \in 1 .. n : NameAt(h, i) = NameAt(g, i)
  BY <1>1, <1>2, <1>3 DEF NameAt
<1>5. \A i \in 1 .. n - 1 : i \in 1 .. n /\ i + 1 \in 1 .. n
  BY <1>1
<1> HIDE DEF n
<1>6. Recorded(h, names, edges)
  BY <1>1, <1>3, <1>4, <1>5 DEF Recorded, n
<1> QED
  BY <1>3, <1>6 DEF h, last, n

LEMMA RecordedPush ==
  ASSUME NEW g \in Seq(Guards), NEW names, NEW edges, Recorded(g, names, edges),
         NEW x \in Guards, NameOf[x.lock] \in Range(names),
         g = <<>> \/ NameAt(g, Len(g)) = NameOf[x.lock] \/ <<NameAt(g, Len(g)), NameOf[x.lock]>> \in edges
  PROVE  Recorded(Append(g, x), names, edges)
<1> DEFINE n == Len(g)
           h == Append(g, x)
<1>1. n \in Nat /\ DOMAIN g = 1 .. n /\ (g = <<>> <=> n = 0)
  OBVIOUS
<1>2. Len(h) = n + 1 /\ DOMAIN h = 1 .. n + 1 /\ h[n + 1] = x /\ \A i \in 1 .. n : h[i] = g[i]
  OBVIOUS
<1> HIDE DEF h, n
<1>3. NameAt(h, n + 1) = NameOf[x.lock] /\ \A i \in 1 .. n : NameAt(h, i) = NameAt(g, i)
  BY <1>2 DEF NameAt
<1>4. \A i \in 1 .. n + 1 : i \in 1 .. n \/ i = n + 1
  BY <1>1
<1>5. \A i \in DOMAIN h : NameAt(h, i) \in Range(names)
  BY <1>1, <1>2, <1>3, <1>4 DEF Recorded
<1>6. ASSUME NEW i \in 1 .. Len(h) - 1
      PROVE  NameAt(h, i) = NameAt(h, i + 1) \/ <<NameAt(h, i), NameAt(h, i + 1)>> \in edges
  <2>1. i \in 1 .. n
    BY <1>1, <1>2
  <2>2. CASE i = n
    BY <1>1, <1>3, <2>1, <2>2 DEF n
  <2>3. CASE i # n
    <3>1. i + 1 \in 1 .. n /\ i \in 1 .. n - 1
      BY <1>1, <2>1, <2>3
    <3> QED
      BY <1>3, <2>1, <3>1 DEF Recorded, n
  <2> QED
    BY <2>2, <2>3
<1> QED
  BY <1>5, <1>6 DEF Recorded, h

(* What the ids name after a name has been looked up.                      *)
LEMMA Registered ==
  ASSUME ids \in Seq(Names), NEW n \in Names
  PROVE  Register(n) \in Seq(Names) /\ Range(Register(n)) = Range(ids) \cup {n}
<1>1. Range(ids) = Range(ids)
  BY DEF Range
<1>2. CASE n \in Range(ids)
  BY <1>1, <1>2 DEF Register
<1>3. CASE n \notin Range(ids)
  <2> DEFINE m == Len(ids)
             more == Append(ids, n)
  <2>1. m \in Nat /\ DOMAIN ids = 1 .. m
    OBVIOUS
  <2>2. more \in Seq(Names) /\ DOMAIN more = 1 .. m + 1 /\ more[m + 1] = n /\ \A i \in 1 .. m : more[i] = ids[i]
    OBVIOUS
  <2>3. Register(n) = more
    BY <1>3 DEF Register
  <2> HIDE DEF m, more
  <2>4. \A i \in 1 .. m + 1 : i \in 1 .. m \/ i = m + 1
    BY <2>1
  <2>5. \A i \in 1 .. m : i \in 1 .. m + 1
    BY <2>1
  <2>6. m + 1 \in 1 .. m + 1
    BY <2>1
  <2>7. Range(more) \subseteq Range(ids) \cup {n}
    BY <2>1, <2>2, <2>4 DEF Range
  <2>8. Range(ids) \cup {n} \subseteq Range(more)
    BY <2>1, <2>2, <2>5, <2>6 DEF Range
  <2> QED
    BY <2>2, <2>3, <2>7, <2>8
<1> QED
  BY <1>2, <1>3

LEMMA ProfilerStarts ==
  ASSUME ProfilerInit
  PROVE  ProfilerInv
<1>1. ids = <<>> /\ history = {} /\ report = <<>> /\ detected = FALSE
      /\ guards = [t \in Workers |-> <<>>]
  BY DEF ProfilerInit
<1>2. ProfilerTypeOK
  <2>1. <<>> \in Seq(Names) /\ <<>> \in Seq(Names \X Names) /\ <<>> \in Seq(Guards)
    OBVIOUS
  <2>2. guards \in [Workers -> Seq(Guards)]
    BY <1>1, <2>1
  <2> QED
    BY <1>1, <2>1, <2>2 DEF ProfilerTypeOK, Guards
<1>3. Graph(history, ids)
  BY <1>1 DEF Graph
<1>4. ASSUME NEW t \in Workers PROVE Recorded(guards[t], ids, history)
  <2>1. guards[t] = <<>> /\ DOMAIN <<>> = {} /\ Len(<<>>) = 0
    BY <1>1
  <2> QED
    BY <2>1 DEF Recorded
<1>5. ~Cyclic(history)
  BY <1>1 DEF Cyclic
<1>6. ReportIsCycle
  BY <1>1 DEF ReportIsCycle, Range
<1> QED
  BY <1>1, <1>2, <1>3, <1>4, <1>5, <1>6 DEF ProfilerInv, CrashExact

(* Another push: the nest it adds to has been recorded, and the search has *)
(* seen all edges.                                                         *)
LEMMA Pushed ==
  ASSUME ProfilerInv, NEW t \in Workers, NEW l \in Locks, NEW m \in Modes, PushLock(t, l, m)
  PROVE  ProfilerInv'
<1> DEFINE n     == NameOf[l]
           edges == history \cup NewEdge(t, n)
           names == Register(n)
           found == IF edges = history THEN <<>> ELSE CheckCycle(edges, names)
           x     == [lock |-> l, mode |-> m, held |-> FALSE]
           g     == guards[t]
<1>1. /\ ids \in Seq(Names) /\ history \in SUBSET (Names \X Names)
      /\ guards \in [Workers -> Seq(Guards)] /\ report \in Seq(Names \X Names)
      /\ Graph(history, ids) /\ CrashExact
      /\ \A u \in Workers : Recorded(guards[u], ids, history)
  BY DEF ProfilerInv, ProfilerTypeOK, Guards
<1>2. n \in Names /\ x \in Guards /\ g \in Seq(Guards)
  BY <1>1, NameAssumption DEF Guards
<1>3. names \in Seq(Names) /\ Range(names) = Range(ids) \cup {n}
  BY <1>1, <1>2, Registered
<1>4. /\ ~detected
      /\ ids' = names /\ history' = edges /\ report' = found /\ detected' = (found # <<>>)
      /\ guards' = IF found # <<>> THEN guards ELSE [guards EXCEPT ![t] = Append(@, x)]
  BY DEF PushLock
<1>5. Below(t) = NameAt(g, Len(g))
  BY <1>1 DEF Below, NameAt, Last
<1>6. g # <<>> => NameAt(g, Len(g)) \in Range(ids)
  BY <1>1, <1>2 DEF Recorded
<1>7. edges = history \cup (IF g = <<>> \/ Below(t) = n THEN {} ELSE {<<Below(t), n>>})
  BY DEF NewEdge
<1> HIDE DEF n, edges, names, found, x, g
<1>8. Range(ids) \subseteq Names
  BY <1>1, GraphFacts
<1>9. Graph(edges, names)
  <2>1. edges \subseteq Range(names) \X Range(names)
    BY <1>1, <1>3, <1>5, <1>6, <1>7 DEF Graph
  <2>2. \A a, b \in Names : <<a, b>> \in edges => a # b
    BY <1>1, <1>7 DEF Graph
  <2> QED
    BY <1>3, <2>1, <2>2 DEF Graph
<1>10. edges \subseteq Names \X Names /\ history \subseteq edges
  BY <1>7, <1>9, GraphFacts
<1>11. /\ found # <<>> <=> Cyclic(edges)
       /\ found # <<>> => Chained(found, edges)
       /\ found \in Seq(Names \X Names)
  <2>1. CASE edges = history
    BY <1>1, <1>4, <2>1 DEF CrashExact, found
  <2>2. CASE edges # history
    BY <1>9, <2>2, SearchExact DEF found
  <2> QED
    BY <2>1, <2>2
<1>12. CrashExact'
  <2>2. CASE found # <<>>
    <3>1. ReportIsCycle'
      <4>1. /\ report' \in Seq(Names \X Names) /\ report' # <<>>
            /\ \A i \in DOMAIN report' : report'[i] \in history'
            /\ \A i \in 1 .. Len(report') - 1 : report'[i][1] = report'[i + 1][2]
            /\ report'[Len(report')][1] = report'[1][2]
        BY <1>4, <1>11, <2>2 DEF Chained
      <4>2. Last(report') = report'[Len(report')]
        BY <4>1 DEF Last
      <4> QED
        BY <4>1, <4>2 DEF ReportIsCycle, Range
    <3> QED
      BY <1>4, <1>11, <2>2, <3>1 DEF CrashExact
  <2>3. CASE found = <<>>
    <3>1. ReportIsCycle'
      BY <1>4, <2>3 DEF ReportIsCycle, Range
    <3> QED
      BY <1>4, <1>11, <2>3, <3>1 DEF CrashExact
  <2> QED
    BY <2>2, <2>3
<1>13. guards' \in [Workers -> Seq(Guards)]
  BY <1>1, <1>2, <1>4
<1>14. ASSUME NEW u \in Workers PROVE Recorded(guards[u], ids, history)'
  <2>1. Recorded(guards[u], names, edges)
    BY <1>1, <1>3, <1>10, RecordedMore
  <2>2. CASE guards'[u] = guards[u]
    BY <1>4, <2>1, <2>2
  <2>3. CASE guards'[u] # guards[u]
    <3>1. u = t /\ guards'[u] = Append(g, x)
      BY <1>1, <1>4, <2>3 DEF g
    <3>2. NameOf[x.lock] = n
      BY DEF x, n
    <3>3. g = <<>> \/ NameAt(g, Len(g)) = n \/ <<NameAt(g, Len(g)), n>> \in edges
      BY <1>5, <1>7
    <3>4. Recorded(g, names, edges) /\ n \in Range(names)
      BY <1>3, <2>1, <3>1 DEF g
    <3>5. Recorded(Append(g, x), names, edges)
      BY <1>2, <3>2, <3>3, <3>4, RecordedPush
    <3> QED
      BY <1>4, <3>1, <3>5
  <2> QED
    BY <2>2, <2>3
<1>15. ProfilerTypeOK'
  BY <1>3, <1>4, <1>10, <1>11, <1>13 DEF ProfilerTypeOK, Guards
<1> QED
  BY <1>4, <1>9, <1>12, <1>14, <1>15 DEF ProfilerInv

LEMMA ProfilerKept ==
  ASSUME ProfilerInv, [ProfilerNext]_profilerVars
  PROVE  ProfilerInv'
<1>1. /\ ids \in Seq(Names) /\ history \in SUBSET (Names \X Names)
      /\ guards \in [Workers -> Seq(Guards)] /\ report \in Seq(Names \X Names)
      /\ detected \in BOOLEAN /\ Graph(history, ids) /\ CrashExact
      /\ \A u \in Workers : Recorded(guards[u], ids, history)
  BY DEF ProfilerInv, ProfilerTypeOK, Guards
<1>2. ASSUME NEW t \in Workers, NEW g \in Seq(Guards), guards' = [guards EXCEPT ![t] = g],
             Recorded(g, ids, history), UNCHANGED <<ids, history, detected, report>>
      PROVE  ProfilerInv'
  <2>1. guards' \in [Workers -> Seq(Guards)] /\ \A u \in Workers : Recorded(guards'[u], ids, history)
    BY <1>1, <1>2
  <2>2. CrashExact'
    BY <1>1, <1>2 DEF CrashExact, Cyclic, ReportIsCycle
  <2>3. ProfilerTypeOK'
    BY <1>1, <1>2, <2>1 DEF ProfilerTypeOK, Guards
  <2> QED
    BY <1>1, <1>2, <2>1, <2>2, <2>3 DEF ProfilerInv
<1>3. CASE UNCHANGED profilerVars
  BY <1>1, <1>3 DEF profilerVars, ProfilerInv, ProfilerTypeOK, CrashExact, Cyclic, ReportIsCycle, Guards
<1>4. ASSUME NEW t \in Workers, Acquire(t) PROVE ProfilerInv'
  <2> DEFINE g == guards[t]
             h == [g EXCEPT ![Len(g)].held = TRUE]
  <2>1. g \in Seq(Guards) /\ g # <<>> /\ Recorded(g, ids, history)
    BY <1>1, <1>4 DEF Acquire, Waits
  <2>2. h \in Seq(Guards) /\ Recorded(h, ids, history)
    BY <2>1, RecordedHeld
  <2>3. guards' = [guards EXCEPT ![t] = h] /\ UNCHANGED <<ids, history, detected, report>>
    BY <1>4 DEF Acquire
  <2> HIDE DEF h
  <2> QED
    BY <1>2, <2>2, <2>3
<1>5. ASSUME NEW t \in Workers, Unlock(t) PROVE ProfilerInv'
  <2> DEFINE g == guards[t]
             h == Front(g)
  <2>1. g \in Seq(Guards) /\ g # <<>> /\ Recorded(g, ids, history)
    BY <1>1, <1>5 DEF Unlock
  <2>2. h \in Seq(Guards) /\ Recorded(h, ids, history)
    BY <2>1, RecordedFront DEF Front
  <2>3. guards' = [guards EXCEPT ![t] = h] /\ UNCHANGED <<ids, history, detected, report>>
    BY <1>5 DEF Unlock
  <2> HIDE DEF h
  <2> QED
    BY <1>2, <2>2, <2>3
<1> QED
  BY <1>3, <1>4, <1>5, Pushed DEF ProfilerNext

(* Threads that wait for each other over locks of different names leave    *)
(* names that lead from one to another and on, for ever.  A name that leads*)
(* nowhere is wanted by threads that only wait for threads that want it.   *)
LEMMA NotSilent ==
  ASSUME ProfilerInv
  PROVE  NoSilentDeadlock
<1>1. SUFFICES ASSUME ~detected, NEW S \in SUBSET Workers, Deadlock(S),
                      NEW p \in S, NEW q \in S,
                      NameOf[Last(guards[p]).lock] # NameOf[Last(guards[q]).lock]
               PROVE  FALSE
  BY DEF NoSilentDeadlock
<1> DEFINE Wanted(t) == NameAt(guards[t], Len(guards[t]))
           Above(u, i) == {NameAt(guards[u], j) : j \in i .. Len(guards[u])}
           Holds(u, i) == \E t \in S : i \in 1 .. Len(guards[u]) - 1 /\ NameAt(guards[u], i) = Wanted(t)
           N == {a \in Names : \E u \in S : \E i \in 1 .. Len(guards[u]) :
                   Holds(u, i) /\ a \in Above(u, i)}
<1>2. /\ guards \in [Workers -> Seq(Guards)] /\ Graph(history, ids)
      /\ \A u \in Workers : Recorded(guards[u], ids, history)
      /\ ~Cyclic(history)
  BY <1>1 DEF ProfilerInv, ProfilerTypeOK, Guards, CrashExact
<1>3. \A u \in Workers : /\ guards[u] \in Seq(Guards) /\ Len(guards[u]) \in Nat
                         /\ DOMAIN guards[u] = 1 .. Len(guards[u])
  BY <1>2
<1>4. \A u \in Workers : \A i \in 1 .. Len(guards[u]) : NameAt(guards[u], i) \in Names
  BY <1>2, <1>3, GraphFacts DEF Recorded
<1>5. \A t \in S : Waits(t) /\ \E u \in S : Blocks(u, t)
  BY <1>1 DEF Deadlock, Entangled, Blocks
<1>6. \A t \in S : /\ Len(guards[t]) \in 1 .. Len(guards[t])
                   /\ Wanted(t) = NameOf[Last(guards[t]).lock]
                   /\ ~guards[t][Len(guards[t])].held
  <2> TAKE t \in S
  <2>1. guards[t] # <<>> /\ guards[t] \in Seq(Guards) /\ ~Last(guards[t]).held
    BY <1>3, <1>5 DEF Waits
  <2> QED
    BY <2>1 DEF Last, NameAt
<1>7. ASSUME NEW t \in S, NEW u \in S, Blocks(u, t)
      PROVE  \E i \in 1 .. Len(guards[u]) - 1 : NameAt(guards[u], i) = Wanted(t)
  <2>1. PICK i \in DOMAIN guards[u] : guards[u][i].held /\ guards[u][i].lock = Last(guards[t]).lock
    BY <1>7 DEF Blocks, Has
  <2>2. i # Len(guards[u])
    BY <1>6, <2>1
  <2>3. i \in 1 .. Len(guards[u]) - 1
    BY <1>3, <2>1, <2>2
  <2> QED
    BY <1>6, <2>1, <2>3 DEF NameAt
(* From a name in a nest there is an edge to a name above it, or all       *)
(* names above it are the same.                                            *)
<1>8. ASSUME NEW u \in S, NEW i \in 1 .. Len(guards[u])
      PROVE  \/ \A j \in i .. Len(guards[u]) : NameAt(guards[u], j) = NameAt(guards[u], i)
             \/ \E j \in i .. Len(guards[u]) : <<NameAt(guards[u], i), NameAt(guards[u], j)>> \in history
  <2> DEFINE g == guards[u]
             n == Len(g)
             J == {j \in i .. n : NameAt(g, j) # NameAt(g, i)}
  <2>0. n \in Nat /\ DOMAIN g = 1 .. n /\ Recorded(g, ids, history)
    BY <1>2, <1>3
  <2> HIDE DEF g, n
  <2>1. SUFFICES ASSUME J # {}
                 PROVE  \E j \in i .. n : <<NameAt(g, i), NameAt(g, j)>> \in history
    BY DEF g, n
  <2>2. J \in SUBSET Nat
    BY <2>0 DEF g, n
  <2>3. PICK j \in J : \A k \in J : j <= k
    <3> HIDE DEF J
    <3> QED
      BY <2>1, <2>2, LeastOf
  <2>4. i \in 1 .. n
    BY DEF g, n
  <2>5. j # i /\ j \in i .. n /\ NameAt(g, j) # NameAt(g, i)
    BY <2>3
  <2>6. j - 1 \in i .. n /\ j - 1 \in 1 .. n - 1 /\ ~(j <= j - 1) /\ (j - 1) + 1 = j
    BY <2>0, <2>4, <2>5
  <2>7. j - 1 \notin J
    BY <2>3, <2>6
  <2>8. NameAt(g, j - 1) = NameAt(g, i)
    BY <2>6, <2>7
  <2>9. <<NameAt(g, j - 1), NameAt(g, j)>> \in history
    BY <2>0, <2>5, <2>6, <2>8 DEF Recorded, n
  <2> QED
    BY <2>5, <2>8, <2>9
<1>9. N # {}
  <2>1. PICK u \in S : Blocks(u, p)
    BY <1>5
  <2>2. PICK i \in 1 .. Len(guards[u]) - 1 : NameAt(guards[u], i) = Wanted(p)
    BY <1>7, <2>1
  <2>3. i \in 1 .. Len(guards[u]) /\ i \in i .. Len(guards[u])
    BY <1>3, <2>2
  <2>4. NameAt(guards[u], i) \in N
    BY <1>4, <2>2, <2>3
  <2> QED
    BY <2>4
<1> DEFINE Leads(a) == \E b \in N : <<a, b>> \in history
(* What a name of a nest leads to is a name of a nest.                     *)
<1>10. ASSUME NEW u \in S, NEW i \in 1 .. Len(guards[u]), Holds(u, i), NEW j \in i .. Len(guards[u]),
              ~Leads(NameAt(guards[u], j))
       PROVE  Wanted(u) = NameAt(guards[u], j)
  <2>1. j \in 1 .. Len(guards[u]) /\ \A k \in j .. Len(guards[u]) : k \in i .. Len(guards[u]) /\ k \in 1 .. Len(guards[u])
    BY <1>3
  <2>2. \A k \in j .. Len(guards[u]) : NameAt(guards[u], k) \in N
    BY <1>4, <1>10, <2>1
  <2>3. ~ \E k \in j .. Len(guards[u]) : <<NameAt(guards[u], j), NameAt(guards[u], k)>> \in history
    BY <1>10, <2>2
  <2>4. \A k \in j .. Len(guards[u]) : NameAt(guards[u], k) = NameAt(guards[u], j)
    BY <1>8, <2>1, <2>3
  <2>5. Len(guards[u]) \in j .. Len(guards[u])
    BY <1>3, <2>1
  <2> QED
    BY <2>4, <2>5
<1>11. ASSUME NEW a \in N, ~Leads(a) PROVE FALSE
  <2> DEFINE T == {t \in S : Wanted(t) = a}
  <2>1. PICK u \in S : \E i \in 1 .. Len(guards[u]) : Holds(u, i) /\ a \in Above(u, i)
    BY <1>11
  <2>2. PICK i \in 1 .. Len(guards[u]) : Holds(u, i) /\ a \in Above(u, i)
    BY <2>1
  <2>3. PICK j \in i .. Len(guards[u]) : a = NameAt(guards[u], j)
    BY <2>2
  <2>4. u \in T
    BY <1>10, <1>11, <2>2, <2>3
  <2>5. ASSUME NEW t \in T PROVE \E v \in T : Blocks(v, t)
    <3>1. PICK v \in S : Blocks(v, t)
      BY <1>5
    <3>2. PICK k \in 1 .. Len(guards[v]) - 1 : NameAt(guards[v], k) = Wanted(t)
      BY <1>7, <3>1
    <3>3. k \in 1 .. Len(guards[v]) /\ k \in k .. Len(guards[v])
      BY <1>3, <3>2
    <3>4. Holds(v, k)
      BY <3>2
    <3>5. NameAt(guards[v], k) = a
      BY <3>2
    <3>6. Wanted(v) = a
      BY <1>10, <1>11, <3>3, <3>4, <3>5
    <3> QED
      BY <3>1, <3>6
  <2>6. T \in SUBSET S /\ Entangled(T)
    BY <2>4, <2>5 DEF Entangled
  <2>7. T = S
    BY <1>1, <2>6 DEF Deadlock
  <2>8. Wanted(p) = a /\ Wanted(q) = a
    BY <2>7
  <2> QED
    BY <1>1, <1>6, <2>8
<1>12. Cyclic(history)
  BY <1>9, <1>11 DEF Cyclic
<1> QED
  BY <1>2, <1>12

LEMMA ProfilerInvariant == ProfilerSpec => []ProfilerInv
<1>1. ProfilerInit => ProfilerInv
  BY ProfilerStarts
<1>2. ProfilerInv /\ [ProfilerNext]_profilerVars => ProfilerInv'
  BY ProfilerKept
<1> QED
  BY <1>1, <1>2, PTL DEF ProfilerSpec

(* What the profiler keeps has its type (DeadLockProfiler.cpp:8-42).       *)
THEOREM ProfilerTyped == ProfilerSpec => []ProfilerTypeOK
<1>1. ProfilerInv => ProfilerTypeOK
  BY DEF ProfilerInv
<1> QED
  BY <1>1, ProfilerInvariant, PTL

(* With any threads, classes and nests, the depth-first search ends the    *)
(* program exactly when the recorded order has a cycle, and prints one     *)
(* (DeadLockProfiler.cpp:58-129).                                          *)
THEOREM CyclesCaught == ProfilerSpec => []CrashExact
<1>1. ProfilerInv => CrashExact
  BY DEF ProfilerInv
<1> QED
  BY <1>1, ProfilerInvariant, PTL

(* Any number of threads that deadlock over locks of different classes     *)
(* have been stopped before (DeadLockProfiler.cpp:26-38).                  *)
THEOREM DeadlocksCaught == ProfilerSpec => []NoSilentDeadlock
<1>1. ProfilerInv => NoSilentDeadlock
  BY NotSilent
<1> QED
  BY <1>1, ProfilerInvariant, PTL
=============================================================================
