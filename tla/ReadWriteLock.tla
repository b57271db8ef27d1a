--------------------------- MODULE ReadWriteLock ---------------------------
(***************************************************************************)
(* What Lock promises to the guards WriteLockGuard and ReadLockGuard: a    *)
(* writer is alone, readers share, and the writer may nest further write   *)
(* and then read guards.                                                   *)
(***************************************************************************)
EXTENDS Naturals

CONSTANT Threads

VARIABLES
  writes,  \* write guards a thread holds, nested
  reads    \* read guards a thread holds, nested

Init == writes = [t \in Threads |-> 0] /\ reads = [t \in Threads |-> 0]

Others(t) == Threads \ {t}

EnterWrite(t) ==
  /\ reads[t] = 0
  /\ \A u \in Others(t) : writes[u] = 0 /\ reads[u] = 0
  /\ writes' = [writes EXCEPT ![t] = @ + 1]
  /\ UNCHANGED reads

EnterRead(t) ==
  /\ \A u \in Others(t) : writes[u] = 0
  /\ reads' = [reads EXCEPT ![t] = @ + 1]
  /\ UNCHANGED writes

LeaveWrite(t) ==
  /\ writes[t] > 0
  /\ reads[t] = 0
  /\ writes' = [writes EXCEPT ![t] = @ - 1]
  /\ UNCHANGED reads

LeaveRead(t) ==
  /\ reads[t] > 0
  /\ reads' = [reads EXCEPT ![t] = @ - 1]
  /\ UNCHANGED writes

Next == \E t \in Threads :
  EnterWrite(t) \/ EnterRead(t) \/ LeaveWrite(t) \/ LeaveRead(t)

Spec == Init /\ [][Next]_<<writes, reads>>
=============================================================================
