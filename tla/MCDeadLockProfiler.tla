------------------------- MODULE MCDeadLockProfiler -------------------------
(* Instances of DeadLockProfiler for TLC. *)
EXTENDS DeadLockProfiler, TLC

CONSTANTS X, Y, Y2, Z

(* A class and its lock share a value; Y2 is a second lock of class Y. *)
ClassOf == [l \in Locks |-> IF l = Y2 THEN Y ELSE l]

Symmetry ==
  {p @@ q : p \in Permutations(Workers), q \in Permutations({X, Z})}
=============================================================================
