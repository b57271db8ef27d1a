----------------------------- MODULE MCJobQueue -----------------------------
(* Instances of JobQueue for TLC. *)
EXTENDS JobQueue, TLC

Symmetry == Permutations(Threads) \cup Permutations(Queues)
=============================================================================
