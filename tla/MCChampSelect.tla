--------------------------- MODULE MCChampSelect ---------------------------
(* Instances of ChampSelect for TLC. *)
EXTENDS ChampSelect
=============================================================================
