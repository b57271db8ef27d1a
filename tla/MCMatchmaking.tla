--------------------------- MODULE MCMatchmaking ---------------------------
(* Instances of Matchmaking for TLC: six players, two positions.           *)
EXTENDS Matchmaking

Top == "top"
Jug == "jug"
TwoPositions == <<Top, Jug>>

Filed(p, mmr, prefs, queuedAt, ids) ==
  {[player |-> p, mmr |-> mmr, primary |-> x[1], secondary |-> x[2],
    queuedAt |-> queuedAt, id |-> n] : x \in prefs, n \in ids}

(* Buckets of 2, range 3, three buckets: 0-1, 2-3 and 4 upwards.  MMR 8 is *)
(* out of range of 4 but in the bucket of 4; 0 is not in range of 4.       *)
(* "c" may have two tickets that do not differ, "e" two for different      *)
(* positions, which can both be seated in one match.                       *)
SpreadTickets ==
  Filed("a", 0, {<<Jug, Top>>}, 1, {1}) \cup Filed("b", 1, {<<Top, Top>>}, 2, {1})
    \cup Filed("c", 3, {<<None, None>>}, 1, {1, 2})
    \cup Filed("d", 4, {<<None, None>>}, 2, {1})
    \cup Filed("e", 4, {<<Top, Jug>>, <<Jug, Top>>}, 3, {1})
    \cup Filed("f", 8, {<<Jug, Jug>>}, 1, {1})
=============================================================================
