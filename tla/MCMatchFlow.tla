---------------------------- MODULE MCMatchFlow ----------------------------
(* Instances of MatchFlow for TLC. *)
EXTENDS MatchFlow, TLC

Symmetry == Permutations(Players)

(***************************************************************************)
(* Two players from their first key press on are too many: the runs begin  *)
(* in states that Spec reaches.  One player is alone in the lobby and the  *)
(* other has left; or both are in the queue, Somebody after he canceled    *)
(* once, with no start and no cancel left; or both are in the first match, *)
(* which waits for the answer of the other one and its timer, with one     *)
(* start left.                                                             *)
(***************************************************************************)
Somebody == CHOOSE p \in Players : TRUE

Untouched ==
  /\ menu      = [p \in Players |-> "none"]
  /\ toServer  = [p \in Players |-> <<>>]
  /\ toClient  = [p \in Players |-> <<>>]
  /\ handler   = [p \in Players |-> "idle"]
  /\ acceptRef = [p \in Players |-> NoMatch]
  /\ mgrJobs   = <<>>
  /\ ticking   = FALSE
  /\ matched   = {}
  /\ made      = 0
  /\ slots     = [m \in Matches |-> <<>>]
  /\ notified  = [m \in Matches |-> 0]
  /\ timer     = [m \in Matches |-> "none"]
  /\ accJobs   = [m \in Matches |-> <<>>]
  /\ accepted  = [m \in Matches |-> {}]
  /\ outcome   = [m \in Matches |-> "open"]
  /\ settled   = [m \in Matches |-> 0]
  /\ giving    = [m \in Matches |-> "no"]
  /\ verdicts  = [m \in Matches |-> [i \in 1 .. MatchSize |-> 0]]

Alone ==
  /\ client   = [p \in Players |-> "lobby"]
  /\ starts   = [p \in Players |-> 0]
  /\ cancels  = 0
  /\ conn     = [p \in Players |-> IF p = Somebody THEN "up" ELSE "dead"]
  /\ isQueued = [p \in Players |-> FALSE]
  /\ tickets  = [p \in Players |-> 0]

BothQueued ==
  /\ client   = [p \in Players |-> "matching"]
  /\ starts   = [p \in Players |-> IF p = Somebody THEN 2 ELSE 1]
  /\ cancels  = 1
  /\ conn     = [p \in Players |-> "up"]
  /\ isQueued = [p \in Players |-> TRUE]
  /\ tickets  = [p \in Players |-> 1]

OneAccepted ==
  /\ client    = [p \in Players |-> IF p = Somebody THEN "waiting" ELSE "found"]
  /\ menu      = [p \in Players |-> IF p = Somebody THEN "none" ELSE "found"]
  /\ starts    = [p \in Players |-> 1]
  /\ cancels   = 1
  /\ toServer  = [p \in Players |-> <<>>]
  /\ toClient  = [p \in Players |-> <<>>]
  /\ conn      = [p \in Players |-> "up"]
  /\ handler   = [p \in Players |-> "idle"]
  /\ isQueued  = [p \in Players |-> FALSE]
  /\ acceptRef = [p \in Players |-> 1]
  /\ tickets   = [p \in Players |-> 0]
  /\ mgrJobs   = <<>>
  /\ ticking   = FALSE
  /\ matched   = {}
  /\ made      = 1
  /\ \E team \in [1 .. MatchSize -> Players] :
       /\ team[1] = Somebody
       /\ \A i \in 2 .. MatchSize : team[i] # Somebody
       /\ slots  = [m \in Matches |-> IF m = 1 THEN team ELSE <<>>]
  /\ notified  = [m \in Matches |-> IF m = 1 THEN MatchSize ELSE 0]
  /\ timer     = [m \in Matches |-> IF m = 1 THEN "armed" ELSE "none"]
  /\ accJobs   = [m \in Matches |-> <<>>]
  /\ accepted  = [m \in Matches |-> IF m = 1 THEN {Somebody} ELSE {}]
  /\ outcome   = [m \in Matches |-> "open"]
  /\ settled   = [m \in Matches |-> 0]
  /\ giving    = [m \in Matches |-> "no"]
  /\ verdicts  = [m \in Matches |-> [i \in 1 .. MatchSize |-> 0]]

QueueOrAlone == Untouched /\ (Alone \/ BothQueued)

FromQueueOrAlone == QueueOrAlone /\ [][Next]_vars /\ Fairness

QueueOrAccepted == (Untouched /\ BothQueued) \/ OneAccepted

FromQueueOrAccepted == QueueOrAccepted /\ [][Next]_vars
=============================================================================
