---------------------------- MODULE Matchmaking ----------------------------
(***************************************************************************)
(* MatchmakingManager: the tickets in MMR buckets and the Tick that forms  *)
(* matches.  The manager is a job queue, so AddTicket, RemoveTicket and    *)
(* Tick do not interleave (module JobQueue); sessions, however, may expire *)
(* while Tick runs, and Tick looks at them seed after seed.                *)
(*                                                                         *)
(* Nothing keeps a player from having several tickets: a client may send   *)
(* C_MATCH_START again, and a failed match gives a ticket back beside it.  *)
(* RemoveTicket looks for the player, so it may take another ticket of his *)
(* than the one that is meant.                                             *)
(***************************************************************************)
EXTENDS Integers, Sequences, SequencesExt, FiniteSets

CONSTANTS
  Tickets,      \* tickets that may be filed: [player, mmr, primary,
                \*   secondary, queuedAt, id]; the code has no id: it tells
                \*   copies in the queue apart, and bounds their number
  Positions,    \* POSITIONS, a sequence: five of them in the code
  None,         \* POSITION_NONE: any position will do
  BucketSize,   \* MMR_BUCKET_SIZE
  BucketCount,  \* MMR_BUCKET_COUNT
  MatchRange,   \* MMR_MATCH_RANGE
  NoMatch       \* Tick has formed no match in the last step

Players   == {t.player : t \in Tickets}
TeamSize  == Len(Positions)
MatchSize == 2 * TeamSize
Sides     == [ticket : Tickets, position : ToSet(Positions)]  \* MatchedPlayer

ASSUME PositionsAssumption ==
  /\ Positions \in Seq(ToSet(Positions))
  /\ \A i, j \in DOMAIN Positions : Positions[i] = Positions[j] => i = j
  /\ None \notin {Positions[i] : i \in DOMAIN Positions}
ASSUME NoMatchAssumption ==
  NoMatch \notin [seed : Tickets, teamA : Seq(Sides), teamB : Seq(Sides),
                  earlier : SUBSET Players]
ASSUME BucketsAssumption ==
  BucketSize \in Nat \ {0} /\ BucketCount \in Nat \ {0} /\ MatchRange \in Nat
(* MmrManager gives a name one MMR for the life of the server.             *)
ASSUME MmrAssumption ==
  /\ \A t \in Tickets : t.mmr \in Nat
  /\ \A t, u \in Tickets : t.player = u.player => t.mmr = u.mmr

VARIABLES
  buckets,    \* _bucketedTickets, numbered from 1 here
  gone,       \* players whose session has expired
  ticking,    \* Tick is running
  unvisited,  \* Tick: allTickets not yet taken as a seed
  matched,    \* Tick: alreadyMatched
  last        \* history: the match formed in the last step, with its seed
              \*   and who was in alreadyMatched before

vars == <<buckets, gone, ticking, unvisited, matched, last>>

Init ==
  /\ buckets   = [b \in 1 .. BucketCount |-> <<>>]
  /\ gone      = {}
  /\ ticking   = FALSE
  /\ unvisited = {}
  /\ matched   = {}
  /\ last      = NoMatch

-----------------------------------------------------------------------------
(* The pure part.                                                          *)

Least(a, b)    == IF a <= b THEN a ELSE b
Greatest(a, b) == IF a >= b THEN a ELSE b
Distance(a, b) == IF a <= b THEN b - a ELSE a - b

(* GetBucketIndex; what is beyond the last bucket goes into the last one.  *)
GetBucketIndex(mmr) == 1 + Least(mmr \div BucketSize, BucketCount - 1)

(* mutant: no pop_back()                                                   *)
SwapOut_NoPop(s, i) ==
  [j \in 1 .. Len(s) |-> IF j = i THEN s[Len(s)] ELSE s[j]]

(* bucket[i] = bucket.back(); bucket.pop_back()                            *)
SwapOut(s, i) ==
  [j \in 1 .. Len(s) - 1 |-> IF j = i THEN s[Len(s)] ELSE s[j]]

(* mutant: the last element is dropped, the found one stays                *)
RemoveTicket_NoSwap(bs, p, mmr) ==
  LET b == GetBucketIndex(mmr)
      i == SelectInSeq(bs[b], LAMBDA t : t.player = p)
  IN IF i = 0 THEN bs ELSE [bs EXCEPT ![b] = SubSeq(@, 1, Len(@) - 1)]

(* RemoveTicket, on the buckets bs.                                        *)
RemoveTicket(bs, p, mmr) ==
  LET b == GetBucketIndex(mmr)
      i == SelectInSeq(bs[b], LAMBDA t : t.player = p)
  IN IF i = 0 THEN bs ELSE [bs EXCEPT ![b] = SwapOut(@, i)]

(* RemoveTicket for each ticket of the sequence s, in order.               *)
RemoveAll(bs, s) ==
  LET rest[k \in 0 .. Len(s)] ==
        IF k = 0 THEN bs ELSE RemoveTicket(rest[k - 1], s[k].player, s[k].mmr)
  IN rest[Len(s)]

(* The elements of s that are in kept, in their order.                     *)
Filter(s, kept) ==
  LET found[k \in 0 .. Len(s)] ==
        IF k = 0 THEN <<>>
        ELSE IF s[k] \in kept THEN Append(found[k - 1], s[k]) ELSE found[k - 1]
  IN found[Len(s)]

(* mutant: as many buckets on each side as whole buckets fit into the range*)
CollectCandidates_Narrow(mmr) ==
  LET center == GetBucketIndex(mmr)
      span   == MatchRange \div BucketSize
      from   == Greatest(center - span, 1)
      upTo   == Least(center + span, BucketCount)
      near   == FlattenSeq([k \in 1 .. upTo - from + 1 |-> buckets[from + k - 1]])
  IN Filter(near, {t \in Tickets : Distance(t.mmr, mmr) <= MatchRange})

(* CollectCandidates(mmr, MMR_MATCH_RANGE).                                *)
CollectCandidates(mmr) ==
  LET center == GetBucketIndex(mmr)
      span   == (MatchRange + BucketSize - 1) \div BucketSize
      from   == Greatest(center - span, 1)
      upTo   == Least(center + span, BucketCount)
      near   == FlattenSeq([k \in 1 .. upTo - from + 1 |-> buckets[from + k - 1]])
  IN Filter(near, {t \in Tickets : Distance(t.mmr, mmr) <= MatchRange})

(* The candidate PickOneForPosition takes from pool, by index; 0: nobody.  *)
ChoiceFor(pool, position) ==
  LET primary   == SelectInSeq(pool, LAMBDA t : t.primary = position)
      secondary == SelectInSeq(pool, LAMBDA t : t.secondary = position)
      fill      == SelectInSeq(pool, LAMBDA t : t.primary = None)
  IN IF primary # 0 THEN primary ELSE IF secondary # 0 THEN secondary ELSE fill

(* mutant: team A always gets the better one                               *)
Assign_Unbalanced(f, first, second, position) ==
  LET high == IF first.mmr < second.mmr THEN second ELSE first
      low  == IF first.mmr < second.mmr THEN first ELSE second
  IN [f EXCEPT !.teamA = Append(@, [ticket |-> high, position |-> position]),
               !.teamB = Append(@, [ticket |-> low,  position |-> position]),
               !.sumA  = @ + high.mmr,
               !.sumB  = @ + low.mmr]

(* TryFormMatch, the two tickets of a position: the higher MMR goes to the *)
(* team with the lower sum.                                                *)
Assign(f, first, second, position) ==
  LET high == IF first.mmr < second.mmr THEN second ELSE first
      low  == IF first.mmr < second.mmr THEN first ELSE second
      a    == IF f.sumA <= f.sumB THEN high ELSE low
      b    == IF f.sumA <= f.sumB THEN low ELSE high
  IN [f EXCEPT !.teamA = Append(@, [ticket |-> a, position |-> position]),
               !.teamB = Append(@, [ticket |-> b, position |-> position]),
               !.sumA  = @ + a.mmr,
               !.sumB  = @ + b.mmr]

(* TryFormMatch, one position: two picks from the pool, or failure.        *)
FillPosition(f, position) ==
  LET i == ChoiceFor(f.pool, position)
      rest == SwapOut(f.pool, i)
      j == ChoiceFor(rest, position)
  IN IF ~f.ok \/ i = 0 \/ j = 0 THEN [f EXCEPT !.ok = FALSE]
     ELSE [Assign(f, f.pool[i], rest[j], position) EXCEPT !.pool = SwapOut(rest, j)]

TryFormMatch(pool) ==
  LET formed[k \in 0 .. TeamSize] ==
        IF k = 0
        THEN [ok |-> TRUE, pool |-> pool, teamA |-> <<>>, teamB |-> <<>>,
              sumA |-> 0, sumB |-> 0]
        ELSE FillPosition(formed[k - 1], Positions[k])
  IN formed[TeamSize]

-----------------------------------------------------------------------------
(* The jobs.                                                               *)

Queue == UNION {{buckets[b][i] : i \in DOMAIN buckets[b]} : b \in 1 .. BucketCount}

(* AddTicket of a new ticket, or of one that a failed match gives back.    *)
(* It asks nothing; that t is not there yet only gives each its identity.  *)
AddTicket(t) ==
  /\ ~ticking
  /\ t \notin Queue
  /\ buckets' = [buckets EXCEPT ![GetBucketIndex(t.mmr)] = Append(@, t)]
  /\ last' = NoMatch
  /\ UNCHANGED <<gone, ticking, unvisited, matched>>

(* RemoveTicket for the player and MMR of t, whichever of his tickets it   *)
(* meets first, and whether or not he has one.                             *)
Withdraw(t) ==
  /\ ~ticking
  /\ buckets' = RemoveTicket(buckets, t.player, t.mmr)
  /\ last' = NoMatch
  /\ UNCHANGED <<gone, ticking, unvisited, matched>>

(* The last reference to the session of p goes.                            *)
SessionExpires(p) ==
  /\ p \notin gone
  /\ gone' = gone \cup {p}
  /\ last' = NoMatch
  /\ UNCHANGED <<buckets, ticking, unvisited, matched>>

TickBegin ==
  /\ ~ticking
  /\ ticking'   = TRUE
  /\ unvisited' = Queue
  /\ last'      = NoMatch
  /\ UNCHANGED <<buckets, gone, matched>>

(* The sort by queuedAt is not stable: among equals the order is open.     *)
Seed(s) ==
  /\ ticking
  /\ s \in unvisited
  /\ \A u \in unvisited : s.queuedAt <= u.queuedAt
  /\ unvisited' = unvisited \ {s}

SkipSeed(s) ==
  /\ Seed(s)
  /\ s.player \in matched
  /\ last' = NoMatch
  /\ UNCHANGED <<buckets, gone, ticking, matched>>

PurgeSeed(s) ==
  /\ Seed(s)
  /\ s.player \notin matched
  /\ s.player \in gone
  /\ buckets' = RemoveTicket(buckets, s.player, s.mmr)
  /\ last'    = NoMatch
  /\ UNCHANGED <<gone, ticking, matched>>

(* The candidates of a seed that remove_if drops for good, and those it    *)
(* keeps; who is in alreadyMatched is dropped from the list only.          *)
Expired_Ignored(s) == <<>>     \* mutant

Expired(s) == Filter(CollectCandidates(s.mmr),
                {t \in Tickets : t.player \notin matched /\ t.player \in gone})
Live(s)    == Filter(CollectCandidates(s.mmr),
                {t \in Tickets : t.player \notin matched \cup gone})

FormsMatch(s) == Len(Live(s)) >= MatchSize /\ TryFormMatch(Live(s)).ok

SearchInVain(s) ==
  /\ Seed(s)
  /\ s.player \notin matched \cup gone
  /\ ~FormsMatch(s)
  /\ buckets' = RemoveAll(buckets, Expired(s))
  /\ last'    = NoMatch
  /\ UNCHANGED <<gone, ticking, matched>>

(* mutant: the second loop walks team A again                              *)
MembersOf_TeamA(f) == [k \in 1 .. MatchSize |->
  IF k <= TeamSize THEN f.teamA[k].ticket ELSE f.teamA[k - TeamSize].ticket]

MembersOf(f) == [k \in 1 .. MatchSize |->
  IF k <= TeamSize THEN f.teamA[k].ticket ELSE f.teamB[k - TeamSize].ticket]

FormMatch(s) ==
  /\ Seed(s)
  /\ s.player \notin matched \cup gone
  /\ FormsMatch(s)
  /\ LET f == TryFormMatch(Live(s)) IN
       /\ buckets' = RemoveAll(RemoveAll(buckets, Expired(s)), MembersOf(f))
       /\ matched' = matched \cup {MembersOf(f)[k].player : k \in 1 .. MatchSize}
       /\ last'    = [seed |-> s, teamA |-> f.teamA, teamB |-> f.teamB,
                      earlier |-> matched]
  /\ UNCHANGED <<gone, ticking>>

TickEnd ==
  /\ ticking
  /\ unvisited = {}
  /\ ticking' = FALSE
  /\ matched' = {}
  /\ last'    = NoMatch
  /\ UNCHANGED <<buckets, gone, unvisited>>

Next ==
  \/ \E t \in Tickets : AddTicket(t) \/ Withdraw(t)
  \/ \E p \in Players : SessionExpires(p)
  \/ TickBegin
  \/ \E s \in unvisited :
       SkipSeed(s) \/ PurgeSeed(s) \/ SearchInVain(s) \/ FormMatch(s)
  \/ TickEnd

Spec == Init /\ [][Next]_vars

-----------------------------------------------------------------------------
(* Whatever the swaps of RemoveTicket do to the order, a ticket is stored  *)
(* once, in the bucket of its MMR, where RemoveTicket will look for it     *)
(* (MatchmakingManager.cpp:158-182).                                       *)
WellPlaced ==
  \A b, c \in 1 .. BucketCount :
    \A i \in DOMAIN buckets[b], j \in DOMAIN buckets[c] :
      /\ GetBucketIndex(buckets[b][i].mmr) = b
      /\ buckets[b][i] = buckets[c][j] => b = c /\ i = j

(* Types, what a Tick leaves behind, and the buckets well placed.          *)
TypeOK ==
  /\ buckets \in [1 .. BucketCount -> Seq(Tickets)]
  /\ gone \subseteq Players /\ matched \subseteq Players
  /\ ticking \in BOOLEAN
  /\ unvisited \subseteq Tickets
  /\ ~ticking => unvisited = {} /\ matched = {}
  /\ last = NoMatch \/ last.seed \in Tickets
  /\ WellPlaced

(* The few buckets scanned around a seed hold every ticket within range,   *)
(* each once; also at both ends of the buckets, where the scan is cut and  *)
(* where the last bucket holds everything above it                         *)
(* (MatchmakingManager.cpp:146-156, 184-210).                              *)
CandidatesComplete ==
  \A t \in Queue :
    LET found == CollectCandidates(t.mmr)
        near  == {u \in Queue : Distance(u.mmr, t.mmr) <= MatchRange}
    IN /\ {found[i] : i \in DOMAIN found} = near
       /\ Len(found) = Cardinality(near)

SideOf(m, k)   == IF k <= TeamSize THEN m.teamA[k] ELSE m.teamB[k - TeamSize]
Accepts(t, p)  == p \in {t.primary, t.secondary} \/ t.primary = None
SumOf(team) ==
  LET sum[k \in 0 .. TeamSize] == IF k = 0 THEN 0 ELSE sum[k - 1] + team[k].ticket.mmr
  IN sum[TeamSize]

(* A match is two full teams of different tickets; each player has a       *)
(* position he asked for, one of each per team, and is within range of the *)
(* seed.  Nobody gets into two matches of one Tick: who is placed was not  *)
(* in alreadyMatched before and is now.  A player with two tickets may be  *)
(* in one match twice (MatchmakingManager.cpp:89-125, 244-292).            *)
MatchSound ==
  last # NoMatch =>
    /\ Len(last.teamA) = TeamSize /\ Len(last.teamB) = TeamSize
    /\ \A k \in 1 .. MatchSize :
         LET side == SideOf(last, k) IN
         /\ side.position = Positions[IF k <= TeamSize THEN k ELSE k - TeamSize]
         /\ Accepts(side.ticket, side.position)
         /\ Distance(side.ticket.mmr, last.seed.mmr) <= MatchRange
         /\ side.ticket.player \in matched \ last.earlier
         /\ \A l \in 1 .. MatchSize :
              SideOf(last, l).ticket = side.ticket => k = l

(* Giving the better of each pair to the weaker team keeps the sums of the *)
(* two teams within the gap a single pair can have, however many positions *)
(* there are (MatchmakingManager.cpp:104-121).                             *)
TeamsBalanced ==
  last # NoMatch => Distance(SumOf(last.teamA), SumOf(last.teamB)) <= 2 * MatchRange

Held(p)     == Cardinality({t \in Queue : t.player = p})
Seats(m, p) == Cardinality({k \in 1 .. MatchSize : SideOf(m, k).ticket.player = p})

(* Tickets leave the queue for a reason, and as many as there is reason    *)
(* for.  A match costs each of its players one ticket per seat, though it  *)
(* need not be the ticket he was seated with.  Otherwise a player loses    *)
(* one that he withdraws between two Ticks, or what Tick clears because    *)
(* his session is gone; nobody else's ticket goes with it                  *)
(* (MatchmakingManager.cpp:166-182, 238-292).                              *)
LeavesForReason ==
  [][ \A p \in Players :
        IF last' # NoMatch /\ Seats(last', p) > 0
        THEN Held(p)' = Held(p) - Seats(last', p)
        ELSE Held(p)' < Held(p) =>
               \/ ticking /\ p \in gone
               \/ /\ Held(p)' = Held(p) - 1
                  /\ \E t \in Tickets : t.player = p /\ Withdraw(t)
    ]_vars

(* After a seed has been dealt with, no expired ticket within its range is *)
(* left to waste the accept timeout of nine others                         *)
(* (MatchmakingManager.cpp:235-263).                                       *)
ExpiredSwept ==
  [][ \A s \in unvisited :
        (SearchInVain(s) \/ FormMatch(s)) =>
           \A t \in Queue' : Distance(t.mmr, s.mmr) <= MatchRange
                               => t.player \in matched \/ t.player \notin gone
    ]_vars
=============================================================================
