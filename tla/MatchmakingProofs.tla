------------------------- MODULE MatchmakingProofs -------------------------
(***************************************************************************)
(* What holds of Matchmaking for every set of tickets, list of positions,  *)
(* bucket size, number of buckets and range.                               *)
(*                                                                         *)
(* The model is built from recursive functions (RemoveAll, Filter,         *)
(* FlattenSeq, TryFormMatch, SumOf).  FcnExists gives such a function its  *)
(* values, UpTo the induction over them; both rest on LeastOf.             *)
(***************************************************************************)
EXTENDS Matchmaking, FiniteSetTheorems, WellFoundedInduction, TLAPS

LEMMA LeastOf ==
  ASSUME NEW S \in SUBSET Nat, S # {}
  PROVE  \E x \in S : \A y \in S : x <= y
<1> DEFINE R == OpToRel(<, Nat)
<1>1. IsWellFoundedOn(R, Nat)
  BY NatLessThanWellFounded
<1> HIDE DEF R
<1>2. PICK x \in S : \A y \in S : ~(<<y, x>> \in R)
  BY <1>1, WFMin
<1>3. \A n, m \in Nat : m < n => <<m, n>> \in R
  BY DEF R, OpToRel
<1>4. \A y \in S : x <= y
  <2> TAKE y \in S
  <2>1. ~(y < x)
    BY <1>2, <1>3
  <2> QED
    BY <2>1
<1> QED
  BY <1>4

LEMMA UpTo ==
  ASSUME NEW m \in Nat, NEW S, 0 \in S,
         \A n \in 0 .. m - 1 : n \in S => n + 1 \in S
  PROVE  \A n \in 0 .. m : n \in S
<1>1. SUFFICES ASSUME (0 .. m) \ S # {} PROVE FALSE
  OBVIOUS
<1> DEFINE T == (0 .. m) \ S
<1>2. PICK x \in T : \A y \in T : x <= y
  <2>1. T \in SUBSET Nat /\ T # {}
    BY <1>1
  <2> HIDE DEF T
  <2> QED
    BY <2>1, LeastOf
<1>3. x # 0 /\ x - 1 \in 0 .. m - 1
  BY <1>2
<1>4. x - 1 \in S
  BY <1>2, <1>3
<1>5. (x - 1) + 1 = x
  OBVIOUS
<1> QED
  BY <1>2, <1>3, <1>4, <1>5

(* F leads from the value before k to the one at k, and stays in X.        *)
Closed(F, X, m) == \A x \in X, k \in 1 .. m : F[<<x, k>>] \in X

Iterates(f, F, X, x0, m) ==
  /\ f \in [0 .. m -> X]
  /\ f[0] = x0
  /\ \A k \in 1 .. m : f[k] = F[<<f[k - 1], k>>]

LEMMA FcnExists ==
  ASSUME NEW X, NEW x0 \in X, NEW m \in Nat, NEW F, Closed(F, X, m)
  PROVE  \E f : Iterates(f, F, X, x0, m)
<1> USE DEF Closed, Iterates
<1> DEFINE Has(n) == \E f \in [0 .. n -> X] :
             f[0] = x0 /\ \A k \in 1 .. n : f[k] = F[<<f[k - 1], k>>]
           S == {n \in 0 .. m : Has(n)}
<1>1. Has(0)
  <2> DEFINE f == [k \in 0 .. 0 |-> x0]
  <2>1. f \in [0 .. 0 -> X] /\ f[0] = x0 /\ \A k \in 1 .. 0 : f[k] = F[<<f[k - 1], k>>]
    OBVIOUS
  <2> QED
    BY <2>1
<1>2. ASSUME NEW n \in 0 .. m - 1, Has(n)
      PROVE  Has(n + 1)
  <2>1. PICK f \in [0 .. n -> X] :
          f[0] = x0 /\ \A k \in 1 .. n : f[k] = F[<<f[k - 1], k>>]
    BY <1>2
  <2> DEFINE next == F[<<f[n], n + 1>>]
             g == [k \in 0 .. n + 1 |-> IF k <= n THEN f[k] ELSE next]
  <2>2. next \in X
    <3>1. f[n] \in X /\ n \in Nat /\ n + 1 \in 1 .. m
      OBVIOUS
    <3> QED
      BY <3>1
  <2>3. g \in [0 .. n + 1 -> X] /\ g[0] = f[0]
    <3> HIDE DEF next
    <3> QED
      BY <2>2
  <2>4. ASSUME NEW k \in 1 .. n + 1
        PROVE  g[k] = F[<<g[k - 1], k>>]
    <3>1. CASE k <= n
      <4>1. g[k] = f[k] /\ g[k - 1] = f[k - 1] /\ k \in 1 .. n
        BY <3>1
      <4> HIDE DEF g
      <4> QED
        BY <4>1, <2>1
    <3>2. CASE k = n + 1
      <4>1. g[k] = next /\ g[k - 1] = f[n]
        BY <3>2
      <4> HIDE DEF g
      <4> QED
        BY <4>1, <3>2
    <3> QED
      BY <3>1, <3>2
  <2> HIDE DEF g
  <2> QED
    BY <2>1, <2>3, <2>4
<1> HIDE DEF Has
<1>3. 0 \in S
  BY <1>1
<1>4. \A n \in 0 .. m - 1 : n \in S => n + 1 \in S
  BY <1>2
<1>5. \A n \in 0 .. m : n \in S
  <2> HIDE DEF S
  <2> QED
    BY <1>3, <1>4, UpTo
<1> QED
  BY <1>5 DEF Has

-----------------------------------------------------------------------------
(* Tickets in sequences and buckets.                                       *)

Distinct(s) == \A i, j \in DOMAIN s : s[i] = s[j] => i = j

BucketSet   == [1 .. BucketCount -> Seq(Tickets)]
QueueOf(bs) == UNION {{bs[b][i] : i \in DOMAIN bs[b]} : b \in 1 .. BucketCount}
Placed(bs)  ==
  \A b, c \in 1 .. BucketCount :
    \A i \in DOMAIN bs[b], j \in DOMAIN bs[c] :
      /\ GetBucketIndex(bs[b][i].mmr) = b
      /\ bs[b][i] = bs[c][j] => b = c /\ i = j

LEMMA FirstOf ==
  ASSUME NEW I \in SUBSET Nat, I # {}
  PROVE  Min(I) \in I
<1> DEFINE P(x) == x \in I /\ \A y \in I : x <= y
<1>1. \E x : P(x)
  BY LeastOf
<1>2. P(CHOOSE x : P(x))
  <2> HIDE DEF P
  <2> QED
    BY <1>1, Zenon
<1> QED
  BY <1>2 DEF Min

LEMMA BucketRange ==
  ASSUME NEW m \in Nat
  PROVE  GetBucketIndex(m) \in 1 .. BucketCount
<1>1. m \div BucketSize \in Nat
  BY BucketsAssumption
<1> QED
  BY <1>1, BucketsAssumption DEF GetBucketIndex, Least

LEMMA Swapped ==
  ASSUME NEW s \in Seq(Tickets), NEW i \in 1 .. Len(s), Distinct(s)
  PROVE  /\ SwapOut(s, i) \in Seq(Tickets)
         /\ Len(SwapOut(s, i)) = Len(s) - 1
         /\ Distinct(SwapOut(s, i))
         /\ ToSet(SwapOut(s, i)) = ToSet(s) \ {s[i]}
<1> DEFINE n == Len(s)
           r == SwapOut(s, i)
<1>1. n \in Nat /\ DOMAIN s = 1 .. n
  OBVIOUS
<1>2. DOMAIN r = 1 .. n - 1 /\ \A j \in 1 .. n - 1 : r[j] = IF j = i THEN s[n] ELSE s[j]
  BY DEF SwapOut
<1>3. r \in Seq(Tickets) /\ Len(r) = n - 1
  <2>1. r = [j \in 1 .. n - 1 |-> IF j = i THEN s[n] ELSE s[j]]
    BY DEF SwapOut
  <2>2. r \in [1 .. n - 1 -> Tickets]
    BY <2>1, <1>1
  <2>3. n - 1 \in Nat
    BY <1>1
  <2> QED
    BY <2>1, <2>2, <2>3
<1>4. Distinct(r)
  <2> SUFFICES ASSUME NEW j \in 1 .. n - 1, NEW k \in 1 .. n - 1, r[j] = r[k]
               PROVE  j = k
    BY <1>2 DEF Distinct
  <2>1. /\ j \in 1 .. n /\ k \in 1 .. n /\ n \in 1 .. n
        /\ r[j] = s[IF j = i THEN n ELSE j] /\ r[k] = s[IF k = i THEN n ELSE k]
    BY <1>1, <1>2
  <2> HIDE DEF n, r
  <2>2. s[IF j = i THEN n ELSE j] = s[IF k = i THEN n ELSE k]
    BY <2>1
  <2>3. (IF j = i THEN n ELSE j) = (IF k = i THEN n ELSE k)
    BY <2>1, <2>2, <1>1 DEF Distinct
  <2> QED
    BY <2>3, <1>1
<1>5. ToSet(r) = ToSet(s) \ {s[i]}
  <2>1. ASSUME NEW x \in ToSet(r) PROVE x \in ToSet(s) \ {s[i]}
    <3>1. PICK j \in 1 .. n - 1 : x = r[j]
      BY <1>2 DEF ToSet
    <3>2. PICK k \in 1 .. n : x = s[k] /\ k # i
      <4>1. CASE j = i
        BY <4>1, <3>1, <1>2, <1>1
      <4>2. CASE j # i
        BY <4>2, <3>1, <1>2, <1>1
      <4> QED
        BY <4>1, <4>2
    <3>3. s[k] # s[i]
      BY <3>2, <1>1 DEF Distinct
    <3> QED
      BY <3>2, <3>3, <1>1 DEF ToSet
  <2>2. ASSUME NEW x \in ToSet(s), x # s[i] PROVE x \in ToSet(r)
    <3>1. PICK k \in 1 .. n : x = s[k]
      BY <1>1 DEF ToSet
    <3>2. k # i
      BY <3>1, <2>2
    <3>3. CASE k = n
      <4>1. i \in 1 .. n - 1 /\ r[i] = s[n]
        <5>1. i \in 1 .. n - 1
          <6>1. n \in Nat /\ i \in 1 .. n /\ i # n
            BY <1>1, <3>2, <3>3
          <6> HIDE DEF n
          <6> QED
            BY <6>1
        <5> QED
          BY <5>1, <1>2
      <4> QED
        BY <4>1, <3>1, <3>3, <1>2 DEF ToSet
    <3>4. CASE k # n
      <4>1. k \in 1 .. n - 1
        <5>1. n \in Nat /\ k \in 1 .. n /\ k # n
          BY <1>1, <3>4
        <5> HIDE DEF n
        <5> QED
          BY <5>1
      <4>2. r[k] = s[k]
        BY <1>2, <3>2, <4>1
      <4> QED
        BY <4>1, <4>2, <3>1, <1>2 DEF ToSet
    <3> QED
      BY <3>3, <3>4
  <2> QED
    BY <2>1, <2>2
<1> QED
  BY <1>3, <1>4, <1>5

HeldIn(bs, p) == Cardinality({u \in QueueOf(bs) : u.player = p})

LEMMA UpToFinite ==
  ASSUME NEW n \in Nat
  PROVE  IsFiniteSet(1 .. n) /\ Cardinality(1 .. n) = n
<1>1. 1 \in Int /\ n \in Int
  OBVIOUS
<1>2. /\ IsFiniteSet(1 .. n)
      /\ Cardinality(1 .. n) = IF 1 > n THEN 0 ELSE n - 1 + 1
  BY <1>1, FS_Interval, Zenon
<1>3. (IF 1 > n THEN 0 ELSE n - 1 + 1) = n
  OBVIOUS
<1> QED
  BY <1>2, <1>3

LEMMA QueueFinite ==
  ASSUME NEW bs \in BucketSet
  PROVE  IsFiniteSet(QueueOf(bs))
<1>1. ASSUME NEW b \in 1 .. BucketCount
      PROVE  IsFiniteSet({bs[b][i] : i \in DOMAIN bs[b]})
  <2> DEFINE n == Len(bs[b])
             f == [i \in 1 .. n |-> bs[b][i]]
             T == {bs[b][i] : i \in DOMAIN bs[b]}
  <2>1. n \in Nat /\ DOMAIN bs[b] = 1 .. n
    BY DEF BucketSet
  <2>2. f \in Surjection(1 .. n, T)
    BY <2>1 DEF Surjection
  <2> HIDE DEF f, n, T
  <2>3. IsFiniteSet(1 .. n)
    BY <2>1, UpToFinite
  <2>4. IsFiniteSet(T)
    BY <2>2, <2>3, FS_Surjection
  <2> QED
    BY <2>4 DEF T
<1> DEFINE C(b) == {bs[b][i] : i \in DOMAIN bs[b]}
           g == [b \in 1 .. BucketCount |-> C(b)]
           All == {C(b) : b \in 1 .. BucketCount}
<1>2. g \in Surjection(1 .. BucketCount, All)
  BY DEF Surjection
<1>3. IsFiniteSet(1 .. BucketCount)
  BY BucketsAssumption, UpToFinite
<1>4. \A S \in All : IsFiniteSet(S)
  BY <1>1
<1>5. QueueOf(bs) = UNION All
  BY DEF QueueOf
<1> HIDE DEF g, All
<1>6. IsFiniteSet(All)
  BY <1>2, <1>3, FS_Surjection
<1> QED
  BY <1>4, <1>5, <1>6, FS_UNION

(* The tickets of p, as a finite set.                                      *)
LEMMA HeldFinite ==
  ASSUME NEW bs \in BucketSet, NEW p
  PROVE  IsFiniteSet({u \in QueueOf(bs) : u.player = p}) /\ HeldIn(bs, p) \in Nat
<1> DEFINE S == {u \in QueueOf(bs) : u.player = p}
<1>1. S \subseteq QueueOf(bs) /\ IsFiniteSet(QueueOf(bs))
  BY QueueFinite
<1> HIDE DEF S
<1>2. IsFiniteSet(S)
  BY <1>1, FS_Subset
<1>3. Cardinality(S) \in Nat
  BY <1>2, FS_CardinalityType
<1> QED
  BY <1>2, <1>3 DEF S, HeldIn

(* RemoveTicket takes one ticket of the player, if he has one at all.      *)
LEMMA Removed ==
  ASSUME NEW bs \in BucketSet, Placed(bs), NEW t \in Tickets
  PROVE  LET rs == RemoveTicket(bs, t.player, t.mmr) IN
         /\ rs \in BucketSet /\ Placed(rs)
         /\ \/ rs = bs /\ \A u \in QueueOf(bs) : u.player # t.player
            \/ \E u \in QueueOf(bs) :
                 u.player = t.player /\ QueueOf(rs) = QueueOf(bs) \ {u}
<1> DEFINE b == GetBucketIndex(t.mmr)
           I == {i \in 1 .. Len(bs[b]) : bs[b][i].player = t.player}
           x == SelectInSeq(bs[b], LAMBDA u : u.player = t.player)
           rs == RemoveTicket(bs, t.player, t.mmr)
<1>1. b \in 1 .. BucketCount
  BY BucketRange, MmrAssumption
<1>2. \A c \in 1 .. BucketCount : bs[c] \in Seq(Tickets) /\ DOMAIN bs[c] = 1 .. Len(bs[c])
  BY DEF BucketSet
<1>3. rs = IF x = 0 THEN bs ELSE [bs EXCEPT ![b] = SwapOut(bs[b], x)]
  BY DEF RemoveTicket
<1>4. x = IF I # {} THEN Min(I) ELSE 0
  BY DEF SelectInSeq
<1>5. ASSUME NEW c \in 1 .. BucketCount, NEW i \in DOMAIN bs[c], bs[c][i].player = t.player
      PROVE  c = b /\ i \in I
  <2>1. bs[c][i] \in Tickets
    BY <1>2
  <2>2. c = b
    BY <2>1, <1>5, MmrAssumption DEF Placed
  <2> QED
    BY <2>2, <1>2, <1>5
<1>6. CASE I = {}
  <2>1. rs = bs
    BY <1>3, <1>4, <1>6
  <2>2. \A u \in QueueOf(bs) : u.player # t.player
    BY <1>5, <1>6 DEF QueueOf
  <2> HIDE DEF rs
  <2> QED
    BY <2>1, <2>2 DEF rs
<1>7. CASE I # {}
  <2>1. x \in I /\ x \in 1 .. Len(bs[b]) /\ bs[b][x].player = t.player
    <3>1. Min(I) \in I
      <4>1. I \in SUBSET Nat
        OBVIOUS
      <4> HIDE DEF I
      <4> QED
        BY <4>1, <1>7, FirstOf
    <3> QED
      BY <3>1, <1>4, <1>7
  <2> DEFINE r == SwapOut(bs[b], x)
             out == bs[b][x]
  <2> HIDE DEF x
  <2>2. bs[b] \in Seq(Tickets) /\ Distinct(bs[b])
    BY <1>1, <1>2 DEF Placed, Distinct
  <2>3. r \in Seq(Tickets) /\ Distinct(r) /\ ToSet(r) = ToSet(bs[b]) \ {out}
    BY <2>1, <2>2, Swapped
  <2> HIDE DEF r
  <2>4. rs = [bs EXCEPT ![b] = r]
    <3>1. x # 0
      BY <2>1
    <3> QED
      BY <3>1, <1>3 DEF r
  <2> HIDE DEF b, rs
  <2>5. rs \in BucketSet /\ rs[b] = r /\ \A c \in 1 .. BucketCount : c # b => rs[c] = bs[c]
    BY <2>3, <2>4, <1>1 DEF BucketSet
  <2>6. ASSUME NEW c \in 1 .. BucketCount, NEW i \in DOMAIN rs[c]
        PROVE  \E j \in DOMAIN bs[c] : rs[c][i] = bs[c][j]
    BY <2>5, <2>3 DEF ToSet
  <2>7. Placed(rs)
    <3> SUFFICES ASSUME NEW c \in 1 .. BucketCount, NEW d \in 1 .. BucketCount,
                        NEW i \in DOMAIN rs[c], NEW j \in DOMAIN rs[d]
                 PROVE  /\ GetBucketIndex(rs[c][i].mmr) = c
                        /\ rs[c][i] = rs[d][j] => c = d /\ i = j
      BY DEF Placed
    <3>1. PICK k \in DOMAIN bs[c], l \in DOMAIN bs[d] : rs[c][i] = bs[c][k] /\ rs[d][j] = bs[d][l]
      BY <2>6
    <3>2. GetBucketIndex(rs[c][i].mmr) = c
      BY <3>1 DEF Placed
    <3>3. ASSUME rs[c][i] = rs[d][j] PROVE c = d /\ i = j
      <4>0. bs[c][k] = bs[d][l]
        BY <3>1, <3>3
      <4>1. c = d
        BY <4>0 DEF Placed
      <4>2. CASE c = b
        BY <4>1, <4>2, <3>3, <2>3, <2>5 DEF Distinct
      <4>3. CASE c # b
        BY <4>1, <4>3, <3>3, <2>5 DEF Placed
      <4> QED
        BY <4>1, <4>2, <4>3
    <3> QED
      BY <3>2, <3>3
  <2>8. x \in DOMAIN bs[b] /\ out \in QueueOf(bs) /\ out.player = t.player
    BY <2>1, <1>1, <1>2 DEF QueueOf
  <2>9. ASSUME NEW u, NEW c \in 1 .. BucketCount
        PROVE  u \in ToSet(rs[c]) <=> u \in ToSet(bs[c]) \ {out}
    <3>1. CASE c = b
      BY <3>1, <2>3, <2>5
    <3>2. CASE c # b
      <4>1. \A j \in DOMAIN bs[c] : bs[c][j] # out
        BY <3>2, <2>8, <1>1 DEF Placed
      <4> QED
        BY <4>1, <3>2, <2>5 DEF ToSet
    <3> QED
      BY <3>1, <3>2
  <2>10. \A q : QueueOf(q) = UNION {ToSet(q[c]) : c \in 1 .. BucketCount}
    BY DEF QueueOf, ToSet
  <2>11. QueueOf(rs) = QueueOf(bs) \ {out}
    <3>1. \A q, u : u \in QueueOf(q) <=> \E c \in 1 .. BucketCount : u \in ToSet(q[c])
      BY <2>10
    <3>2. \A u : u \in QueueOf(rs) <=> u \in QueueOf(bs) /\ u # out
      BY <2>9, <3>1
    <3> HIDE DEF out
    <3> QED
      BY <3>2
  <2> QED
    BY <2>5, <2>7, <2>8, <2>11 DEF rs
<1> QED
  BY <1>6, <1>7

(* One ticket of p fewer, and nobody else's.                               *)
LEMMA OneLess ==
  ASSUME NEW bs \in BucketSet, NEW rs \in BucketSet, NEW v \in QueueOf(bs),
         QueueOf(rs) = QueueOf(bs) \ {v}, NEW p
  PROVE  /\ p = v.player => HeldIn(bs, p) > 0 /\ HeldIn(rs, p) = HeldIn(bs, p) - 1
         /\ p # v.player => HeldIn(rs, p) = HeldIn(bs, p)
<1> DEFINE S == {u \in QueueOf(bs) : u.player = p}
           T == {u \in QueueOf(rs) : u.player = p}
<1>1. IsFiniteSet(S) /\ HeldIn(bs, p) = Cardinality(S) /\ HeldIn(rs, p) = Cardinality(T)
      /\ Cardinality(S) \in Nat /\ Cardinality(T) \in Nat
  BY HeldFinite DEF HeldIn
<1>2. CASE p = v.player
  <2>1. v \in S /\ T = S \ {v}
    BY <1>2
  <2> HIDE DEF S, T
  <2>2. Cardinality(T) = Cardinality(S) - 1
    BY <1>1, <2>1, FS_RemoveElement
  <2> QED
    BY <1>1, <1>2, <2>2
<1>3. CASE p # v.player
  <2>1. T = S
    BY <1>3
  <2> HIDE DEF S, T
  <2> QED
    BY <1>1, <1>3, <2>1
<1> QED
  BY <1>2, <1>3

(* How often p is named among the first k tickets of s.                    *)
Places(s, p, k) == {j \in 1 .. k : s[j].player = p}
Times(s, p, k)  == Cardinality(Places(s, p, k))

LEMMA OneMoreTime ==
  ASSUME NEW s, NEW p, NEW k \in Nat
  PROVE  /\ Times(s, p, k) \in Nat /\ IsFiniteSet(Places(s, p, k))
         /\ Times(s, p, k + 1) =
              IF s[k + 1].player = p THEN Times(s, p, k) + 1 ELSE Times(s, p, k)
<1> DEFINE A == Places(s, p, k)
           B == Places(s, p, k + 1)
<1>1. A \subseteq 1 .. k /\ IsFiniteSet(1 .. k)
  BY UpToFinite DEF Places
<1>2. IsFiniteSet(A) /\ Cardinality(A) \in Nat
  BY <1>1, FS_Subset, FS_CardinalityType
<1>3. k + 1 \notin A /\ B = IF s[k + 1].player = p THEN A \cup {k + 1} ELSE A
  <2>1. 1 .. k + 1 = (1 .. k) \cup {k + 1} /\ k + 1 \notin 1 .. k
    OBVIOUS
  <2> QED
    BY <2>1 DEF Places
<1> HIDE DEF A, B
<1>4. Cardinality(A \cup {k + 1}) = Cardinality(A) + 1
  BY <1>2, <1>3, FS_AddElement
<1> QED
  BY <1>2, <1>3, <1>4 DEF Times, A, B

(* Of every player RemoveAll takes as many tickets as s names him, or all. *)
Without(q, n) == IF q <= n THEN 0 ELSE q - n

LEMMA AllRemoved ==
  ASSUME NEW bs \in BucketSet, Placed(bs), NEW s \in Seq(Tickets)
  PROVE  LET rs == RemoveAll(bs, s) IN
         /\ rs \in BucketSet /\ Placed(rs)
         /\ QueueOf(rs) \subseteq QueueOf(bs)
         /\ \A u \in QueueOf(bs) :
              (\A k \in DOMAIN s : u.player # s[k].player) => u \in QueueOf(rs)
         /\ \A p : HeldIn(rs, p) = Without(HeldIn(bs, p), Times(s, p, Len(s)))
<1> DEFINE n == Len(s)
           X == {b \in BucketSet : Placed(b)}
           Next1(b, k) == RemoveTicket(b, s[k].player, s[k].mmr)
           P(f) == f = [k \in 0 .. n |-> IF k = 0 THEN bs ELSE Next1(f[k - 1], k)]
           rest == CHOOSE f : P(f)
           F == [p \in X \X (1 .. n) |-> Next1(p[1], p[2])]
<1>1. n \in Nat /\ DOMAIN s = 1 .. n /\ \A k \in 1 .. n : s[k] \in Tickets
  OBVIOUS
<1>2. ASSUME NEW b \in X, NEW k \in 1 .. n
      PROVE  /\ Next1(b, k) \in X
             /\ \/ Next1(b, k) = b /\ \A u \in QueueOf(b) : u.player # s[k].player
                \/ \E u \in QueueOf(b) :
                     u.player = s[k].player /\ QueueOf(Next1(b, k)) = QueueOf(b) \ {u}
  BY <1>1, Removed
<1> HIDE DEF Next1, n
<1>3. \E f : P(f)
  <2>2. \A b \in X, k \in 1 .. n : F[<<b, k>>] = Next1(b, k)
    OBVIOUS
  <2>1. Closed(F, X, n)
    BY <1>2, <2>2 DEF Closed
  <2>3. bs \in X
    OBVIOUS
  <2> HIDE DEF X, F
  <2>4. PICK f : Iterates(f, F, X, bs, n)
    BY <1>1, <2>1, <2>3, FcnExists
  <2>5. ASSUME NEW k \in 0 .. n, k # 0 PROVE F[<<f[k - 1], k>>] = Next1(f[k - 1], k)
    <3>1. k \in 1 .. n /\ k - 1 \in 0 .. n
      BY <1>1, <2>5
    <3>2. f[k - 1] \in X
      BY <3>1, <2>4 DEF Iterates
    <3> QED
      BY <2>2, <3>1, <3>2
  <2>6. ASSUME NEW k \in 0 .. n PROVE f[k] = IF k = 0 THEN bs ELSE Next1(f[k - 1], k)
    <3>1. k # 0 => k \in 1 .. n
      BY <1>1
    <3> QED
      BY <2>4, <2>5, <3>1 DEF Iterates
  <2>7. f = [k \in 0 .. n |-> IF k = 0 THEN bs ELSE Next1(f[k - 1], k)]
    BY <2>4, <2>6 DEF Iterates
  <2> QED
    BY <2>7
<1>4. P(rest)
  <2> HIDE DEF P
  <2> QED
    BY <1>3, Zenon
<1>5. RemoveAll(bs, s) = rest[n]
  BY DEF RemoveAll, n, Next1
<1> HIDE DEF rest
<1> DEFINE Kept(k) == \A u \in QueueOf(bs) :
                        (\A j \in 1 .. k : u.player # s[j].player) => u \in QueueOf(rest[k])
           Lost(k) == \A p : HeldIn(rest[k], p) = Without(HeldIn(bs, p), Times(s, p, k))
           Q(k) == /\ rest[k] \in X /\ QueueOf(rest[k]) \subseteq QueueOf(bs)
                   /\ Kept(k) /\ Lost(k)
           S == {k \in 0 .. n : Q(k)}
<1>6. Q(0)
  <2>1. rest[0] = bs /\ bs \in X
    BY <1>1, <1>4
  <2>2. ASSUME NEW p PROVE HeldIn(bs, p) = Without(HeldIn(bs, p), Times(s, p, 0))
    <3>1. Places(s, p, 0) = {}
      BY DEF Places
    <3>2. Times(s, p, 0) = 0
      BY <3>1, FS_EmptySet DEF Times
    <3>3. HeldIn(bs, p) \in Nat
      BY HeldFinite
    <3> QED
      BY <3>2, <3>3 DEF Without
  <2> HIDE DEF X
  <2> QED
    BY <2>1, <2>2
<1>7. ASSUME NEW k \in 0 .. n - 1, Q(k) PROVE Q(k + 1)
  <2>1. k + 1 \in 1 .. n /\ k + 1 \in 0 .. n /\ k + 1 # 0 /\ (k + 1) - 1 = k /\ k \in Nat
    BY <1>1
  <2> DEFINE c == rest[k]
             d == rest[k + 1]
             q == s[k + 1].player
  <2>2. d = Next1(c, k + 1)
    BY <1>4, <2>1
  <2>3. c \in X /\ QueueOf(c) \subseteq QueueOf(bs) /\ Kept(k) /\ Lost(k)
    BY <1>7
  <2>4. /\ d \in X
        /\ \/ d = c /\ \A u \in QueueOf(c) : u.player # q
           \/ \E u \in QueueOf(c) : u.player = q /\ QueueOf(d) = QueueOf(c) \ {u}
    BY <2>1, <2>2, <2>3, <1>2
  <2>5. c \in BucketSet /\ d \in BucketSet
    BY <2>3, <2>4
  <2>6. QueueOf(d) \subseteq QueueOf(bs)
    BY <2>3, <2>4
  <2>7. Kept(k + 1)
    <3> SUFFICES ASSUME NEW u \in QueueOf(bs), \A j \in 1 .. k + 1 : u.player # s[j].player
                 PROVE  u \in QueueOf(d)
      OBVIOUS
    <3>1. (\A j \in 1 .. k : u.player # s[j].player) /\ u.player # q
      BY <2>1
    <3>2. u \in QueueOf(c)
      BY <3>1, <2>3
    <3> HIDE DEF c, d, q
    <3> QED
      BY <3>1, <3>2, <2>4
  <2>8. ASSUME NEW p PROVE HeldIn(d, p) = Without(HeldIn(bs, p), Times(s, p, k + 1))
    <3>1. /\ HeldIn(c, p) = Without(HeldIn(bs, p), Times(s, p, k))
          /\ HeldIn(c, p) \in Nat /\ HeldIn(bs, p) \in Nat /\ Times(s, p, k) \in Nat
      BY <2>1, <2>3, <2>5, HeldFinite, OneMoreTime
    <3>2. Times(s, p, k + 1) = IF q = p THEN Times(s, p, k) + 1 ELSE Times(s, p, k)
      BY <2>1, OneMoreTime
    <3> HIDE DEF c, d, q
    <3>3. HeldIn(d, p) = IF q = p THEN Without(HeldIn(c, p), 1) ELSE HeldIn(c, p)
      <4>1. CASE d = c /\ \A u \in QueueOf(c) : u.player # q
        <5>1. q = p => HeldIn(c, p) = 0
          <6>1. q = p => {u \in QueueOf(c) : u.player = p} = {}
            BY <4>1
          <6> QED
            BY <6>1, FS_EmptySet DEF HeldIn
        <5> QED
          BY <4>1, <5>1, <3>1 DEF Without
      <4>2. CASE \E u \in QueueOf(c) : u.player = q /\ QueueOf(d) = QueueOf(c) \ {u}
        <5>1. PICK u \in QueueOf(c) : u.player = q /\ QueueOf(d) = QueueOf(c) \ {u}
          BY <4>2
        <5>2. /\ p = q => HeldIn(c, p) > 0 /\ HeldIn(d, p) = HeldIn(c, p) - 1
              /\ p # q => HeldIn(d, p) = HeldIn(c, p)
          BY <5>1, <2>5, OneLess
        <5> QED
          BY <5>2, <3>1 DEF Without
      <4> QED
        BY <4>1, <4>2, <2>4
    <3> QED
      BY <3>1, <3>2, <3>3 DEF Without
  <2> HIDE DEF X
  <2> QED
    BY <2>4, <2>6, <2>7, <2>8
<1> HIDE DEF Kept, Lost
<1>8. n \in S
  <2>1. 0 \in S
    BY <1>1, <1>6
  <2>2. \A k \in 0 .. n - 1 : k \in S => k + 1 \in S
    BY <1>1, <1>7
  <2> HIDE DEF S
  <2> QED
    BY <1>1, <2>1, <2>2, UpTo
<1> QED
  BY <1>1, <1>5, <1>8 DEF Kept, Lost, n

LEMMA Filtered ==
  ASSUME NEW s \in Seq(Tickets), NEW K, Distinct(s)
  PROVE  LET r == Filter(s, K) IN
         /\ r \in Seq(Tickets) /\ Distinct(r)
         /\ ToSet(r) = ToSet(s) \cap K
<1> DEFINE n == Len(s)
           X == Seq(Tickets)
           Next1(r, k) == IF s[k] \in K THEN Append(r, s[k]) ELSE r
           P(f) == f = [k \in 0 .. n |-> IF k = 0 THEN <<>> ELSE Next1(f[k - 1], k)]
           found == CHOOSE f : P(f)
           F == [p \in X \X (1 .. n) |-> Next1(p[1], p[2])]
<1>1. n \in Nat /\ DOMAIN s = 1 .. n /\ \A k \in 1 .. n : s[k] \in Tickets
  OBVIOUS
<1>2. ASSUME NEW r \in X, NEW k \in 1 .. n PROVE Next1(r, k) \in X
  BY <1>1
<1>3. Filter(s, K) = found[n]
  BY DEF Filter
<1> HIDE DEF Next1, n
<1>4. \E f : P(f)
  <2>1. \A r \in X, k \in 1 .. n : F[<<r, k>>] = Next1(r, k)
    OBVIOUS
  <2>2. Closed(F, X, n)
    BY <1>2, <2>1 DEF Closed
  <2>3. <<>> \in X
    OBVIOUS
  <2> HIDE DEF X, F
  <2>4. PICK f : Iterates(f, F, X, <<>>, n)
    BY <1>1, <2>2, <2>3, FcnExists
  <2>5. ASSUME NEW k \in 0 .. n PROVE f[k] = IF k = 0 THEN <<>> ELSE Next1(f[k - 1], k)
    <3>1. k # 0 => k \in 1 .. n /\ k - 1 \in 0 .. n
      BY <1>1
    <3> QED
      BY <2>1, <2>4, <3>1 DEF Iterates
  <2>6. f = [k \in 0 .. n |-> IF k = 0 THEN <<>> ELSE Next1(f[k - 1], k)]
    BY <2>4, <2>5 DEF Iterates
  <2> QED
    BY <2>6
<1>5. P(found)
  <2> HIDE DEF P
  <2> QED
    BY <1>4, Zenon
<1> HIDE DEF found
<1> DEFINE Q(k) == /\ found[k] \in Seq(Tickets) /\ Distinct(found[k])
                   /\ ToSet(found[k]) = {s[j] : j \in 1 .. k} \cap K
           S == {k \in 0 .. n : Q(k)}
<1>6. Q(0)
  <2>1. found[0] = <<>>
    BY <1>1, <1>5
  <2> QED
    BY <2>1 DEF Distinct, ToSet
<1>7. ASSUME NEW k \in 0 .. n - 1, Q(k) PROVE Q(k + 1)
  <2> DEFINE r == found[k]
  <2>1. k + 1 \in 1 .. n /\ k + 1 \in 0 .. n /\ k + 1 # 0 /\ (k + 1) - 1 = k /\ k \in Nat
    BY <1>1
  <2>2. found[k + 1] = IF s[k + 1] \in K THEN Append(r, s[k + 1]) ELSE r
    BY <1>5, <2>1 DEF Next1
  <2>3. {s[j] : j \in 1 .. k + 1} = {s[j] : j \in 1 .. k} \cup {s[k + 1]}
    BY <2>1
  <2>4. CASE s[k + 1] \in K
    <3> DEFINE q == Append(r, s[k + 1])
    <3>1. /\ q \in Seq(Tickets) /\ DOMAIN q = 1 .. Len(r) + 1 /\ q[Len(r) + 1] = s[k + 1]
          /\ DOMAIN r = 1 .. Len(r) /\ Len(r) \in Nat
          /\ \A i \in 1 .. Len(r) : q[i] = r[i]
      BY <2>1, <1>1, <1>7
    <3> HIDE DEF q
    <3>2. ToSet(q) = ToSet(r) \cup {s[k + 1]}
      BY <3>1 DEF ToSet
    <3>3. ASSUME NEW i \in 1 .. Len(r) PROVE r[i] # s[k + 1]
      <4>1. r[i] \in ToSet(r)
        BY <3>1 DEF ToSet
      <4>2. PICK j \in 1 .. k : r[i] = s[j]
        BY <4>1, <1>7
      <4>3. j \in 1 .. n /\ j # k + 1
        BY <2>1, <1>1
      <4> QED
        BY <4>2, <4>3, <2>1, <1>1 DEF Distinct
    <3>4. Distinct(q)
      <4> SUFFICES ASSUME NEW i \in 1 .. Len(r) + 1, NEW j \in 1 .. Len(r) + 1,
                          q[i] = q[j]
                   PROVE  i = j
        BY <3>1 DEF Distinct
      <4>1. CASE i \in 1 .. Len(r) /\ j \in 1 .. Len(r)
        BY <4>1, <3>1, <1>7 DEF Distinct
      <4>2. CASE i = Len(r) + 1 \/ j = Len(r) + 1
        BY <4>2, <3>1, <3>3
      <4> QED
        BY <4>1, <4>2, <3>1
    <3> QED
      BY <2>2, <2>3, <2>4, <3>1, <3>2, <3>4, <1>7 DEF q
  <2>5. CASE s[k + 1] \notin K
    BY <2>2, <2>3, <2>5, <1>7
  <2> QED
    BY <2>4, <2>5
<1> HIDE DEF Q
<1>8. n \in S
  <2>1. 0 \in S
    BY <1>1, <1>6
  <2>2. \A k \in 0 .. n - 1 : k \in S => k + 1 \in S
    BY <1>1, <1>7
  <2> HIDE DEF S
  <2> QED
    BY <1>1, <2>1, <2>2, UpTo
<1>9. ToSet(s) = {s[j] : j \in 1 .. n}
  BY <1>1 DEF ToSet
<1> QED
  BY <1>3, <1>8, <1>9 DEF Q

LEMMA Joined ==
  ASSUME NEW s \in Seq(Tickets), NEW t \in Seq(Tickets), Distinct(s), Distinct(t),
         \A i \in DOMAIN s, j \in DOMAIN t : s[i] # t[j]
  PROVE  s \o t \in Seq(Tickets) /\ Distinct(s \o t) /\ ToSet(s \o t) = ToSet(s) \cup ToSet(t)
<1> DEFINE r == s \o t
           m == Len(s)
           n == Len(t)
<1>1. /\ m \in Nat /\ n \in Nat /\ DOMAIN s = 1 .. m /\ DOMAIN t = 1 .. n
      /\ r \in Seq(Tickets) /\ DOMAIN r = 1 .. m + n
      /\ \A i \in 1 .. m : r[i] = s[i]
      /\ \A i \in 1 .. n : r[m + i] = t[i]
  OBVIOUS
<1> HIDE DEF r, m, n
<1>2. ASSUME NEW i \in 1 .. m + n
      PROVE  i \in 1 .. m \/ (i - m \in 1 .. n /\ r[i] = t[i - m])
  BY <1>1
<1>3. Distinct(r)
  <2> SUFFICES ASSUME NEW i \in 1 .. m + n, NEW j \in 1 .. m + n, r[i] = r[j]
               PROVE  i = j
    BY <1>1 DEF Distinct
  <2>1. CASE i \in 1 .. m /\ j \in 1 .. m
    BY <2>1, <1>1 DEF Distinct
  <2>2. CASE i \notin 1 .. m /\ j \notin 1 .. m
    <3>1. /\ i - m \in DOMAIN t /\ j - m \in DOMAIN t
          /\ t[i - m] = t[j - m]
      BY <2>2, <1>1, <1>2
    <3>2. i - m = j - m
      BY <3>1 DEF Distinct
    <3> QED
      BY <3>2, <1>1
  <2>3. CASE i \in 1 .. m /\ j \notin 1 .. m
    <3>1. r[i] = s[i] /\ j - m \in 1 .. n /\ r[j] = t[j - m]
      BY <2>3, <1>1, <1>2
    <3> QED
      BY <3>1, <2>3, <1>1
  <2>4. CASE i \notin 1 .. m /\ j \in 1 .. m
    <3>1. r[j] = s[j] /\ i - m \in 1 .. n /\ r[i] = t[i - m]
      BY <2>4, <1>1, <1>2
    <3> QED
      BY <3>1, <2>4, <1>1
  <2> QED
    BY <2>1, <2>2, <2>3, <2>4
<1>4. ToSet(r) = ToSet(s) \cup ToSet(t)
  <2>1. ASSUME NEW x \in ToSet(r) PROVE x \in ToSet(s) \cup ToSet(t)
    <3>1. PICK i \in 1 .. m + n : x = r[i]
      BY <1>1 DEF ToSet
    <3>2. CASE i \in 1 .. m
      BY <3>1, <3>2, <1>1 DEF ToSet
    <3>3. CASE i - m \in 1 .. n /\ r[i] = t[i - m]
      BY <3>1, <3>3, <1>1 DEF ToSet
    <3> QED
      BY <3>2, <3>3, <1>2
  <2>2. ASSUME NEW x \in ToSet(s) PROVE x \in ToSet(r)
    <3>1. PICK i \in 1 .. m : x = s[i]
      BY <1>1 DEF ToSet
    <3>2. i \in 1 .. m + n
      BY <1>1
    <3> QED
      BY <3>1, <3>2, <1>1 DEF ToSet
  <2>3. ASSUME NEW x \in ToSet(t) PROVE x \in ToSet(r)
    <3>1. PICK i \in 1 .. n : x = t[i]
      BY <1>1 DEF ToSet
    <3>2. m + i \in 1 .. m + n
      BY <1>1
    <3> QED
      BY <3>1, <3>2, <1>1 DEF ToSet
  <2> QED
    BY <2>1, <2>2, <2>3
<1> QED
  BY <1>1, <1>3, <1>4 DEF r

(* The elements of the sequences q[l], l in A. *)
ElementsOf(q, A) == UNION {ToSet(q[l]) : l \in A}

LEMMA OneMore ==
  ASSUME NEW A, NEW x, NEW q
  PROVE  ElementsOf(q, A \cup {x}) = ElementsOf(q, A) \cup ToSet(q[x])
<1>1. \A B, e : e \in ElementsOf(q, B) <=> \E l \in B : e \in ToSet(q[l])
  BY DEF ElementsOf
<1>2. \A e : e \in ElementsOf(q, A \cup {x}) <=> e \in ElementsOf(q, A) \/ e \in ToSet(q[x])
  BY <1>1
<1> QED
  BY <1>2

LEMMA Flattened ==
  ASSUME NEW m \in Nat \ {0}, NEW q \in [1 .. m -> Seq(Tickets)],
         \A k, l \in 1 .. m : \A i \in DOMAIN q[k], j \in DOMAIN q[l] :
           q[k][i] = q[l][j] => k = l /\ i = j
  PROVE  /\ FlattenSeq(q) \in Seq(Tickets) /\ Distinct(FlattenSeq(q))
         /\ ToSet(FlattenSeq(q)) = ElementsOf(q, 1 .. m)
<1> DEFINE X == Seq(Tickets)
           Next1(r, k) == r \o q[k]
           P(f) == f = [k \in 1 .. m |-> IF k = 1 THEN q[k] ELSE Next1(f[k - 1], k)]
           flatten == CHOOSE f : P(f)
           F == [p \in X \X (1 .. m - 1) |-> Next1(p[1], p[2] + 1)]
<1>1. \A k \in 1 .. m : q[k] \in X /\ Distinct(q[k])
  BY DEF Distinct
<1>2. ASSUME NEW r \in X, NEW k \in 1 .. m PROVE Next1(r, k) \in X
  BY <1>1
<1>3. FlattenSeq(q) = flatten[m]
  <2>1. Len(q) = m
    OBVIOUS
  <2> QED
    BY <2>1 DEF FlattenSeq
<1> HIDE DEF Next1
<1>4. \E f : P(f)
  <2>1. \A r \in X, k \in 1 .. m - 1 : F[<<r, k>>] = Next1(r, k + 1)
    OBVIOUS
  <2>2. Closed(F, X, m - 1)
    <3>1. \A k \in 1 .. m - 1 : k + 1 \in 1 .. m
      OBVIOUS
    <3> QED
      BY <1>2, <2>1, <3>1 DEF Closed
  <2>3. q[1] \in X /\ m - 1 \in Nat
    OBVIOUS
  <2> HIDE DEF X, F
  <2>4. PICK g : Iterates(g, F, X, q[1], m - 1)
    BY <2>2, <2>3, FcnExists
  <2> DEFINE f == [k \in 1 .. m |-> g[k - 1]]
  <2>5. ASSUME NEW k \in 1 .. m PROVE f[k] = IF k = 1 THEN q[k] ELSE Next1(f[k - 1], k)
    <3>1. CASE k = 1
      BY <3>1, <2>4 DEF Iterates
    <3>2. CASE k # 1
      <4>1. k - 1 \in 1 .. m - 1 /\ k - 1 \in 1 .. m /\ (k - 1) - 1 \in 0 .. m - 1 /\ (k - 1) + 1 = k
        BY <3>2
      <4>2. g[(k - 1) - 1] \in X
        BY <4>1, <2>4 DEF Iterates
      <4>3. g[k - 1] = F[<<g[(k - 1) - 1], k - 1>>]
        BY <4>1, <2>4 DEF Iterates
      <4>4. g[k - 1] = Next1(g[(k - 1) - 1], k)
        BY <4>1, <4>2, <4>3, <2>1
      <4> QED
        BY <3>2, <4>1, <4>4
    <3> QED
      BY <3>1, <3>2
  <2>6. f = [k \in 1 .. m |-> IF k = 1 THEN q[k] ELSE Next1(f[k - 1], k)]
    BY <2>5
  <2> HIDE DEF f
  <2> QED
    BY <2>6
<1>5. P(flatten)
  <2> HIDE DEF P
  <2> QED
    BY <1>4, Zenon
<1> HIDE DEF flatten
<1> DEFINE Q(k) == /\ flatten[k + 1] \in Seq(Tickets) /\ Distinct(flatten[k + 1])
                   /\ ToSet(flatten[k + 1]) = ElementsOf(q, 1 .. k + 1)
           S == {k \in 0 .. m - 1 : Q(k)}
<1>6. Q(0)
  <2>1. flatten[0 + 1] = q[1] /\ 1 .. 0 + 1 = {1} /\ 1 \in 1 .. m
    BY <1>5
  <2>2. ElementsOf(q, {1}) = ToSet(q[1])
    BY DEF ElementsOf
  <2> QED
    BY <2>1, <2>2, <1>1
<1>7. ASSUME NEW k \in 0 .. (m - 1) - 1, Q(k) PROVE Q(k + 1)
  <2>1. /\ k + 1 \in 1 .. m /\ (k + 1) + 1 \in 1 .. m /\ (k + 1) + 1 # 1
        /\ ((k + 1) + 1) - 1 = k + 1 /\ 1 .. (k + 1) + 1 = (1 .. k + 1) \cup {(k + 1) + 1}
        /\ 1 .. k + 1 \subseteq 1 .. m /\ (k + 1) + 1 \notin 1 .. k + 1
    OBVIOUS
  <2> DEFINE s == flatten[k + 1]
             t == q[(k + 1) + 1]
  <2>2. flatten[(k + 1) + 1] = s \o t
    BY <1>5, <2>1 DEF Next1
  <2>3. ASSUME NEW i \in DOMAIN s, NEW j \in DOMAIN t PROVE s[i] # t[j]
    <3>1. s[i] \in ToSet(s)
      BY DEF ToSet
    <3>2. PICK l \in 1 .. k + 1 : s[i] \in ToSet(q[l])
      BY <3>1, <1>7 DEF ElementsOf
    <3>3. PICK h \in DOMAIN q[l] : s[i] = q[l][h]
      BY <3>2 DEF ToSet
    <3>4. l \in 1 .. m /\ l # (k + 1) + 1
      BY <2>1
    <3> QED
      BY <3>3, <3>4, <2>1
  <2>4. s \o t \in Seq(Tickets) /\ Distinct(s \o t) /\ ToSet(s \o t) = ToSet(s) \cup ToSet(t)
    BY <2>1, <2>3, <1>1, <1>7, Joined
  <2>5. ElementsOf(q, 1 .. (k + 1) + 1)
        = ElementsOf(q, 1 .. k + 1) \cup ToSet(q[(k + 1) + 1])
    <3>1. 1 .. (k + 1) + 1 = (1 .. k + 1) \cup {(k + 1) + 1}
      BY <2>1
    <3> QED
      BY <3>1, OneMore
  <2> QED
    BY <2>2, <2>4, <2>5, <1>7
<1> HIDE DEF Q
<1>8. m - 1 \in S
  <2>1. 0 \in S
    BY <1>6
  <2>2. \A k \in 0 .. (m - 1) - 1 : k \in S => k + 1 \in S
    BY <1>7
  <2> DEFINE top == m - 1
  <2>3. top \in Nat
    OBVIOUS
  <2> HIDE DEF S, top
  <2>4. \A k \in 0 .. top - 1 : k \in S => k + 1 \in S
    BY <2>2 DEF top
  <2>5. \A k \in 0 .. top : k \in S
    BY <2>1, <2>3, <2>4, UpTo
  <2> QED
    BY <2>3, <2>5 DEF top
<1>9. (m - 1) + 1 = m
  OBVIOUS
<1> QED
  BY <1>3, <1>8, <1>9 DEF Q

Span == (MatchRange + BucketSize - 1) \div BucketSize

LEMMA DivMod ==
  ASSUME NEW a \in Nat, NEW b \in Nat \ {0}
  PROVE  /\ a \div b \in Nat
         /\ b * (a \div b) <= a /\ a < b * (a \div b) + b
OBVIOUS

LEMMA Multiply ==
  ASSUME NEW a \in Nat, NEW b \in Nat, NEW c \in Nat, a <= b
  PROVE  c * a <= c * b
OBVIOUS

(* MMRs in range are at most Span buckets apart. *)
LEMMA FewBuckets ==
  ASSUME NEW a \in Nat, NEW b \in Nat, a <= b, b - a <= MatchRange
  PROVE  /\ Span \in Nat
         /\ GetBucketIndex(a) <= GetBucketIndex(b)
         /\ GetBucketIndex(b) <= GetBucketIndex(a) + Span
<1> DEFINE B == BucketSize
           qa == a \div B
           qb == b \div B
<1>1. B \in Nat \ {0} /\ B \in Nat /\ MatchRange \in Nat /\ BucketCount \in Nat \ {0}
  BY BucketsAssumption
<1>2. Span \in Nat /\ MatchRange <= B * Span
  <2>1. MatchRange + B - 1 \in Nat
    BY <1>1
  <2>2. Span \in Nat /\ MatchRange + B - 1 < B * Span + B
    BY <1>1, <2>1, DivMod DEF Span
  <2>3. B * Span \in Nat
    BY <1>1, <2>2
  <2> QED
    BY <1>1, <2>2, <2>3
<1>3. qa \in Nat /\ B * qa <= a /\ a < B * qa + B
  BY <1>1, DivMod
<1>4. qb \in Nat /\ B * qb <= b /\ b < B * qb + B
  BY <1>1, DivMod
<1> HIDE DEF B, qa, qb
<1>5. qa <= qb
  <2> SUFFICES ASSUME qb + 1 <= qa PROVE FALSE
    BY <1>3, <1>4
  <2>1. B * (qb + 1) <= B * qa
    BY <1>1, <1>3, <1>4, Multiply
  <2>2. B * (qb + 1) = B * qb + B /\ B * qa \in Nat /\ B * qb \in Nat
    BY <1>1, <1>3, <1>4
  <2> QED
    BY <2>1, <2>2, <1>1, <1>3, <1>4
<1>6. qb <= qa + Span
  <2> SUFFICES ASSUME qa + Span + 1 <= qb PROVE FALSE
    BY <1>2, <1>3, <1>4
  <2>1. B * (qa + Span + 1) <= B * qb
    BY <1>1, <1>2, <1>3, <1>4, Multiply
  <2>2. B * (qa + Span + 1) = B * qa + B * Span + B
    BY <1>1, <1>2, <1>3
  <2>3. B * qa \in Nat /\ B * qb \in Nat /\ B * Span \in Nat
    BY <1>1, <1>2, <1>3, <1>4
  <2> QED
    BY <2>1, <2>2, <2>3, <1>1, <1>2, <1>3, <1>4
<1>7. /\ GetBucketIndex(a) = 1 + Least(qa, BucketCount - 1)
      /\ GetBucketIndex(b) = 1 + Least(qb, BucketCount - 1)
  BY DEF GetBucketIndex, qa, qb, B
<1> QED
  BY <1>1, <1>2, <1>3, <1>4, <1>5, <1>6, <1>7 DEF Least

(* CollectCandidates finds the tickets in range, each once. *)
LEMMA Candidates ==
  ASSUME buckets \in BucketSet, Placed(buckets), NEW m \in Nat
  PROVE  LET found == CollectCandidates(m) IN
         /\ found \in Seq(Tickets) /\ Distinct(found)
         /\ ToSet(found) = {u \in Queue : Distance(u.mmr, m) <= MatchRange}
<1> DEFINE center == GetBucketIndex(m)
           from == Greatest(center - Span, 1)
           upTo == Least(center + Span, BucketCount)
           n == upTo - from + 1
           q == [k \in 1 .. n |-> buckets[from + k - 1]]
           near == FlattenSeq(q)
           K == {t \in Tickets : Distance(t.mmr, m) <= MatchRange}
<1>1. CollectCandidates(m) = Filter(near, K)
  BY DEF CollectCandidates, Span
<1>2. Span \in Nat
  <2>1. m <= m /\ m - m <= MatchRange
    BY BucketsAssumption
  <2> QED
    BY <2>1, FewBuckets
<1>3. /\ center \in 1 .. BucketCount /\ BucketCount \in Nat
  BY BucketRange, BucketsAssumption
<1> HIDE DEF center
<1>4. /\ from \in 1 .. center /\ upTo \in center .. BucketCount
      /\ n \in Nat \ {0}
      /\ \A c \in 1 .. BucketCount : center - Span <= c /\ c <= center + Span
                                       => c \in from .. upTo
  BY <1>2, <1>3 DEF Greatest, Least
<1> HIDE DEF from, upTo
<1>5. \A k \in 1 .. n : from + k - 1 \in 1 .. BucketCount
  BY <1>2, <1>3, <1>4
<1>6. q \in [1 .. n -> Seq(Tickets)] /\ \A k \in 1 .. n : q[k] = buckets[from + k - 1]
  BY <1>5 DEF BucketSet
<1>7. ASSUME NEW k \in 1 .. n, NEW l \in 1 .. n, NEW i \in DOMAIN q[k], NEW j \in DOMAIN q[l],
             q[k][i] = q[l][j]
      PROVE  k = l /\ i = j
  <2>1. from + k - 1 = from + l - 1 /\ i = j
    BY <1>5, <1>6, <1>7 DEF Placed
  <2> QED
    BY <2>1, <1>3, <1>4
<1> HIDE DEF q
<1>8. near \in Seq(Tickets) /\ Distinct(near) /\ ToSet(near) = ElementsOf(q, 1 .. n)
  <2> HIDE DEF n
  <2> QED
    BY <1>4, <1>6, <1>7, Flattened
<1> HIDE DEF near
<1>9. /\ Filter(near, K) \in Seq(Tickets) /\ Distinct(Filter(near, K))
      /\ ToSet(Filter(near, K)) = ToSet(near) \cap K
  <2> HIDE DEF K
  <2> QED
    BY <1>8, Filtered
<1>10. ASSUME NEW u \in ToSet(near) PROVE u \in Queue
  <2>1. PICK k \in 1 .. n : u \in ToSet(q[k])
    BY <1>8 DEF ElementsOf
  <2>2. from + k - 1 \in 1 .. BucketCount /\ u \in ToSet(buckets[from + k - 1])
    BY <2>1, <1>5, <1>6
  <2> QED
    BY <2>2 DEF Queue, ToSet
<1>11. ASSUME NEW u \in Queue, Distance(u.mmr, m) <= MatchRange
       PROVE  u \in ToSet(near) /\ u \in Tickets
  <2>1. PICK c \in 1 .. BucketCount : \E i \in DOMAIN buckets[c] : u = buckets[c][i]
    BY DEF Queue
  <2>2. u \in Tickets /\ GetBucketIndex(u.mmr) = c /\ u \in ToSet(buckets[c])
    BY <2>1 DEF BucketSet, Placed, ToSet
  <2>3. u.mmr \in Nat
    BY <2>2, MmrAssumption
  <2>4. center - Span <= c /\ c <= center + Span
    <3>1. CASE u.mmr <= m
      <4>1. m - u.mmr <= MatchRange
        BY <3>1, <1>11 DEF Distance
      <4>2. c <= center /\ center <= c + Span
        BY <3>1, <4>1, <2>2, <2>3, FewBuckets DEF center
      <4> QED
        BY <4>2, <1>2, <1>3
    <3>2. CASE ~(u.mmr <= m)
      <4>1. m <= u.mmr /\ u.mmr - m <= MatchRange
        BY <3>2, <2>3, <1>11 DEF Distance
      <4>2. center <= c /\ c <= center + Span
        BY <4>1, <2>2, <2>3, FewBuckets DEF center
      <4> QED
        BY <4>2, <1>2, <1>3
    <3> QED
      BY <3>1, <3>2
  <2>5. c - from + 1 \in 1 .. n /\ from + (c - from + 1) - 1 = c
    BY <2>4, <1>3, <1>4
  <2>6. q[c - from + 1] = buckets[c]
    BY <2>5, <1>6
  <2>7. u \in ToSet(near)
    <3> DEFINE k == c - from + 1
    <3>1. k \in 1 .. n /\ u \in ToSet(q[k])
      BY <2>2, <2>5, <2>6
    <3> HIDE DEF k, n
    <3> QED
      BY <3>1, <1>8 DEF ElementsOf
  <2> QED
    BY <2>2, <2>7
<1> QED
  BY <1>1, <1>9, <1>10, <1>11

-----------------------------------------------------------------------------
(* Forming two teams.                                                      *)

Forms ==
  {f \in [ok : BOOLEAN, pool : Seq(Tickets), teamA : Seq(Sides), teamB : Seq(Sides),
          sumA : Nat, sumB : Nat] : Distinct(f.pool)}

LEMMA Chosen ==
  ASSUME NEW pool \in Seq(Tickets), NEW position
  PROVE  LET i == ChoiceFor(pool, position) IN
         i = 0 \/ (i \in 1 .. Len(pool) /\ Accepts(pool[i], position))
<1> DEFINE P(I) == IF I # {} THEN Min(I) ELSE 0
           I1 == {i \in 1 .. Len(pool) : pool[i].primary = position}
           I2 == {i \in 1 .. Len(pool) : pool[i].secondary = position}
           I3 == {i \in 1 .. Len(pool) : pool[i].primary = None}
<1>1. \A I \in SUBSET Nat : P(I) = 0 \/ P(I) \in I
  BY FirstOf
<1>2. ChoiceFor(pool, position) = IF P(I1) # 0 THEN P(I1) ELSE IF P(I2) # 0 THEN P(I2) ELSE P(I3)
  BY DEF ChoiceFor, SelectInSeq
<1>3. I1 \in SUBSET Nat /\ I2 \in SUBSET Nat /\ I3 \in SUBSET Nat
  OBVIOUS
<1>4. \A i \in I1 \cup I2 \cup I3 : i \in 1 .. Len(pool) /\ Accepts(pool[i], position)
  BY DEF Accepts
<1> HIDE DEF P, I1, I2, I3
<1> QED
  BY <1>1, <1>2, <1>3, <1>4

Adds(f, g, position, a, b) ==
  /\ a \in ToSet(f.pool) /\ b \in ToSet(f.pool) /\ a # b
  /\ Accepts(a, position) /\ Accepts(b, position)
  /\ g.teamA = Append(f.teamA, [ticket |-> a, position |-> position])
  /\ g.teamB = Append(f.teamB, [ticket |-> b, position |-> position])
  /\ g.sumA = f.sumA + a.mmr /\ g.sumB = f.sumB + b.mmr
  /\ ToSet(g.pool) = ToSet(f.pool) \ {a, b}
  /\ IF f.sumA <= f.sumB THEN b.mmr <= a.mmr ELSE a.mmr <= b.mmr

LEMMA Filled ==
  ASSUME NEW f \in Forms, NEW position \in ToSet(Positions)
  PROVE  LET g == FillPosition(f, position) IN
         /\ g \in Forms
         /\ g.ok => f.ok /\ \E a, b \in Tickets : Adds(f, g, position, a, b)
<1> DEFINE g == FillPosition(f, position)
           i == ChoiceFor(f.pool, position)
           rest == SwapOut(f.pool, i)
           j == ChoiceFor(rest, position)
           first == f.pool[i]
           second == rest[j]
           last1 == SwapOut(rest, j)
           fa == Assign(f, first, second, position)
<1>1. f.pool \in Seq(Tickets) /\ Distinct(f.pool)
  BY DEF Forms
<1>2. g = IF ~f.ok \/ i = 0 \/ j = 0 THEN [f EXCEPT !.ok = FALSE]
          ELSE [fa EXCEPT !.pool = last1]
  BY DEF FillPosition
<1>3. CASE ~f.ok \/ i = 0 \/ j = 0
  <2>1. g = [f EXCEPT !.ok = FALSE]
    BY <1>2, <1>3
  <2> HIDE DEF g
  <2>2. g \in Forms /\ ~g.ok
    BY <2>1 DEF Forms
  <2> QED
    BY <2>2 DEF g
<1>4. CASE ~(~f.ok \/ i = 0 \/ j = 0)
  <2>1. g = [fa EXCEPT !.pool = last1]
    BY <1>2, <1>4
  <2>2. i \in 1 .. Len(f.pool) /\ Accepts(first, position)
    BY <1>1, <1>4, Chosen
  <2> HIDE DEF g, i
  <2>3. rest \in Seq(Tickets) /\ Distinct(rest) /\ ToSet(rest) = ToSet(f.pool) \ {first}
    BY <1>1, <2>2, Swapped
  <2> HIDE DEF rest
  <2>4. j \in 1 .. Len(rest) /\ Accepts(second, position)
    BY <1>4, <2>3, Chosen
  <2> HIDE DEF j
  <2>5. last1 \in Seq(Tickets) /\ Distinct(last1) /\ ToSet(last1) = ToSet(rest) \ {second}
    BY <2>3, <2>4, Swapped
  <2> HIDE DEF last1
  <2>6. /\ first \in Tickets /\ second \in Tickets
        /\ first \in ToSet(f.pool) /\ second \in ToSet(f.pool) /\ second # first
    <3>1. first \in Tickets /\ first \in ToSet(f.pool)
      BY <1>1, <2>2 DEF ToSet
    <3>2. second \in Tickets /\ second \in ToSet(rest)
      BY <2>3, <2>4 DEF ToSet
    <3> QED
      BY <3>1, <3>2, <2>3
  <2>8. first.mmr \in Nat /\ second.mmr \in Nat
    BY <2>6, MmrAssumption
  <2> HIDE DEF first, second
  <2>9. \E a, b \in {first, second} :
          /\ a # b
          /\ IF f.sumA <= f.sumB THEN b.mmr <= a.mmr ELSE a.mmr <= b.mmr
          /\ fa = [f EXCEPT !.teamA = Append(@, [ticket |-> a, position |-> position]),
                            !.teamB = Append(@, [ticket |-> b, position |-> position]),
                            !.sumA = @ + a.mmr, !.sumB = @ + b.mmr]
    <3> DEFINE Made(a, b) == [f EXCEPT !.teamA = Append(@, [ticket |-> a, position |-> position]),
                            !.teamB = Append(@, [ticket |-> b, position |-> position]),
                            !.sumA = @ + a.mmr, !.sumB = @ + b.mmr]
               high == IF first.mmr < second.mmr THEN second ELSE first
               low  == IF first.mmr < second.mmr THEN first ELSE second
               a == IF f.sumA <= f.sumB THEN high ELSE low
               b == IF f.sumA <= f.sumB THEN low ELSE high
    <3>1. fa = Made(a, b)
      BY DEF Assign
    <3>2. low.mmr <= high.mmr /\ low # high /\ low \in {first, second} /\ high \in {first, second}
      BY <2>6, <2>8
    <3> HIDE DEF Made, fa, low, high
    <3>3. /\ a \in {first, second} /\ b \in {first, second} /\ a # b
          /\ IF f.sumA <= f.sumB THEN b.mmr <= a.mmr ELSE a.mmr <= b.mmr
      BY <3>2
    <3> HIDE DEF a, b
    <3> QED
      BY <3>1, <3>3 DEF Made
  <2>10. PICK a \in {first, second}, b \in {first, second} :
          /\ a # b
          /\ IF f.sumA <= f.sumB THEN b.mmr <= a.mmr ELSE a.mmr <= b.mmr
          /\ fa = [f EXCEPT !.teamA = Append(@, [ticket |-> a, position |-> position]),
                            !.teamB = Append(@, [ticket |-> b, position |-> position]),
                            !.sumA = @ + a.mmr, !.sumB = @ + b.mmr]
    BY <2>9
  <2> HIDE DEF fa
  <2>11. a \in Tickets /\ b \in Tickets /\ {a, b} = {first, second}
    BY <2>10, <2>6
  <2>12. /\ [ticket |-> a, position |-> position] \in Sides
         /\ [ticket |-> b, position |-> position] \in Sides
    BY <2>11 DEF Sides
  <2>13. /\ g = [ok |-> f.ok, pool |-> last1,
                 teamA |-> Append(f.teamA, [ticket |-> a, position |-> position]),
                 teamB |-> Append(f.teamB, [ticket |-> b, position |-> position]),
                 sumA |-> f.sumA + a.mmr, sumB |-> f.sumB + b.mmr]
         /\ f.teamA \in Seq(Sides) /\ f.teamB \in Seq(Sides) /\ f.sumA \in Nat /\ f.sumB \in Nat
         /\ f.ok \in BOOLEAN
    BY <2>1, <2>10 DEF Forms
  <2>14. g \in Forms
    BY <2>13, <2>12, <2>11, <2>10, <2>8, <2>5, SMTT(40) DEF Forms
  <2>15. Adds(f, g, position, a, b)
    BY <2>2, <2>3, <2>4, <2>5, <2>6, <2>10, <2>11, <2>13 DEF Adds, first, second
  <2> QED
    BY <1>4, <2>11, <2>14, <2>15 DEF g
<1> QED
  BY <1>3, <1>4

Sound(pool, side, position) ==
  /\ side.ticket \in ToSet(pool) /\ side.position = position
  /\ Accepts(side.ticket, position)

(* h adds up the MMRs of a team. *)
SumsTo(team, k, total) ==
  \E h \in [0 .. k -> Nat] :
    h[0] = 0 /\ h[k] = total /\ \A i \in 1 .. k : h[i] = h[i - 1] + team[i].ticket.mmr

Apart(s, t, k) ==
  /\ \A i, j \in 1 .. k : s[i].ticket = s[j].ticket => i = j
  /\ \A i, j \in 1 .. k : t[i].ticket = t[j].ticket => i = j
  /\ \A i, j \in 1 .. k : s[i].ticket # t[j].ticket

Teams(pool, f, k) ==
  /\ Len(f.teamA) = k /\ Len(f.teamB) = k
  /\ ToSet(f.pool) \subseteq ToSet(pool)
  /\ \A i \in 1 .. k : Sound(pool, f.teamA[i], Positions[i]) /\ Sound(pool, f.teamB[i], Positions[i])
  /\ Apart(f.teamA, f.teamB, k)
  /\ \A i \in 1 .. k, u \in ToSet(f.pool) :
       u # f.teamA[i].ticket /\ u # f.teamB[i].ticket
  /\ SumsTo(f.teamA, k, f.sumA) /\ SumsTo(f.teamB, k, f.sumB)

(* No two MMRs of the pool are further apart than w, and neither are the   *)
(* sums of the two teams.                                                  *)
Close(s, w)    == \A u, v \in ToSet(s) : u.mmr <= v.mmr + w
Balanced(f, w) == f.sumA <= f.sumB + w /\ f.sumB <= f.sumA + w

LEMMA OneMoreTotal ==
  ASSUME NEW k \in Nat, NEW total \in Nat, NEW s \in Seq(Sides), Len(s) = k,
         SumsTo(s, k, total), NEW x \in Sides, x.ticket.mmr \in Nat
  PROVE  SumsTo(Append(s, x), k + 1, total + x.ticket.mmr)
<1>1. PICK h \in [0 .. k -> Nat] :
        h[0] = 0 /\ h[k] = total /\ \A i \in 1 .. k : h[i] = h[i - 1] + s[i].ticket.mmr
  BY DEF SumsTo
<1> DEFINE r == Append(s, x)
           m == x.ticket.mmr
           g == [i \in 0 .. k + 1 |-> IF i <= k THEN h[i] ELSE total + m]
<1>2. r[k + 1] = x /\ \A i \in 1 .. k : r[i] = s[i]
  OBVIOUS
<1> HIDE DEF r
<1>3. total + m \in Nat
  OBVIOUS
<1>4. g \in [0 .. k + 1 -> Nat]
  <2> HIDE DEF m
  <2> QED
    BY <1>3
<1>5. g[0] = 0 /\ g[k + 1] = total + m
  BY <1>1
<1>6. ASSUME NEW i \in 1 .. k + 1 PROVE g[i] = g[i - 1] + r[i].ticket.mmr
  <2>1. CASE i <= k
    <3>1. g[i] = h[i] /\ g[i - 1] = h[i - 1] /\ i \in 1 .. k
      BY <2>1
    <3> HIDE DEF g
    <3> QED
      BY <3>1, <1>1, <1>2
  <2>2. CASE i = k + 1
    <3>1. g[i] = total + m /\ g[i - 1] = h[k]
      BY <2>2
    <3> HIDE DEF g
    <3> QED
      BY <3>1, <2>2, <1>1, <1>2
  <2> QED
    BY <2>1, <2>2
<1> HIDE DEF g
<1> QED
  BY <1>4, <1>5, <1>6 DEF SumsTo, r

LEMMA OneMorePosition ==
  ASSUME NEW pool \in Seq(Tickets), NEW k \in Nat, NEW f \in Forms, NEW g \in Forms,
         Teams(pool, f, k), k + 1 \in 1 .. TeamSize,
         NEW a \in Tickets, NEW b \in Tickets, Adds(f, g, Positions[k + 1], a, b)
  PROVE  Teams(pool, g, k + 1)
<1> DEFINE p == Positions[k + 1]
           x == [ticket |-> a, position |-> p]
           y == [ticket |-> b, position |-> p]
           A == f.teamA
           B == f.teamB
<1>1. /\ A \in Seq(Sides) /\ B \in Seq(Sides) /\ Len(A) = k /\ Len(B) = k
      /\ f.sumA \in Nat /\ f.sumB \in Nat /\ Distinct(f.pool)
  BY DEF Forms, Teams
<1>2. a.mmr \in Nat /\ b.mmr \in Nat
  BY MmrAssumption
<1>3. x \in Sides /\ y \in Sides
  <2>1. p \in ToSet(Positions)
    BY PositionsAssumption DEF ToSet, TeamSize
  <2> QED
    BY <2>1 DEF Sides
<1>4. /\ g.teamA = Append(A, x) /\ g.teamB = Append(B, y)
      /\ g.sumA = f.sumA + a.mmr /\ g.sumB = f.sumB + b.mmr
      /\ ToSet(g.pool) = ToSet(f.pool) \ {a, b}
      /\ a \in ToSet(f.pool) /\ b \in ToSet(f.pool) /\ a # b
      /\ Accepts(a, p) /\ Accepts(b, p)
  BY DEF Adds
<1>5. x.ticket = a /\ y.ticket = b /\ x.position = p /\ y.position = p
  OBVIOUS
<1>6. /\ Len(g.teamA) = k + 1 /\ Len(g.teamB) = k + 1
      /\ g.teamA[k + 1] = x /\ g.teamB[k + 1] = y
      /\ \A i \in 1 .. k : g.teamA[i] = A[i] /\ g.teamB[i] = B[i]
  <2> HIDE DEF x, y, A, B
  <2> QED
    BY <1>1, <1>3, <1>4
<1>7. SumsTo(g.teamA, k + 1, g.sumA) /\ SumsTo(g.teamB, k + 1, g.sumB)
  <2>1. SumsTo(A, k, f.sumA) /\ SumsTo(B, k, f.sumB)
    BY DEF Teams
  <2> HIDE DEF x, y, A, B
  <2> QED
    BY <1>1, <1>2, <1>3, <1>4, <1>5, <2>1, OneMoreTotal
<1>8. ToSet(g.pool) \subseteq ToSet(pool) /\ a \in ToSet(pool) /\ b \in ToSet(pool)
  BY <1>4 DEF Teams
<1> HIDE DEF x, y, A, B, p
<1>9. \A i \in 1 .. k + 1 : i \in 1 .. k \/ i = k + 1
  OBVIOUS
<1>10. ASSUME NEW i \in 1 .. k + 1
       PROVE  /\ Sound(pool, g.teamA[i], Positions[i]) /\ Sound(pool, g.teamB[i], Positions[i])
  <2>1. CASE i \in 1 .. k
    BY <2>1, <1>6 DEF Teams, A, B
  <2>2. CASE i = k + 1
    BY <2>2, <1>4, <1>5, <1>6, <1>8 DEF Sound, p
  <2> QED
    BY <2>1, <2>2, <1>9
<1>11. ASSUME NEW i \in 1 .. k
       PROVE  /\ A[i].ticket # a /\ A[i].ticket # b
              /\ B[i].ticket # a /\ B[i].ticket # b
  BY <1>4 DEF Teams, A, B
<1>12. Apart(g.teamA, g.teamB, k + 1)
  <2>1. Apart(A, B, k)
    BY DEF Teams, A, B
  <2>2. \A i \in 1 .. k + 1 :
          /\ i # k + 1 => i \in 1 .. k /\ g.teamA[i] = A[i] /\ g.teamB[i] = B[i]
          /\ i = k + 1 => g.teamA[i].ticket = a /\ g.teamB[i].ticket = b
    BY <1>5, <1>6, <1>9
  <2>3. ASSUME NEW i \in 1 .. k + 1, NEW j \in 1 .. k + 1,
               g.teamA[i].ticket = g.teamA[j].ticket
        PROVE  i = j
    BY <2>1, <2>2, <2>3, <1>11 DEF Apart
  <2>4. ASSUME NEW i \in 1 .. k + 1, NEW j \in 1 .. k + 1,
               g.teamB[i].ticket = g.teamB[j].ticket
        PROVE  i = j
    BY <2>1, <2>2, <2>4, <1>11 DEF Apart
  <2>5. ASSUME NEW i \in 1 .. k + 1, NEW j \in 1 .. k + 1,
               g.teamA[i].ticket = g.teamB[j].ticket
        PROVE  FALSE
    <3>1. CASE i = k + 1 /\ j = k + 1
      BY <2>2, <2>5, <1>4, <3>1
    <3>2. CASE i = k + 1 /\ j # k + 1
      BY <2>2, <2>5, <1>11, <3>2
    <3>3. CASE i # k + 1 /\ j = k + 1
      BY <2>2, <2>5, <1>11, <3>3
    <3>4. CASE i # k + 1 /\ j # k + 1
      BY <2>1, <2>2, <2>5, <3>4 DEF Apart
    <3> QED
      BY <3>1, <3>2, <3>3, <3>4
  <2> QED
    BY <2>3, <2>4, <2>5 DEF Apart
<1>13. ASSUME NEW i \in 1 .. k + 1, NEW u \in ToSet(g.pool)
       PROVE  u # g.teamA[i].ticket /\ u # g.teamB[i].ticket
  <2>1. CASE i \in 1 .. k
    BY <2>1, <1>4, <1>6 DEF Teams, A, B
  <2>2. CASE i = k + 1
    BY <2>2, <1>4, <1>5, <1>6
  <2> QED
    BY <2>1, <2>2, <1>9
<1> QED
  BY <1>6, <1>7, <1>8, <1>10, <1>12, <1>13 DEF Teams

LEMMA StillBalanced ==
  ASSUME NEW pool \in Seq(Tickets), NEW w \in Nat, Close(pool, w),
         NEW f \in Forms, NEW g \in Forms, Balanced(f, w), ToSet(f.pool) \subseteq ToSet(pool),
         NEW a \in Tickets, NEW b \in Tickets, NEW position, Adds(f, g, position, a, b)
  PROVE  Balanced(g, w)
<1>1. a.mmr \in Nat /\ b.mmr \in Nat /\ f.sumA \in Nat /\ f.sumB \in Nat
  BY MmrAssumption DEF Forms
<1>2. a.mmr <= b.mmr + w /\ b.mmr <= a.mmr + w
  BY DEF Adds, Close
<1>3. /\ g.sumA = f.sumA + a.mmr /\ g.sumB = f.sumB + b.mmr
      /\ IF f.sumA <= f.sumB THEN b.mmr <= a.mmr ELSE a.mmr <= b.mmr
  BY DEF Adds
<1>4. f.sumA <= f.sumB + w /\ f.sumB <= f.sumA + w
  BY DEF Balanced
<1>5. CASE f.sumA <= f.sumB
  BY <1>1, <1>2, <1>3, <1>4, <1>5 DEF Balanced
<1>6. CASE ~(f.sumA <= f.sumB)
  BY <1>1, <1>2, <1>3, <1>4, <1>6 DEF Balanced
<1> QED
  BY <1>5, <1>6

LEMMA TeamsFormed ==
  ASSUME NEW pool \in Seq(Tickets), Distinct(pool), NEW w \in Nat, Close(pool, w)
  PROVE  LET f == TryFormMatch(pool) IN
         f \in Forms /\ (f.ok => Teams(pool, f, TeamSize) /\ Balanced(f, w))
<1> DEFINE n == TeamSize
           X == Forms
           start == [ok |-> TRUE, pool |-> pool, teamA |-> <<>>, teamB |-> <<>>,
                     sumA |-> 0, sumB |-> 0]
           Next1(f, k) == FillPosition(f, Positions[k])
           P(g) == g = [k \in 0 .. n |-> IF k = 0 THEN start ELSE Next1(g[k - 1], k)]
           formed == CHOOSE g : P(g)
           F == [p \in X \X (1 .. n) |-> Next1(p[1], p[2])]
<1>1. n \in Nat /\ \A k \in 1 .. n : Positions[k] \in ToSet(Positions)
  BY PositionsAssumption DEF TeamSize, ToSet
<1>2. ASSUME NEW f \in X, NEW k \in 1 .. n
      PROVE  /\ Next1(f, k) \in X
             /\ Next1(f, k).ok => f.ok /\ \E a, b \in Tickets : Adds(f, Next1(f, k), Positions[k], a, b)
  <2>1. Positions[k] \in ToSet(Positions)
    BY <1>1
  <2> QED
    BY <2>1, Filled
<1>3. TryFormMatch(pool) = formed[n]
  BY DEF TryFormMatch
<1>4. start \in Forms /\ start.ok /\ Teams(pool, start, 0) /\ Balanced(start, w)
  <2>1. start \in Forms /\ start.ok
    BY DEF Forms
  <2>2. SumsTo(<<>>, 0, 0)
    <3> DEFINE h == [i \in 0 .. 0 |-> 0]
    <3>1. h \in [0 .. 0 -> Nat] /\ h[0] = 0 /\ \A i \in 1 .. 0 : h[i] = h[i - 1] + <<>>[i].ticket.mmr
      OBVIOUS
    <3> HIDE DEF h
    <3> QED
      BY <3>1 DEF SumsTo
  <2> DEFINE s == start
  <2>3. s.pool = pool /\ s.teamA = <<>> /\ s.teamB = <<>> /\ s.sumA = 0 /\ s.sumB = 0
    OBVIOUS
  <2> HIDE DEF s
  <2>4. Teams(pool, s, 0) /\ Balanced(s, w)
    BY <2>2, <2>3 DEF Teams, Balanced, Apart
  <2> QED
    BY <2>1, <2>4 DEF s
<1> HIDE DEF Next1, n, start
<1>5. \E g : P(g)
  <2>1. \A f \in X, k \in 1 .. n : F[<<f, k>>] = Next1(f, k)
    OBVIOUS
  <2>2. Closed(F, X, n)
    BY <1>2, <2>1 DEF Closed
  <2> HIDE DEF X, F
  <2>3. PICK g : Iterates(g, F, X, start, n)
    BY <1>1, <1>4, <2>2, FcnExists DEF X
  <2>4. ASSUME NEW k \in 0 .. n PROVE g[k] = IF k = 0 THEN start ELSE Next1(g[k - 1], k)
    <3>1. k # 0 => k \in 1 .. n /\ k - 1 \in 0 .. n
      BY <1>1
    <3> QED
      BY <2>1, <2>3, <3>1 DEF Iterates
  <2>5. g = [k \in 0 .. n |-> IF k = 0 THEN start ELSE Next1(g[k - 1], k)]
    BY <2>3, <2>4 DEF Iterates
  <2> QED
    BY <2>5
<1>6. P(formed)
  <2> HIDE DEF P
  <2> QED
    BY <1>5, Zenon
<1> HIDE DEF formed
<1> DEFINE Q(k) == /\ formed[k] \in Forms
                   /\ formed[k].ok => Teams(pool, formed[k], k) /\ Balanced(formed[k], w)
           S == {k \in 0 .. n : Q(k)}
<1>7. Q(0)
  <2>1. formed[0] = start
    BY <1>1, <1>6
  <2> QED
    BY <2>1, <1>4
<1>8. ASSUME NEW k \in 0 .. n - 1, Q(k) PROVE Q(k + 1)
  <2> DEFINE f == formed[k]
             g == formed[k + 1]
  <2>1. k + 1 \in 1 .. n /\ k + 1 \in 0 .. n /\ k + 1 # 0 /\ (k + 1) - 1 = k /\ k \in Nat
    BY <1>1
  <2>2. g = Next1(f, k + 1)
    BY <1>6, <2>1
  <2>3. g \in Forms /\ (g.ok => f.ok /\ \E a, b \in Tickets : Adds(f, g, Positions[k + 1], a, b))
    BY <2>1, <2>2, <1>2, <1>8
  <2>4. ASSUME g.ok PROVE Teams(pool, g, k + 1) /\ Balanced(g, w)
    <3>1. PICK a \in Tickets, b \in Tickets : Adds(f, g, Positions[k + 1], a, b)
      BY <2>3, <2>4
    <3>2. f \in Forms /\ Teams(pool, f, k) /\ Balanced(f, w)
      BY <2>3, <2>4, <1>8
    <3>3. ToSet(f.pool) \subseteq ToSet(pool)
      BY <3>2 DEF Teams
    <3> HIDE DEF f, g
    <3> QED
      BY <2>1, <2>3, <3>1, <3>2, <3>3, OneMorePosition, StillBalanced DEF n
  <2> QED
    BY <2>3, <2>4
<1> HIDE DEF Q
<1>9. n \in S
  <2>1. 0 \in S
    BY <1>1, <1>7
  <2>2. \A k \in 0 .. n - 1 : k \in S => k + 1 \in S
    BY <1>1, <1>8
  <2>3. n \in Nat /\ n \in 0 .. n
    BY <1>1
  <2> HIDE DEF S
  <2>4. \A k \in 0 .. n : k \in S
    BY <2>1, <2>2, <2>3, UpTo
  <2> QED
    BY <2>3, <2>4
<1> QED
  BY <1>3, <1>9 DEF Q, n

(* A sequence of distinct tickets has as many elements as places.          *)
LEMMA Counted ==
  ASSUME NEW s \in Seq(Tickets), Distinct(s)
  PROVE  Cardinality(ToSet(s)) = Len(s)
<1> DEFINE n == Len(s)
           f == [i \in 1 .. n |-> s[i]]
<1>1. n \in Nat /\ DOMAIN s = 1 .. n
  OBVIOUS
<1>2. f \in Surjection(1 .. n, ToSet(s))
  BY <1>1 DEF Surjection, ToSet
<1>3. f \in Injection(1 .. n, ToSet(s))
  <2>1. f \in [1 .. n -> ToSet(s)]
    BY <1>1 DEF ToSet
  <2>2. \A i, j \in 1 .. n : f[i] = f[j] => i = j
    BY <1>1 DEF Distinct
  <2> HIDE DEF f
  <2> QED
    BY <2>1, <2>2 DEF Injection, IsInjective
<1> HIDE DEF n, f
<1>4. IsFiniteSet(1 .. n) /\ Cardinality(1 .. n) = n
  BY <1>1, UpToFinite
<1> QED
  BY <1>2, <1>3, <1>4, FS_Surjection DEF n

(* SumOf is the sum that SumsTo describes. *)
LEMMA SumOfTeam ==
  ASSUME NEW team \in Seq(Sides), Len(team) = TeamSize, NEW total \in Nat,
         SumsTo(team, TeamSize, total)
  PROVE  SumOf(team) = total
<1> DEFINE n == TeamSize
           P(g) == g = [k \in 0 .. n |-> IF k = 0 THEN 0 ELSE g[k - 1] + team[k].ticket.mmr]
           sum == CHOOSE g : P(g)
<1>1. n \in Nat
  BY PositionsAssumption DEF TeamSize
<1>2. PICK h \in [0 .. n -> Nat] :
        h[0] = 0 /\ h[n] = total /\ \A i \in 1 .. n : h[i] = h[i - 1] + team[i].ticket.mmr
  BY DEF SumsTo
<1>3. SumOf(team) = sum[n]
  BY DEF SumOf
<1> HIDE DEF n
<1>4. P(h)
  <2>1. \A k \in 0 .. n : k = 0 \/ k \in 1 .. n
    BY <1>1
  <2> QED
    BY <1>2, <2>1
<1>5. P(sum)
  <2> HIDE DEF P
  <2> QED
    BY <1>4, Zenon
<1> HIDE DEF sum
<1> DEFINE S == {k \in 0 .. n : sum[k] = h[k]}
<1>6. 0 \in S
  BY <1>1, <1>2, <1>5
<1>7. \A k \in 0 .. n - 1 : k \in S => k + 1 \in S
  <2> SUFFICES ASSUME NEW k \in 0 .. n - 1, k \in S PROVE k + 1 \in S
    OBVIOUS
  <2>1. k + 1 \in 0 .. n /\ k + 1 # 0 /\ (k + 1) - 1 = k /\ k + 1 \in 1 .. n
    BY <1>1
  <2>2. sum[k + 1] = sum[k] + team[k + 1].ticket.mmr
    BY <1>5, <2>1
  <2>3. h[k + 1] = h[k] + team[k + 1].ticket.mmr
    BY <1>2, <2>1
  <2> QED
    BY <2>1, <2>2, <2>3
<1>8. n \in 0 .. n
  BY <1>1
<1>9. n \in S
  <2> HIDE DEF S, P
  <2>1. \A k \in 0 .. n : k \in S
    BY <1>1, <1>6, <1>7, UpTo
  <2> QED
    BY <1>8, <2>1
<1> QED
  BY <1>2, <1>3, <1>9

(* The match a seed announces, from a pool of tickets within its range.    *)
Match(s, f) ==
  [seed |-> s, teamA |-> f.teamA, teamB |-> f.teamB, earlier |-> matched]
Matches == [seed : Tickets, teamA : Seq(Sides), teamB : Seq(Sides),
            earlier : SUBSET Players]

LEMMA Announced ==
  ASSUME NEW s \in Tickets, NEW pool \in Seq(Tickets), Distinct(pool),
         matched \subseteq Players,
         \A u \in ToSet(pool) : Distance(u.mmr, s.mmr) <= MatchRange,
         TryFormMatch(pool).ok
  PROVE  LET f == TryFormMatch(pool)
             m == Match(s, f)
         IN /\ m \in Matches
            /\ Len(m.teamA) = TeamSize /\ Len(m.teamB) = TeamSize
            /\ Distance(SumOf(m.teamA), SumOf(m.teamB)) <= 2 * MatchRange
            /\ MembersOf(f) \in Seq(Tickets) /\ DOMAIN MembersOf(f) = 1 .. MatchSize
            /\ \A k \in 1 .. MatchSize :
                 /\ SideOf(m, k).position = Positions[IF k <= TeamSize THEN k ELSE k - TeamSize]
                 /\ Accepts(SideOf(m, k).ticket, SideOf(m, k).position)
                 /\ SideOf(m, k).ticket \in ToSet(pool)
                 /\ SideOf(m, k).ticket = MembersOf(f)[k]
            /\ \A k, l \in 1 .. MatchSize :
                 SideOf(m, k).ticket = SideOf(m, l).ticket => k = l
<1> DEFINE f == TryFormMatch(pool)
           m == Match(s, f)
           n == TeamSize
           w == 2 * MatchRange
<1>1. n \in Nat /\ MatchRange \in Nat /\ w \in Nat /\ MatchSize = 2 * n
  BY PositionsAssumption, BucketsAssumption DEF TeamSize, MatchSize
<1>2. Close(pool, w)
  <2> SUFFICES ASSUME NEW u \in ToSet(pool), NEW v \in ToSet(pool)
               PROVE  u.mmr <= v.mmr + w
    BY DEF Close
  <2>1. u \in Tickets /\ v \in Tickets
    BY DEF ToSet
  <2>2. u.mmr \in Nat /\ v.mmr \in Nat /\ s.mmr \in Nat
    BY <2>1, MmrAssumption
  <2>3. Distance(u.mmr, s.mmr) <= MatchRange /\ Distance(v.mmr, s.mmr) <= MatchRange
    OBVIOUS
  <2> QED
    BY <1>1, <2>2, <2>3 DEF Distance
<1>3. f \in Forms /\ Teams(pool, f, n) /\ Balanced(f, w)
  <2> HIDE DEF w
  <2> QED
    BY <1>1, <1>2, TeamsFormed
<1> HIDE DEF f
<1>4. /\ f.teamA \in Seq(Sides) /\ f.teamB \in Seq(Sides)
      /\ f.sumA \in Nat /\ f.sumB \in Nat
      /\ Len(f.teamA) = n /\ Len(f.teamB) = n
      /\ \A i \in 1 .. n : Sound(pool, f.teamA[i], Positions[i]) /\ Sound(pool, f.teamB[i], Positions[i])
      /\ Apart(f.teamA, f.teamB, n)
      /\ SumsTo(f.teamA, n, f.sumA) /\ SumsTo(f.teamB, n, f.sumB)
  BY <1>3 DEF Forms, Teams
<1>5. m.seed = s /\ m.teamA = f.teamA /\ m.teamB = f.teamB
  BY DEF Match
<1>6. m \in Matches
  BY <1>4 DEF Match, Matches
<1> HIDE DEF m
<1>7. Distance(SumOf(m.teamA), SumOf(m.teamB)) <= w
  <2>1. SumOf(m.teamA) = f.sumA /\ SumOf(m.teamB) = f.sumB
    BY <1>4, <1>5, SumOfTeam
  <2>2. f.sumA <= f.sumB + w /\ f.sumB <= f.sumA + w
    BY <1>3 DEF Balanced
  <2> QED
    BY <1>1, <1>4, <2>1, <2>2 DEF Distance
<1>8. ASSUME NEW k \in 1 .. MatchSize
      PROVE  /\ k <= n => k \in 1 .. n /\ SideOf(m, k) = f.teamA[k]
             /\ ~(k <= n) => k - n \in 1 .. n /\ SideOf(m, k) = f.teamB[k - n]
             /\ MembersOf(f)[k] = SideOf(m, k).ticket
  BY <1>1, <1>5 DEF SideOf, MembersOf
<1>9. ASSUME NEW k \in 1 .. MatchSize
      PROVE  /\ SideOf(m, k).position = Positions[IF k <= n THEN k ELSE k - n]
             /\ Accepts(SideOf(m, k).ticket, SideOf(m, k).position)
             /\ SideOf(m, k).ticket \in ToSet(pool)
             /\ SideOf(m, k).ticket = MembersOf(f)[k]
             /\ MembersOf(f)[k] \in Tickets
  <2> DEFINE i == IF k <= n THEN k ELSE k - n
  <2>1. Sound(pool, SideOf(m, k), Positions[i])
    BY <1>4, <1>8
  <2>2. \A u \in ToSet(pool) : u \in Tickets
    BY DEF ToSet
  <2> QED
    BY <1>8, <2>1, <2>2 DEF Sound
<1>10. ASSUME NEW k \in 1 .. MatchSize, NEW l \in 1 .. MatchSize,
              SideOf(m, k).ticket = SideOf(m, l).ticket
       PROVE  k = l
  <2>1. CASE k <= n /\ l <= n
    BY <1>4, <1>8, <1>10, <2>1 DEF Apart
  <2>2. CASE k <= n /\ ~(l <= n)
    BY <1>4, <1>8, <1>10, <2>2 DEF Apart
  <2>3. CASE ~(k <= n) /\ l <= n
    BY <1>4, <1>8, <1>10, <2>3 DEF Apart
  <2>4. CASE ~(k <= n) /\ ~(l <= n)
    <3>1. k - n = l - n
      BY <1>4, <1>8, <1>10, <2>4 DEF Apart
    <3> QED
      BY <3>1, <1>1
  <2> QED
    BY <2>1, <2>2, <2>3, <2>4
<1>11. DOMAIN MembersOf(f) = 1 .. MatchSize /\ MembersOf(f) \in Seq(Tickets)
  <2>1. MatchSize \in Nat /\ DOMAIN MembersOf(f) = 1 .. MatchSize
    BY <1>1 DEF MembersOf
  <2>2. MembersOf(f) = [k \in 1 .. MatchSize |-> MembersOf(f)[k]]
    BY DEF MembersOf
  <2>3. MembersOf(f) \in [1 .. MatchSize -> Tickets]
    BY <1>9, <2>2
  <2> QED
    BY <2>1, <2>3
<1> QED
  BY <1>4, <1>5, <1>6, <1>7, <1>9, <1>10, <1>11 DEF f, m

-----------------------------------------------------------------------------
(* What the jobs do to the queue.                                          *)

LEMMA Added ==
  ASSUME NEW bs \in BucketSet, Placed(bs), NEW t \in Tickets,
         t \notin QueueOf(bs)
  PROVE  LET rs == [bs EXCEPT ![GetBucketIndex(t.mmr)] = Append(@, t)] IN
         /\ rs \in BucketSet /\ Placed(rs)
         /\ QueueOf(rs) = QueueOf(bs) \cup {t}
<1> DEFINE b == GetBucketIndex(t.mmr)
           n == Len(bs[b])
           r == Append(bs[b], t)
           rs == [bs EXCEPT ![b] = Append(@, t)]
<1>1. b \in 1 .. BucketCount /\ bs[b] \in Seq(Tickets)
  BY MmrAssumption, BucketRange DEF BucketSet
<1> HIDE DEF b
<1>2. rs = [bs EXCEPT ![b] = r]
  OBVIOUS
<1>3. /\ n \in Nat /\ r \in Seq(Tickets) /\ DOMAIN r = 1 .. n + 1 /\ DOMAIN bs[b] = 1 .. n
      /\ r[n + 1] = t /\ \A i \in 1 .. n : r[i] = bs[b][i]
  BY <1>1
<1> HIDE DEF r, rs, n
<1>4. rs \in BucketSet /\ rs[b] = r /\ \A c \in 1 .. BucketCount : c # b => rs[c] = bs[c]
  BY <1>1, <1>2, <1>3 DEF BucketSet
<1>5. \A c \in 1 .. BucketCount : \A j \in DOMAIN bs[c] : bs[c][j] # t
  BY DEF QueueOf
<1>6. \A c \in 1 .. BucketCount : \A j \in DOMAIN rs[c] :
         \/ j \in DOMAIN bs[c] /\ rs[c][j] = bs[c][j]
         \/ c = b /\ j = n + 1 /\ rs[c][j] = t
  <2> SUFFICES ASSUME NEW c \in 1 .. BucketCount, NEW j \in DOMAIN rs[c]
               PROVE  \/ j \in DOMAIN bs[c] /\ rs[c][j] = bs[c][j]
                      \/ c = b /\ j = n + 1 /\ rs[c][j] = t
    OBVIOUS
  <2>1. CASE c = b
    <3>1. j \in 1 .. n + 1
      BY <2>1, <1>3, <1>4
    <3>2. j \in 1 .. n \/ j = n + 1
      BY <3>1, <1>3
    <3> QED
      BY <3>2, <2>1, <1>3, <1>4
  <2> QED
    BY <2>1, <1>4
<1>7. Placed(rs)
  <2> SUFFICES ASSUME NEW c \in 1 .. BucketCount, NEW d \in 1 .. BucketCount,
                      NEW i \in DOMAIN rs[c], NEW j \in DOMAIN rs[d]
               PROVE  /\ GetBucketIndex(rs[c][i].mmr) = c
                      /\ rs[c][i] = rs[d][j] => c = d /\ i = j
    BY DEF Placed
  <2>1. CASE i \in DOMAIN bs[c] /\ rs[c][i] = bs[c][i]
    <3>1. CASE j \in DOMAIN bs[d] /\ rs[d][j] = bs[d][j]
      BY <2>1, <3>1 DEF Placed
    <3>2. CASE d = b /\ j = n + 1 /\ rs[d][j] = t
      <4>1. GetBucketIndex(bs[c][i].mmr) = c
        BY <2>1 DEF Placed
      <4> QED
        BY <2>1, <3>2, <4>1, <1>5
    <3> QED
      BY <3>1, <3>2, <1>6
  <2>2. CASE c = b /\ i = n + 1 /\ rs[c][i] = t
    BY <2>2, <1>5, <1>6 DEF b
  <2> QED
    BY <2>1, <2>2, <1>6
<1>8. ASSUME NEW u PROVE u \in QueueOf(rs) <=> u \in QueueOf(bs) \/ u = t
  <2>1. ASSUME u \in QueueOf(rs) PROVE u \in QueueOf(bs) \/ u = t
    <3>1. PICK c \in 1 .. BucketCount : \E i \in DOMAIN rs[c] : u = rs[c][i]
      BY <2>1 DEF QueueOf
    <3> QED
      BY <3>1, <1>6 DEF QueueOf
  <2>2. ASSUME u \in QueueOf(bs) PROVE u \in QueueOf(rs)
    <3>1. PICK c \in 1 .. BucketCount : \E i \in DOMAIN bs[c] : u = bs[c][i]
      BY <2>2 DEF QueueOf
    <3>2. PICK i \in DOMAIN bs[c] : u = bs[c][i]
      BY <3>1
    <3>3. i \in DOMAIN rs[c] /\ rs[c][i] = u
      BY <3>2, <1>3, <1>4
    <3> QED
      BY <3>3 DEF QueueOf
  <2>3. t \in QueueOf(rs)
    <3>1. n + 1 \in DOMAIN rs[b] /\ rs[b][n + 1] = t
      BY <1>3, <1>4
    <3> QED
      BY <3>1, <1>1 DEF QueueOf
  <2> QED
    BY <2>1, <2>2, <2>3
<1> QED
  BY <1>4, <1>7, <1>8 DEF rs, b

LEMMA Typed ==
  ASSUME TypeOK
  PROVE  /\ buckets \in BucketSet /\ Placed(buckets) /\ Queue = QueueOf(buckets)
         /\ unvisited \subseteq Tickets /\ Queue \subseteq Tickets
<1>1. buckets \in BucketSet /\ Placed(buckets) /\ unvisited \subseteq Tickets
  BY DEF TypeOK, WellPlaced, BucketSet, Placed
<1>2. Queue = QueueOf(buckets)
  BY DEF Queue, QueueOf
<1>3. Queue \subseteq Tickets
  BY <1>1 DEF Queue, BucketSet
<1> QED
  BY <1>1, <1>2, <1>3

InRange(s) == {u \in Queue : Distance(u.mmr, s.mmr) <= MatchRange}
Stale(s)   == {u \in InRange(s) : u.player \notin matched /\ u.player \in gone}

(* What a seed finds: the expired tickets in range and the live ones.      *)
LEMMA Found ==
  ASSUME TypeOK, NEW s \in Tickets
  PROVE  /\ Expired(s) \in Seq(Tickets) /\ ToSet(Expired(s)) = Stale(s)
         /\ Live(s) \in Seq(Tickets) /\ Distinct(Live(s))
         /\ ToSet(Live(s)) = {u \in InRange(s) : u.player \notin matched \cup gone}
<1> DEFINE found == CollectCandidates(s.mmr)
           K == {t \in Tickets : t.player \notin matched /\ t.player \in gone}
           L == {t \in Tickets : t.player \notin matched \cup gone}
<1>1. buckets \in BucketSet /\ Placed(buckets) /\ Queue \subseteq Tickets /\ s.mmr \in Nat
  BY Typed, MmrAssumption
<1>2. found \in Seq(Tickets) /\ Distinct(found) /\ ToSet(found) = InRange(s)
  BY <1>1, Candidates DEF InRange
<1>3. Expired(s) = Filter(found, K) /\ Live(s) = Filter(found, L)
  BY DEF Expired, Live
<1> HIDE DEF found
<1>4. /\ Expired(s) \in Seq(Tickets) /\ ToSet(Expired(s)) = ToSet(found) \cap K
      /\ Live(s) \in Seq(Tickets) /\ Distinct(Live(s)) /\ ToSet(Live(s)) = ToSet(found) \cap L
  BY <1>2, <1>3, Filtered
<1>5. InRange(s) \subseteq Tickets
  BY <1>1 DEF InRange
<1>6. InRange(s) \cap K = Stale(s)
  BY <1>5 DEF Stale
<1>7. InRange(s) \cap L = {u \in InRange(s) : u.player \notin matched \cup gone}
  BY <1>5
<1> QED
  BY <1>2, <1>4, <1>6, <1>7

(* The sweep takes the expired tickets in range from the queue, no others: *)
(* all tickets of a player have one MMR, so all his are expired, or none.  *)
LEMMA Sweep ==
  ASSUME TypeOK, NEW s \in Tickets
  PROVE  LET bs == RemoveAll(buckets, Expired(s)) IN
         bs \in BucketSet /\ Placed(bs) /\ QueueOf(bs) = Queue \ Stale(s)
<1> DEFINE e == Expired(s)
           bs == RemoveAll(buckets, e)
           n == Len(e)
<1>1. /\ buckets \in BucketSet /\ Placed(buckets) /\ Queue = QueueOf(buckets)
      /\ e \in Seq(Tickets) /\ ToSet(e) = Stale(s) /\ Queue \subseteq Tickets
  BY Typed, Found
<1> HIDE DEF e
<1>2. /\ bs \in BucketSet /\ Placed(bs) /\ QueueOf(bs) \subseteq QueueOf(buckets)
      /\ \A u \in QueueOf(buckets) :
           (\A k \in DOMAIN e : u.player # e[k].player) => u \in QueueOf(bs)
      /\ \A p : HeldIn(bs, p) = Without(HeldIn(buckets, p), Times(e, p, n))
  BY <1>1, AllRemoved
<1>3. n \in Nat /\ DOMAIN e = 1 .. n
  BY <1>1
<1> HIDE DEF bs, n
<1>4. ASSUME NEW u \in Queue, NEW v \in Stale(s), u.player = v.player
      PROVE  u \in Stale(s)
  <2>1. u \in Tickets /\ v \in Tickets
    BY <1>1 DEF Stale, InRange
  <2>2. u.mmr = v.mmr
    BY <2>1, <1>4, MmrAssumption
  <2> QED
    BY <2>2, <1>4 DEF Stale, InRange
<1>5. ASSUME NEW u \in Queue \ Stale(s) PROVE u \in QueueOf(bs)
  <2>1. ASSUME NEW k \in DOMAIN e PROVE u.player # e[k].player
    <3>1. e[k] \in Stale(s)
      BY <1>1 DEF ToSet
    <3> QED
      BY <3>1, <1>4
  <2> QED
    BY <2>1, <1>1, <1>2
<1>6. ASSUME NEW u \in Stale(s) PROVE u \notin QueueOf(bs)
  <2> DEFINE p == u.player
             A == Places(e, p, n)
             S == {v \in Queue : v.player = p}
             f == [j \in A |-> e[j]]
  <2>1. \A j \in A : e[j] \in S
    <3> SUFFICES ASSUME NEW j \in A PROVE e[j] \in S
      OBVIOUS
    <3>1. j \in DOMAIN e /\ e[j].player = p
      BY <1>3 DEF Places
    <3>2. e[j] \in Stale(s)
      BY <3>1, <1>1 DEF ToSet
    <3> QED
      BY <3>1, <3>2 DEF Stale, InRange
  <2>2. \A v \in S : \E j \in A : e[j] = v
    <3> SUFFICES ASSUME NEW v \in S PROVE \E j \in A : e[j] = v
      OBVIOUS
    <3>1. v \in ToSet(e)
      BY <1>1, <1>4
    <3>2. PICK j \in 1 .. n : e[j] = v
      BY <3>1, <1>3 DEF ToSet
    <3> QED
      BY <3>2 DEF Places
  <2>3. IsFiniteSet(A) /\ Times(e, p, n) = Cardinality(A) /\ Times(e, p, n) \in Nat
    BY <1>3, OneMoreTime DEF Times
  <2>4. HeldIn(buckets, p) = Cardinality(S) /\ HeldIn(buckets, p) \in Nat
    BY <1>1, HeldFinite DEF HeldIn
  <2> HIDE DEF A, S, p
  <2>5. f \in Surjection(A, S)
    BY <2>1, <2>2 DEF Surjection
  <2>6. HeldIn(buckets, p) <= Times(e, p, n)
    <3> HIDE DEF f
    <3> QED
      BY <2>3, <2>4, <2>5, FS_Surjection
  <2>7. HeldIn(bs, p) = 0
    BY <1>2, <2>6 DEF Without
  <2>8. IsFiniteSet({v \in QueueOf(bs) : v.player = p})
    BY <1>2, HeldFinite
  <2>9. {v \in QueueOf(bs) : v.player = p} = {}
    BY <2>7, <2>8, FS_EmptySet DEF HeldIn
  <2> QED
    BY <2>9 DEF p
<1>7. QueueOf(bs) = Queue \ Stale(s)
  BY <1>1, <1>2, <1>5, <1>6
<1> QED
  BY <1>2, <1>7 DEF bs, e

LEMMA Quiet ==
  ASSUME last' = NoMatch
  PROVE  MatchSound' /\ TeamsBalanced'
BY DEF MatchSound, TeamsBalanced

(* What a step leaves typed, in the words of the lemmas above.             *)
LEMMA TypedNext ==
  ASSUME buckets' \in BucketSet, Placed(buckets'), gone' \subseteq Players,
         matched' \subseteq Players, ticking' \in BOOLEAN, unvisited' \subseteq Tickets,
         ~ticking' => unvisited' = {} /\ matched' = {},
         last' = NoMatch \/ last'.seed \in Tickets
  PROVE  TypeOK' /\ Queue' = QueueOf(buckets')
BY DEF TypeOK, WellPlaced, BucketSet, Placed, Queue, QueueOf

LEMMA AddTicketStep ==
  ASSUME TypeOK, NEW t \in Tickets, AddTicket(t)
  PROVE  TypeOK' /\ Queue' = Queue \cup {t}
<1>1. buckets \in BucketSet /\ Placed(buckets) /\ Queue = QueueOf(buckets)
  BY Typed
<1>2. /\ buckets' = [buckets EXCEPT ![GetBucketIndex(t.mmr)] = Append(@, t)]
      /\ t \notin QueueOf(buckets)
      /\ ~ticking /\ last' = NoMatch /\ UNCHANGED <<gone, ticking, unvisited, matched>>
  BY <1>1 DEF AddTicket
<1>3. /\ buckets' \in BucketSet /\ Placed(buckets')
      /\ QueueOf(buckets') = QueueOf(buckets) \cup {t}
  BY <1>1, <1>2, Added
<1>4. TypeOK' /\ Queue' = QueueOf(buckets')
  BY <1>2, <1>3, TypedNext DEF TypeOK
<1> QED
  BY <1>1, <1>3, <1>4

LEMMA RemoveStep ==
  ASSUME TypeOK, NEW t \in Tickets, buckets' = RemoveTicket(buckets, t.player, t.mmr),
         last' = NoMatch, UNCHANGED <<gone, ticking, matched>>,
         unvisited' \subseteq unvisited
  PROVE  /\ TypeOK'
         /\ \/ Queue' = Queue
            \/ \E u \in Queue : u.player = t.player /\ Queue' = Queue \ {u}
<1>1. buckets \in BucketSet /\ Placed(buckets) /\ Queue = QueueOf(buckets)
  BY Typed
<1>2. /\ buckets' \in BucketSet /\ Placed(buckets')
      /\ \/ buckets' = buckets
         \/ \E u \in QueueOf(buckets) :
              u.player = t.player /\ QueueOf(buckets') = QueueOf(buckets) \ {u}
  BY <1>1, Removed
<1>3. /\ gone' \subseteq Players /\ matched' \subseteq Players /\ ticking' \in BOOLEAN
      /\ unvisited' \subseteq Tickets /\ (~ticking' => unvisited' = {} /\ matched' = {})
  BY DEF TypeOK
<1>4. TypeOK' /\ Queue' = QueueOf(buckets')
  BY <1>2, <1>3, TypedNext
<1> QED
  BY <1>1, <1>2, <1>4

LEMMA SearchStep ==
  ASSUME TypeOK, NEW s \in unvisited, SearchInVain(s)
  PROVE  TypeOK' /\ Queue' = Queue \ Stale(s)
<1>1. s \in Tickets
  BY Typed
<1>2. /\ buckets' = RemoveAll(buckets, Expired(s)) /\ last' = NoMatch
      /\ UNCHANGED <<gone, ticking, matched>> /\ unvisited' = unvisited \ {s}
  BY DEF SearchInVain, Seed
<1>3. /\ buckets' \in BucketSet /\ Placed(buckets')
      /\ QueueOf(buckets') = Queue \ Stale(s)
  BY <1>1, <1>2, Sweep
<1>4. /\ gone' \subseteq Players /\ matched' \subseteq Players /\ ticking' \in BOOLEAN
      /\ unvisited' \subseteq Tickets /\ (~ticking' => unvisited' = {} /\ matched' = {})
  BY <1>2 DEF TypeOK
<1>5. TypeOK' /\ Queue' = QueueOf(buckets')
  BY <1>2, <1>3, <1>4, TypedNext
<1> QED
  BY <1>3, <1>5

PlaceIn(m, k) == SideOf(m, k).ticket

LEMMA FormStep ==
  ASSUME TypeOK, NEW s \in unvisited, FormMatch(s)
  PROVE  /\ TypeOK' /\ last' # NoMatch /\ TeamsBalanced' /\ MatchSound' /\ ticking
         /\ Queue' \subseteq Queue \ Stale(s)
         /\ \A p : p \notin gone /\ Seats(last', p) = 0 => Held(p)' = Held(p)
         /\ \A p : Seats(last', p) > 0 => Held(p)' = Held(p) - Seats(last', p)
<1> DEFINE pool == Live(s)
           f == TryFormMatch(pool)
           m == Match(s, f)
           one == RemoveAll(buckets, Expired(s))
           e == MembersOf(f)
           z == MatchSize
<1>0. z \in Nat
  BY PositionsAssumption DEF MatchSize, TeamSize
<1>1. /\ s \in Tickets /\ Queue \subseteq Tickets /\ matched \subseteq Players
      /\ buckets \in BucketSet /\ Queue = QueueOf(buckets)
  BY Typed DEF TypeOK
<1>2. /\ pool \in Seq(Tickets) /\ Distinct(pool)
      /\ ToSet(pool) = {u \in InRange(s) : u.player \notin matched \cup gone}
  BY <1>1, Found
<1>3. /\ f.ok /\ UNCHANGED <<gone, ticking>> /\ ticking /\ unvisited' = unvisited \ {s}
      /\ buckets' = RemoveAll(one, e)
      /\ matched' = matched \cup {e[k].player : k \in 1 .. z}
      /\ last' = m
  BY DEF FormMatch, FormsMatch, Seed, Match
<1>4. one \in BucketSet /\ Placed(one) /\ QueueOf(one) = Queue \ Stale(s)
  BY <1>1, Sweep
<1> HIDE DEF pool, one, z
<1>5. /\ m \in Matches
      /\ Len(m.teamA) = TeamSize /\ Len(m.teamB) = TeamSize
      /\ Distance(SumOf(m.teamA), SumOf(m.teamB)) <= 2 * MatchRange
      /\ e \in Seq(Tickets) /\ DOMAIN e = 1 .. z
      /\ \A k \in 1 .. z :
           /\ SideOf(m, k).position = Positions[IF k <= TeamSize THEN k ELSE k - TeamSize]
           /\ Accepts(PlaceIn(m, k), SideOf(m, k).position)
           /\ PlaceIn(m, k) \in ToSet(pool)
           /\ PlaceIn(m, k) = e[k]
      /\ \A k, l \in 1 .. z : PlaceIn(m, k) = PlaceIn(m, l) => k = l
  <2>1. \A u \in ToSet(pool) : Distance(u.mmr, s.mmr) <= MatchRange
    BY <1>2 DEF InRange
  <2> QED
    BY <1>1, <1>2, <1>3, <2>1, Announced DEF PlaceIn, z
<1>6. m.seed = s /\ m.earlier = matched
  BY DEF Match
<1> HIDE DEF f, m, e
<1>7. /\ buckets' \in BucketSet /\ Placed(buckets')
      /\ QueueOf(buckets') \subseteq QueueOf(one)
      /\ \A p : HeldIn(buckets', p) = Without(HeldIn(one, p), Times(e, p, z))
  <2>1. Len(e) = z
    BY <1>0, <1>5
  <2> QED
    BY <1>3, <1>4, <1>5, <2>1, AllRemoved
<1>8. \A k \in 1 .. z :
        /\ e[k] \in Queue \ Stale(s) /\ Distance(e[k].mmr, s.mmr) <= MatchRange
        /\ e[k] \in Tickets /\ e[k].player \notin matched \cup gone
  BY <1>1, <1>2, <1>5 DEF InRange, Stale
<1>9. last' \in Matches /\ last' # NoMatch
  BY <1>3, <1>5, NoMatchAssumption DEF Matches
<1>10. matched' \subseteq Players
  BY <1>1, <1>3, <1>8 DEF Players
<1>11. /\ gone' \subseteq Players /\ ticking' \in BOOLEAN /\ unvisited' \subseteq Tickets
       /\ (~ticking' => unvisited' = {} /\ matched' = {}) /\ last'.seed \in Tickets
  BY <1>1, <1>3, <1>6 DEF TypeOK
<1>12. TypeOK' /\ Queue' = QueueOf(buckets')
  BY <1>7, <1>10, <1>11, TypedNext
<1>13. TeamsBalanced'
  BY <1>3, <1>5 DEF TeamsBalanced
<1>14. MatchSound'
  <2>1. \A k \in 1 .. z : e[k].player \in matched' \ matched
    BY <1>3, <1>8
  <2> QED
    BY <1>3, <1>5, <1>6, <1>8, <2>1 DEF MatchSound, PlaceIn, z
<1>15. ASSUME NEW p
       PROVE  /\ Seats(last', p) = Times(e, p, z) /\ Seats(last', p) \in Nat
              /\ Held(p) = HeldIn(buckets, p) /\ Held(p) \in Nat
              /\ Held(p)' = Without(HeldIn(one, p), Times(e, p, z))
  <2>1. {k \in 1 .. z : SideOf(m, k).ticket.player = p} = Places(e, p, z)
    BY <1>5 DEF Places, PlaceIn
  <2>2. Seats(last', p) = Times(e, p, z) /\ Times(e, p, z) \in Nat
    BY <1>0, <1>3, <2>1, OneMoreTime DEF Seats, Times, z
  <2>3. Held(p) = HeldIn(buckets, p) /\ HeldIn(buckets, p) \in Nat
    BY <1>1, HeldFinite DEF Held, HeldIn
  <2>4. Held(p)' = HeldIn(buckets', p)
    BY <1>12 DEF Held, HeldIn
  <2> QED
    BY <1>7, <2>2, <2>3, <2>4
<1>16. ASSUME NEW p, p \notin gone PROVE HeldIn(one, p) = Held(p)
  <2>1. {u \in Queue \ Stale(s) : u.player = p} = {u \in Queue : u.player = p}
    BY <1>16 DEF Stale
  <2> QED
    BY <2>1, <1>4 DEF Held, HeldIn
<1>17. ASSUME NEW p, p \notin gone, Seats(last', p) = 0 PROVE Held(p)' = Held(p)
  BY <1>15, <1>16, <1>17 DEF Without
<1>18. ASSUME NEW p, Seats(last', p) > 0
       PROVE  Held(p)' = Held(p) - Seats(last', p)
  <2> DEFINE A == Places(e, p, z)
             S == {u \in QueueOf(one) : u.player = p}
             g == [k \in A |-> e[k]]
  <2>1. Times(e, p, z) = Cardinality(A) /\ Cardinality(A) # 0
    BY <1>15, <1>18 DEF Times
  <2>2. A # {} /\ A \subseteq 1 .. z /\ \A k \in A : e[k].player = p
    BY <2>1, FS_EmptySet DEF Places
  <2>3. p \notin gone
    BY <2>2, <1>8
  <2>4. \A k \in A : e[k] \in S
    BY <2>2, <1>4, <1>8
  <2>5. \A k, l \in A : e[k] = e[l] => k = l
    BY <2>2, <1>5
  <2>6. IsFiniteSet(S) /\ HeldIn(one, p) = Cardinality(S) /\ HeldIn(one, p) \in Nat
    BY <1>4, HeldFinite DEF HeldIn
  <2> HIDE DEF A, S
  <2>7. g \in Injection(A, S)
    BY <2>4, <2>5 DEF Injection, IsInjective
  <2> HIDE DEF g
  <2>8. Cardinality(A) <= Cardinality(S)
    BY <2>6, <2>7, FS_Injection
  <2>9. Times(e, p, z) <= Held(p) /\ HeldIn(one, p) = Held(p)
    BY <2>1, <2>3, <2>6, <2>8, <1>16
  <2> QED
    BY <2>9, <1>15 DEF Without
<1>19. Queue' \subseteq Queue \ Stale(s)
  BY <1>4, <1>7, <1>12
<1> QED
  BY <1>3, <1>9, <1>12, <1>13, <1>14, <1>17, <1>18, <1>19

-----------------------------------------------------------------------------
(* The inductive invariant.                                                *)

IInv == TypeOK /\ MatchSound /\ TeamsBalanced

LEMMA Start == Init => IInv
<1> SUFFICES ASSUME Init PROVE IInv
  OBVIOUS
<1> USE DEF Init
<1>1. \A b \in 1 .. BucketCount : buckets[b] = <<>>
  OBVIOUS
<1>2. WellPlaced /\ Queue = {}
  BY <1>1 DEF WellPlaced, Queue
<1>3. buckets \in BucketSet
  <2>1. <<>> \in Seq(Tickets)
    OBVIOUS
  <2> QED
    BY <2>1 DEF BucketSet
<1>4. ticking \in BOOLEAN /\ gone \subseteq Players /\ matched \subseteq Players
  OBVIOUS
<1>5. TypeOK
  BY <1>2, <1>3, <1>4 DEF TypeOK, BucketSet
<1> QED
  BY <1>2, <1>5 DEF IInv, MatchSound, TeamsBalanced

LEMMA Preserved ==
  ASSUME IInv, [Next]_vars
  PROVE  IInv'
<1> USE DEF IInv
<1>1. ASSUME NEW t \in Tickets, AddTicket(t) PROVE IInv'
  <2>1. last' = NoMatch
    BY <1>1 DEF AddTicket
  <2> QED
    BY <1>1, <2>1, AddTicketStep, Quiet
<1>2. ASSUME NEW t \in Tickets, Withdraw(t) PROVE IInv'
  <2>1. TypeOK' /\ last' = NoMatch
    BY <1>2, RemoveStep DEF Withdraw
  <2> QED
    BY <2>1, Quiet
<1>3. ASSUME NEW p \in Players, SessionExpires(p) PROVE IInv'
  <2>1. /\ last' = NoMatch /\ gone' = gone \cup {p}
        /\ UNCHANGED <<buckets, ticking, unvisited, matched>>
    BY <1>3 DEF SessionExpires
  <2>2. TypeOK'
    BY <2>1 DEF TypeOK, WellPlaced
  <2> QED
    BY <2>1, <2>2, Quiet
<1>4. CASE TickBegin
  <2>1. last' = NoMatch /\ ticking' /\ unvisited' = Queue /\ UNCHANGED <<buckets, gone, matched>>
    BY <1>4 DEF TickBegin
  <2>2. ticking' \in BOOLEAN
    BY <1>4 DEF TickBegin
  <2>3. Queue \subseteq Tickets
    BY Typed
  <2>4. TypeOK'
    BY <2>1, <2>2, <2>3 DEF TypeOK, WellPlaced
  <2> QED
    BY <2>1, <2>4, Quiet
<1>5. ASSUME NEW s \in unvisited, SkipSeed(s) PROVE IInv'
  <2>1. last' = NoMatch /\ unvisited' \subseteq unvisited /\ UNCHANGED <<buckets, gone, ticking, matched>>
    BY <1>5 DEF SkipSeed, Seed
  <2>2. TypeOK'
    BY <2>1 DEF TypeOK, WellPlaced
  <2> QED
    BY <2>1, <2>2, Quiet
<1>6. ASSUME NEW s \in unvisited, PurgeSeed(s) PROVE IInv'
  <2>1. TypeOK' /\ last' = NoMatch
    BY <1>6, Typed, RemoveStep DEF PurgeSeed, Seed
  <2> QED
    BY <2>1, Quiet
<1>7. ASSUME NEW s \in unvisited, SearchInVain(s) PROVE IInv'
  <2>1. TypeOK' /\ last' = NoMatch
    BY <1>7, SearchStep DEF SearchInVain
  <2> QED
    BY <2>1, Quiet
<1>8. ASSUME NEW s \in unvisited, FormMatch(s) PROVE IInv'
  BY <1>8, FormStep
<1>9. CASE TickEnd
  <2>1. /\ last' = NoMatch /\ ticking' = FALSE /\ matched' = {} /\ unvisited' = {}
        /\ UNCHANGED <<buckets, gone>>
    BY <1>9 DEF TickEnd
  <2>2. ticking' \in BOOLEAN
    BY <2>1
  <2>3. TypeOK'
    <3>1. WellPlaced'
      BY <2>1 DEF TypeOK, WellPlaced
    <3> QED
      BY <2>1, <2>2, <3>1 DEF TypeOK
  <2> QED
    BY <2>1, <2>3, Quiet
<1>10. CASE UNCHANGED vars
  BY <1>10 DEF vars, TypeOK, WellPlaced, MatchSound, TeamsBalanced
<1> QED
  BY <1>1, <1>2, <1>3, <1>4, <1>5, <1>6, <1>7, <1>8, <1>9, <1>10 DEF Next

LEMMA Invariant == Spec => []IInv
<1>1. Init => IInv
  BY Start
<1>2. IInv /\ [Next]_vars => IInv'
  BY Preserved
<1> QED
  BY <1>1, <1>2, PTL DEF Spec

-----------------------------------------------------------------------------
(* Every ticket is stored once, in the bucket of its MMR, however often    *)
(* RemoveTicket has moved the last ticket of a bucket into a hole, and a   *)
(* Tick leaves nothing behind (MatchmakingManager.cpp:158-182, 212-295).   *)
THEOREM TypeCorrect == Spec => []TypeOK
<1>1. IInv => TypeOK
  BY DEF IInv
<1> QED
  BY Invariant, <1>1, PTL

(* The buckets that CollectCandidates scans hold every ticket in range of  *)
(* the seed, each once, for every bucket size, bucket count and range      *)
(* (MatchmakingManager.cpp:146-156, 184-210).                              *)
THEOREM NobodyOverlooked == Spec => []CandidatesComplete
<1>1. IInv => CandidatesComplete
  <2> SUFFICES ASSUME IInv, NEW t \in Queue
               PROVE  LET found == CollectCandidates(t.mmr)
                          near  == {u \in Queue : Distance(u.mmr, t.mmr) <= MatchRange}
                      IN /\ {found[i] : i \in DOMAIN found} = near
                         /\ Len(found) = Cardinality(near)
    BY DEF CandidatesComplete
  <2> DEFINE found == CollectCandidates(t.mmr)
             near  == {u \in Queue : Distance(u.mmr, t.mmr) <= MatchRange}
  <2>1. buckets \in BucketSet /\ Placed(buckets) /\ t \in Tickets
    BY Typed DEF IInv
  <2>2. t.mmr \in Nat
    BY <2>1, MmrAssumption
  <2>3. found \in Seq(Tickets) /\ Distinct(found) /\ ToSet(found) = near
    BY <2>1, <2>2, Candidates
  <2> HIDE DEF found, near
  <2>4. Cardinality(ToSet(found)) = Len(found)
    BY <2>3, Counted
  <2>5. ToSet(found) = {found[i] : i \in DOMAIN found}
    BY DEF ToSet
  <2> QED
    BY <2>3, <2>4, <2>5 DEF found, near
<1> QED
  BY Invariant, <1>1, PTL

(* A match is two full teams of different tickets in range of the seed,    *)
(* each in a position its player asked for, and nobody is in two matches   *)
(* of one Tick, however many tickets a player has                          *)
(* (MatchmakingManager.cpp:89-125, 244-292).                               *)
THEOREM MatchesSound == Spec => []MatchSound
<1>1. IInv => MatchSound
  BY DEF IInv
<1> QED
  BY Invariant, <1>1, PTL

(* The sums of the MMRs of the two teams differ by no more than the gap of *)
(* one pair of candidates, for teams of every size                         *)
(* (MatchmakingManager.cpp:104-121).                                       *)
THEOREM FairTeams == Spec => []TeamsBalanced
<1>1. IInv => TeamsBalanced
  BY DEF IInv
<1> QED
  BY Invariant, <1>1, PTL

(* A match costs each of its players as many tickets as he has seats in it;*)
(* beyond that nobody loses a ticket, except the one a player withdraws    *)
(* and those of a player whose session is gone.  RemoveTicket may take     *)
(* another ticket of the player than the one that was placed, never one of *)
(* another player (MatchmakingManager.cpp:166-182, 238-292).               *)
THEOREM NobodyDropped == Spec => LeavesForReason
<1> DEFINE Reason(p) ==
      IF last' # NoMatch /\ Seats(last', p) > 0
      THEN Held(p)' = Held(p) - Seats(last', p)
      ELSE Held(p)' < Held(p) =>
             \/ ticking /\ p \in gone
             \/ /\ Held(p)' = Held(p) - 1
                /\ \E t \in Tickets : t.player = p /\ Withdraw(t)
<1>1. ASSUME IInv, [Next]_vars, ~UNCHANGED vars, NEW p \in Players PROVE Reason(p)
  <2> DEFINE S == {t \in Queue : t.player = p}
  <2>1. TypeOK /\ TypeOK'
    BY <1>1, Preserved DEF IInv
  <2>2. /\ IsFiniteSet(S) /\ IsFiniteSet(S')
        /\ Held(p) = Cardinality(S) /\ Held(p)' = Cardinality(S')
        /\ Held(p) \in Nat /\ Held(p)' \in Nat
    <3>1. buckets \in BucketSet /\ Queue = QueueOf(buckets)
      BY <2>1, Typed
    <3>2. buckets' \in BucketSet /\ Queue' = QueueOf(buckets')
      BY <2>1 DEF TypeOK, BucketSet, Queue, QueueOf
    <3> QED
      BY <3>1, <3>2, HeldFinite DEF Held, HeldIn
  <2> HIDE DEF S
  <2>3. ASSUME S \subseteq S', last' = NoMatch PROVE Reason(p)
    <3>1. Cardinality(S) <= Cardinality(S')
      BY <2>2, <2>3, FS_Subset
    <3> QED
      BY <3>1, <2>2, <2>3
  <2>4. ASSUME NEW t \in Tickets, AddTicket(t) PROVE Reason(p)
    <3>1. Queue' = Queue \cup {t} /\ last' = NoMatch
      BY <2>1, <2>4, AddTicketStep DEF AddTicket
    <3>2. S \subseteq S'
      BY <3>1 DEF S
    <3> QED
      BY <3>1, <3>2, <2>3
  <2>5. ASSUME NEW t \in Tickets, Withdraw(t) PROVE Reason(p)
    <3>1. /\ last' = NoMatch
          /\ \/ Queue' = Queue
             \/ \E u \in Queue : u.player = t.player /\ Queue' = Queue \ {u}
      BY <2>1, <2>5, RemoveStep DEF Withdraw
    <3>2. CASE Queue' = Queue \/ t.player # p
      <4>1. S \subseteq S'
        BY <3>1, <3>2 DEF S
      <4> QED
        BY <4>1, <3>1, <2>3
    <3>3. CASE Queue' # Queue /\ t.player = p
      <4>1. PICK u \in Queue : u.player = p /\ Queue' = Queue \ {u}
        BY <3>1, <3>3
      <4>2. u \in S /\ S' = S \ {u}
        BY <4>1 DEF S
      <4>3. Cardinality(S') = Cardinality(S) - 1
        BY <4>2, <2>2, FS_RemoveElement
      <4> QED
        BY <4>3, <3>1, <3>3, <2>2, <2>5
    <3> QED
      BY <3>2, <3>3
  <2>6. ASSUME NEW s \in unvisited, PurgeSeed(s) PROVE Reason(p)
    <3>1. /\ s \in Tickets /\ s.player \in gone /\ ticking /\ last' = NoMatch
      BY <2>1, <2>6, Typed DEF PurgeSeed, Seed
    <3>2. \/ Queue' = Queue
          \/ \E u \in Queue : u.player = s.player /\ Queue' = Queue \ {u}
      BY <2>1, <2>6, <3>1, RemoveStep DEF PurgeSeed, Seed
    <3>3. p # s.player => S \subseteq S'
      BY <3>2 DEF S
    <3> QED
      BY <3>1, <3>3, <2>3
  <2>7. ASSUME NEW s \in unvisited, SearchInVain(s) PROVE Reason(p)
    <3>1. Queue' = Queue \ Stale(s) /\ last' = NoMatch /\ ticking
      BY <2>1, <2>7, SearchStep DEF SearchInVain, Seed
    <3>2. p \notin gone => S \subseteq S'
      BY <3>1 DEF S, Stale
    <3> QED
      BY <3>1, <3>2, <2>3
  <2>8. ASSUME NEW s \in unvisited, FormMatch(s) PROVE Reason(p)
    <3>1. /\ last' # NoMatch /\ ticking
          /\ p \notin gone /\ Seats(last', p) = 0 => Held(p)' = Held(p)
          /\ Seats(last', p) > 0 => Held(p)' = Held(p) - Seats(last', p)
      BY <2>1, <2>8, FormStep
    <3>2. Seats(last', p) = 0 \/ Seats(last', p) > 0
      <4>1. MatchSize \in Nat
        BY PositionsAssumption DEF MatchSize, TeamSize
      <4>2. {k \in 1 .. MatchSize : SideOf(last', k).ticket.player = p} \subseteq 1 .. MatchSize
            /\ IsFiniteSet(1 .. MatchSize)
        BY <4>1, UpToFinite
      <4>3. Seats(last', p) \in Nat
        BY <4>2, FS_Subset, FS_CardinalityType DEF Seats
      <4> QED
        BY <4>3
    <3> QED
      BY <3>1, <3>2, <2>2
  <2>9. ASSUME \/ \E q \in Players : SessionExpires(q)
               \/ TickBegin \/ TickEnd
               \/ \E s \in unvisited : SkipSeed(s)
        PROVE  Reason(p)
    <3>1. UNCHANGED buckets /\ last' = NoMatch
      BY <2>9 DEF SessionExpires, TickBegin, TickEnd, SkipSeed
    <3>2. S \subseteq S'
      BY <3>1 DEF S, Queue
    <3> QED
      BY <3>1, <3>2, <2>3
  <2> HIDE DEF Reason, IInv
  <2> QED
    BY <1>1, <2>4, <2>5, <2>6, <2>7, <2>8, <2>9 DEF Next
<1>2. ASSUME IInv, [Next]_vars PROVE [\A p \in Players : Reason(p)]_vars
  <2> HIDE DEF Reason, IInv
  <2> QED
    BY <1>1, <1>2
<1> QED
  BY Invariant, <1>2, PTL DEF Spec, LeavesForReason

(* Whether a seed finds a match or not, no expired ticket in its range is  *)
(* left in the queue, unless its player is in a match of this Tick         *)
(* (MatchmakingManager.cpp:235-263).                                       *)
THEOREM AllSwept == Spec => ExpiredSwept
<1> DEFINE Swept ==
      \A s \in unvisited :
        (SearchInVain(s) \/ FormMatch(s)) =>
           \A t \in Queue' : Distance(t.mmr, s.mmr) <= MatchRange
                               => t.player \in matched \/ t.player \notin gone
<1>1. ASSUME IInv, [Next]_vars PROVE [Swept]_vars
  <2> SUFFICES ASSUME NEW s \in unvisited, SearchInVain(s) \/ FormMatch(s),
                      NEW t \in Queue', Distance(t.mmr, s.mmr) <= MatchRange
               PROVE  t.player \in matched \/ t.player \notin gone
    OBVIOUS
  <2>1. TypeOK
    BY <1>1 DEF IInv
  <2>2. t \in Queue \ Stale(s)
    <3>1. CASE SearchInVain(s)
      BY <2>1, <3>1, SearchStep
    <3>2. CASE FormMatch(s)
      BY <2>1, <3>2, FormStep
    <3> QED
      BY <3>1, <3>2
  <2> QED
    BY <2>2 DEF Stale, InRange
<1> QED
  BY Invariant, <1>1, PTL DEF Spec, ExpiredSwept
=============================================================================
