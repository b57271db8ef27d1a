--------------------------- MODULE JobTimerProofs ---------------------------
(***************************************************************************)
(* Proofs about JobTimer, for every number of threads, queues and timers.  *)
(*                                                                         *)
(* Neither OnePlace nor InDueOrder is inductive.  Both need that whoever   *)
(* has items in hand is the one thread the gate let in (GateInv).  OnePlace*)
(* also needs that names not yet given are nowhere (FreshInv) and that a   *)
(* timer waits at its owner only while that owner is alive, which holds    *)
(* since its own job pins it; InDueOrder needs that what was due earlier   *)
(* than an item in hand stands before it or was handed over (TakenInv).    *)
(***************************************************************************)
EXTENDS JobTimer, TLAPS

Distributes(t) == pc[t] \in {"pop", "hand", "push"}

GateInv ==
  /\ \A t \in Threads : Distributes(t) => distributing
  /\ \A t, u \in Threads : Distributes(t) /\ Distributes(u) => t = u
  /\ \A t \in Threads : items[t] # <<>> => Distributes(t)

FreshInv ==
  \A i \in Timers : i > issued =>
    ~(Made(i) \/ i \in heap \/ InHand(i) \/ Handed(i))

TakenInv ==
  \A t \in Threads : \A n \in DOMAIN items[t] : \A k \in ahead[items[t][n]] :
    Handed(k) \/ \E m \in DOMAIN items[t] : m < n /\ items[t][m] = k

IInv == TypeOK /\ GateInv /\ FreshInv /\ OnePlace /\ TakenInv /\ InDueOrder

-----------------------------------------------------------------------------
(* Sequences: what Append and Tail do to the places of a sequence. *)
LEMMA AppendPlaces ==
  ASSUME NEW S, NEW s \in Seq(S), NEW e \in S
  PROVE  /\ Append(s, e) \in Seq(S) /\ Append(s, e) # <<>>
         /\ DOMAIN Append(s, e) = DOMAIN s \cup {Len(s) + 1}
         /\ Len(s) + 1 \notin DOMAIN s
         /\ Len(s) \in Nat
         /\ \A n \in DOMAIN s : n \in Nat /\ n < Len(s) + 1 /\ Append(s, e)[n] = s[n]
         /\ Append(s, e)[Len(s) + 1] = e
OBVIOUS

LEMMA TailPlaces ==
  ASSUME NEW S, NEW s \in Seq(S), s # <<>>
  PROVE  /\ Tail(s) \in Seq(S) /\ Head(s) = s[1] /\ Head(s) \in S
         /\ 1 \in DOMAIN s
         /\ \A n \in DOMAIN Tail(s) :
              n \in Nat /\ n + 1 \in DOMAIN s /\ Tail(s)[n] = s[n + 1]
         /\ \A n \in DOMAIN s : n # 1 => n - 1 \in DOMAIN Tail(s) /\ n \in Nat /\ n > 1
OBVIOUS

LEMMA InitIInv == Init => IInv
<1> SUFFICES ASSUME Init PROVE IInv
  OBVIOUS
<1> USE FirstAssumption, BoundAssumption
<1>1. TypeOK
  <2>1. now \in 0 .. MaxTime /\ issued \in 1 .. MaxTimers /\ heap \subseteq Timers
    BY DEF Init, Timers
  <2>2. Serial!TypeOK
    BY DEF Init, Serial!Init, Serial!TypeOK, NoTimer
  <2>3. owner \in [Timers -> Queues] /\ due \in [Timers -> Nat]
    BY DEF Init
  <2>4. reserving \in [Queues -> Timers \cup {NoTimer}] /\ kept \subseteq Queues
    BY DEF Init
  <2>5. /\ pc \in [Threads -> PC] /\ seen \in [Threads -> Nat]
        /\ items \in [Threads -> Seq(Timers)]
    BY DEF Init, PC
  <2>6. ahead \in [Timers -> SUBSET Timers]
    BY Zenon DEF Init
  <2>7. distributing \in BOOLEAN /\ done \subseteq Timers
    BY DEF Init
  <2>8. QED
    BY <2>1, <2>2, <2>3, <2>4, <2>5, <2>6, <2>7 DEF TypeOK
<1>2. GateInv
  BY DEF Init, GateInv, Distributes
<1>3. \A i \in Timers : ~Made(i) /\ ~InHand(i) /\ ~Handed(i)
  BY DEF Init, Made, InHand, Handed, Waits, Runs, Timers, NoTimer, Serial!Init
<1>4. heap = {1} /\ issued = 1
  BY DEF Init
<1>5. FreshInv
  BY <1>3, <1>4 DEF FreshInv, Timers
<1>6. \A i \in 1 .. issued : AtOneStage(i)
  BY <1>3, <1>4 DEF AtOneStage, Handed, Timers
<1>7. OnePlace
  BY <1>6 DEF OnePlace, NoTwice, Init, Serial!Init
<1>8. TakenInv /\ InDueOrder
  BY <1>3 DEF TakenInv, InDueOrder, Init
<1>9. QED
  BY <1>1, <1>2, <1>5, <1>7, <1>8 DEF IInv

-----------------------------------------------------------------------------
(* Adding a new element to one of the sequences, or taking the head of one *)
(* away, leaves every element at one place.                                *)
LEMMA NoTwiceAppend ==
  ASSUME NEW D, NEW S, NEW f \in [D -> Seq(S)], NoTwice(f), NEW a \in D,
         NEW e \in S, \A b \in D : \A n \in DOMAIN f[b] : f[b][n] # e
  PROVE  NoTwice([f EXCEPT ![a] = Append(@, e)])
<1> DEFINE g == [f EXCEPT ![a] = Append(@, e)]
<1>1. DOMAIN g = D /\ DOMAIN f = D /\ f[a] \in Seq(S)
  OBVIOUS
<1>2. g[a] = Append(f[a], e) /\ \A b \in D : b # a => g[b] = f[b]
  BY <1>1
<1>3. ASSUME NEW b \in D, NEW m \in DOMAIN g[b]
      PROVE  \/ m \in DOMAIN f[b] /\ g[b][m] = f[b][m] /\ g[b][m] # e
             \/ b = a /\ m = Len(f[a]) + 1 /\ g[b][m] = e
  BY <1>1, <1>2, <1>3, AppendPlaces
<1>4. QED
  BY <1>1, <1>3 DEF NoTwice

LEMMA NoTwiceTail ==
  ASSUME NEW D, NEW S, NEW f \in [D -> Seq(S)], NoTwice(f), NEW a \in D,
         f[a] # <<>>
  PROVE  /\ NoTwice([f EXCEPT ![a] = Tail(@)])
         /\ \A b \in D : \A n \in DOMAIN [f EXCEPT ![a] = Tail(@)][b] :
              [f EXCEPT ![a] = Tail(@)][b][n] # Head(f[a])
<1> DEFINE g == [f EXCEPT ![a] = Tail(@)]
<1>1. DOMAIN g = D /\ DOMAIN f = D /\ f[a] \in Seq(S)
  OBVIOUS
<1>2. g[a] = Tail(f[a]) /\ \A b \in D : b # a => g[b] = f[b]
  BY <1>1
<1>3. Head(f[a]) = f[a][1] /\ 1 \in DOMAIN f[a]
  BY <1>1, TailPlaces
<1>4. ASSUME NEW m \in DOMAIN g[a]
      PROVE  m \in Nat /\ m + 1 \in DOMAIN f[a] /\ g[a][m] = f[a][m + 1]
  BY <1>1, <1>2, <1>4, TailPlaces
<1>5. ASSUME NEW b \in D, NEW c \in D, NEW m \in DOMAIN g[b],
             NEW n \in DOMAIN g[c], g[b][m] = g[c][n]
      PROVE  b = c /\ m = n
  <2>1. CASE b = a /\ c = a
    <3>1. m + 1 = n + 1
      BY <1>1, <1>4, <1>5, <2>1 DEF NoTwice
    <3>2. QED
      BY <1>4, <2>1, <3>1
  <2>2. CASE b = a /\ c # a
    BY <1>1, <1>2, <1>4, <1>5, <2>2 DEF NoTwice
  <2>3. CASE b # a /\ c = a
    BY <1>1, <1>2, <1>4, <1>5, <2>3 DEF NoTwice
  <2>4. CASE b # a /\ c # a
    BY <1>1, <1>2, <1>5, <2>4 DEF NoTwice
  <2>5. QED
    BY <2>1, <2>2, <2>3, <2>4
<1>6. ASSUME NEW b \in D, NEW n \in DOMAIN g[b], g[b][n] = Head(f[a])
      PROVE  FALSE
  <2>1. CASE b = a
    <3>1. n + 1 = 1 /\ n \in Nat /\ n >= 1
      <4>1. n \in DOMAIN Tail(f[a]) /\ Tail(f[a]) \in Seq(S)
        BY <1>1, <1>2, <1>6, <2>1, TailPlaces
      <4>2. n >= 1
        BY <4>1
      <4>3. QED
        BY <1>1, <1>3, <1>4, <1>6, <2>1, <4>2 DEF NoTwice
    <3>2. QED
      BY <3>1
  <2>2. CASE b # a
    BY <1>1, <1>2, <1>3, <1>6, <2>2 DEF NoTwice
  <2>3. QED
    BY <2>1, <2>2
<1>7. NoTwice(g)
  BY <1>1, <1>5 DEF NoTwice
<1>8. QED
  BY <1>6, <1>7

-----------------------------------------------------------------------------
(* The facts about the variables a step proof starts from. *)
LEMMA Typed ==
  ASSUME TypeOK
  PROVE  /\ issued \in Nat /\ issued <= MaxTimers /\ MaxTimers \in Nat
         /\ items \in [Threads -> Seq(Timers)]
         /\ waiting \in [Queues -> Seq(Timers)]
         /\ running \in [Queues -> Timers \cup {0}]
         /\ reserving \in [Queues -> Timers \cup {0}]
         /\ owner \in [Timers -> Queues] /\ due \in [Timers -> Nat]
         /\ ahead \in [Timers -> SUBSET Timers]
         /\ heap \subseteq Timers /\ done \subseteq Timers /\ 0 \notin Timers
         /\ \A i \in Timers : i \in Nat
BY BoundAssumption, SMTT(40) DEF TypeOK, Serial!TypeOK, NoTimer, Timers

LEMMA TypeStep ==
  ASSUME IInv, [Next]_vars
  PROVE  TypeOK'
<1> USE BoundAssumption DEF IInv, TypeOK, Serial!TypeOK, PC, NoTimer, Goto, vars,
        timerVars, queueVars
<1>1. CASE Tick
  BY <1>1 DEF Tick
<1>2. ASSUME NEW q \in Queues, Release(q) \/ Insert(q) PROVE TypeOK'
  BY <1>2 DEF Release, Insert
<1>3. ASSUME NEW q \in Queues, BeginJob(q) PROVE TypeOK'
  <2>1. waiting[q] \in Seq(Timers) /\ waiting[q] # <<>>
    BY <1>3 DEF BeginJob, Serial!Begin
  <2>2. Head(waiting[q]) \in Timers /\ Tail(waiting[q]) \in Seq(Timers)
    BY <2>1, TailPlaces
  <2>3. QED
    BY <1>3, <2>2 DEF BeginJob, Serial!Begin
<1>4. ASSUME NEW q \in Queues, EndJob(q) PROVE TypeOK'
  BY <1>4 DEF EndJob, Serial!End
<1>5. ASSUME NEW q \in Queues, NEW o \in Queues, NEW d \in 0 .. MaxDelay,
             Reserve(q, o, d)
      PROVE  TypeOK'
  <2>1. issued + 1 \in Timers /\ issued + 1 \in 1 .. MaxTimers /\ now + d \in Nat
    BY <1>5 DEF Reserve, Timers
  <2>2. QED
    BY <1>5, <2>1 DEF Reserve
<1>6. ASSUME NEW t \in Threads, Distribute(t) PROVE TypeOK'
  <2>1. CASE ReadClock(t) \/ Skip(t) \/ PopEnds(t)
    <3>1. now \in Nat /\ 0 \in Nat
      OBVIOUS
    <3>2. /\ seen' \in [Threads -> Nat] /\ pc' \in [Threads -> PC]
          /\ distributing' = distributing
      BY <2>1, <3>1 DEF ReadClock, Skip, PopEnds
    <3>3. QED
      BY <2>1, <3>2 DEF ReadClock, Skip, PopEnds
  <2>2. CASE Enter(t)
    BY <2>2 DEF Enter
  <2>3. CASE PushReturns(t) \/ Leave(t)
    BY <2>3 DEF PushReturns, Leave
  <2>4. CASE PopItem(t)
    <3>1. PICK i \in heap :
            /\ heap'  = heap \ {i}
            /\ items' = [items EXCEPT ![t] = Append(@, i)]
            /\ ahead' = [ahead EXCEPT ![i] =
                 {k \in Timers : (k \in heap \/ InHand(k)) /\ due[k] < due[i]}]
      BY <2>4 DEF PopItem
    <3>2. items[t] \in Seq(Timers) /\ i \in Timers
      BY <3>1
    <3>3. Append(items[t], i) \in Seq(Timers)
      BY <3>2
    <3>4. items' \in [Threads -> Seq(Timers)] /\ heap' \subseteq Timers
      BY <3>1, <3>3
    <3>5. ahead' \in [Timers -> SUBSET Timers]
      <4> DEFINE A == {k \in Timers : (k \in heap \/ InHand(k)) /\ due[k] < due[i]}
      <4>1. A \in SUBSET Timers
        OBVIOUS
      <4> HIDE DEF A
      <4>2. ahead' = [ahead EXCEPT ![i] = A]
        BY <3>1 DEF A
      <4>3. QED
        BY <4>1, <4>2
    <3>6. QED
      BY <2>4, <3>4, <3>5 DEF PopItem
  <2>5. CASE Hand(t)
    <3>1. items[t] \in Seq(Timers) /\ items[t] # <<>>
      BY <2>5 DEF Hand
    <3>2. Head(items[t]) \in Timers /\ Tail(items[t]) \in Seq(Timers)
      BY <3>1, TailPlaces
    <3>3. items' \in [Threads -> Seq(Timers)]
      BY <2>5, <3>2 DEF Hand
    <3>4. owner[Head(items[t])] \in Queues
      BY <3>2
    <3>5. /\ waiting' \in [Queues -> Seq(Timers)] /\ pc' \in [Threads -> PC]
          /\ running' \in [Queues -> Timers \cup {NoTimer}]
      <4>1. CASE Alive(owner[Head(items[t])])
        <5>1. Append(waiting[owner[Head(items[t])]], Head(items[t])) \in Seq(Timers)
          BY <3>2, <3>4
        <5>2. QED
          BY <2>5, <3>2, <3>4, <4>1, <5>1 DEF Hand, Serial!Submit
      <4>2. CASE ~Alive(owner[Head(items[t])])
        BY <2>5, <4>2 DEF Hand
      <4>3. QED
        BY <4>1, <4>2
    <3>6. QED
      BY <2>5, <3>3, <3>5 DEF Hand
  <2>6. QED
    BY <1>6, <2>1, <2>2, <2>3, <2>4, <2>5 DEF Distribute
<1>7. CASE UNCHANGED vars
  BY <1>7
<1>8. QED
  BY <1>1, <1>2, <1>3, <1>4, <1>5, <1>6, <1>7 DEF Next

LEMMA GateStep ==
  ASSUME IInv, [Next]_vars
  PROVE  GateInv'
<1> USE DEF IInv, GateInv, Distributes, Goto, vars, timerVars, queueVars
<1>1. TypeOK'
  BY TypeStep
<1>2. /\ pc \in [Threads -> PC] /\ pc' \in [Threads -> PC]
      /\ items \in [Threads -> Seq(Timers)]
  BY <1>1 DEF TypeOK
<1>3. CASE UNCHANGED <<pc, items, distributing>>
  BY <1>3
<1>4. ASSUME NEW t \in Threads, Distribute(t) PROVE GateInv'
  <2>1. CASE ReadClock(t)
    BY <1>2, <2>1 DEF ReadClock
  <2>2. CASE Skip(t)
    BY <1>2, <2>2 DEF Skip
  <2>3. CASE Enter(t)
    BY <1>2, <2>3 DEF Enter
  <2>4. CASE PopItem(t)
    <3>1. \A u \in Threads : u # t => items'[u] = items[u]
      BY <1>2, <2>4 DEF PopItem
    <3>2. QED
      BY <1>2, <2>4, <3>1 DEF PopItem
  <2>5. CASE PopEnds(t)
    BY <1>2, <2>5 DEF PopEnds
  <2>6. CASE PushReturns(t)
    BY <1>2, <2>6 DEF PushReturns
  <2>7. CASE Hand(t)
    BY <1>2, <2>7 DEF Hand, Serial!Submit
  <2>8. CASE Leave(t)
    BY <1>2, <2>8 DEF Leave
  <2>9. QED
    BY <1>4, <2>1, <2>3, <2>4, <2>5, <2>7, <2>8, <2>2, <2>6 DEF Distribute
<1>5. QED
  BY <1>3, <1>4 DEF Next, Tick, Release, Insert, BeginJob, EndJob, Reserve

-----------------------------------------------------------------------------
PlaceInv == FreshInv /\ OnePlace /\ TakenInv /\ InDueOrder

(* A step that moves no timer. *)
LEMMA QuietPlaces ==
  ASSUME IInv,
         UNCHANGED <<issued, reserving, heap, items, waiting, running, done, ahead>>
  PROVE  PlaceInv'
BY DEF IInv, PlaceInv, FreshInv, OnePlace, TakenInv, InDueOrder, AtOneStage,
       NoTwice, Made, InHand, Waits, Runs, Handed

(* A name that was given is at a place, one that was not is nowhere. *)
LEMMA WhereIs ==
  ASSUME IInv, NEW i \in Timers,
         Made(i) \/ i \in heap \/ InHand(i) \/ Handed(i)
  PROVE  i \in 1 .. issued /\ AtOneStage(i)
BY Typed DEF IInv, FreshInv, OnePlace

LEMMA ReserveStep ==
  ASSUME IInv, NEW q \in Queues, NEW o \in Queues, NEW d \in 0 .. MaxDelay,
         Reserve(q, o, d)
  PROVE  PlaceInv'
<1> DEFINE new == issued + 1
<1>1. new \in Timers /\ issued' = new /\ new \in Nat /\ issued \in Nat
  BY Typed, BoundAssumption DEF IInv, Reserve, Timers
<1>2. /\ reserving \in [Queues -> Timers \cup {0}] /\ reserving[q] = 0
      /\ reserving' = [reserving EXCEPT ![q] = new]
  BY Typed DEF IInv, Reserve, NoTimer
<1>3. UNCHANGED <<heap, items, waiting, running, done, ahead>>
  BY DEF Reserve, queueVars
<1>4. ~(Made(new) \/ new \in heap \/ InHand(new) \/ Handed(new))
  BY <1>1 DEF IInv, FreshInv
<1> HIDE DEF new
<1>5. \A i \in Timers : Made(i)' <=> Made(i) \/ i = new
  BY <1>1, <1>2, Typed DEF Made, IInv
<1>6. \A i \in Timers :
        (InHand(i)' <=> InHand(i)) /\ (Waits(i)' <=> Waits(i)) /\ (Runs(i)' <=> Runs(i))
  BY <1>3 DEF InHand, Waits, Runs
<1>7. \A i \in Timers : Handed(i)' <=> Handed(i)
  BY <1>3, <1>6 DEF Handed
<1>8. FreshInv'
  <2>1. \A i \in Timers : i > new => i > issued /\ i # new
    BY <1>1 DEF new, Timers
  <2>2. QED
    BY <1>1, <1>3, <1>5, <1>6, <1>7, <2>1 DEF FreshInv, IInv
<1>9. \A i \in 1 .. issued' : AtOneStage(i)'
  <2>1. ASSUME NEW i \in 1 .. issued' PROVE i \in Timers /\ (i = new \/ i \in 1 .. issued)
    BY <1>1, BoundAssumption DEF Timers, new
  <2>2. \A i \in 1 .. issued : i # new /\ AtOneStage(i)
    BY <1>1 DEF IInv, OnePlace, new
  <2>3. QED
    BY <1>3, <1>4, <1>5, <1>6, <1>7, <2>1, <2>2 DEF AtOneStage, Handed
<1>10. OnePlace'
  <2>1. NoTwice(items)' /\ NoTwice(waiting)'
    BY <1>3 DEF NoTwice, IInv, OnePlace
  <2>2. ASSUME NEW p \in Queues, NEW r \in Queues, p # r
        PROVE  /\ (reserving[p] = reserving[r] => reserving[p] = NoTimer)'
               /\ (running[p] = running[r] => running[p] = NoTimer)'
    <3>1. reserving[p] # new /\ reserving[r] # new
      BY <1>4 DEF Made
    <3>2. QED
      BY <1>2, <1>3, <2>2, <3>1 DEF IInv, OnePlace
  <2>3. QED
    BY <1>9, <2>1, <2>2 DEF OnePlace
<1>11. TakenInv'
  BY <1>3 DEF IInv, TakenInv, Handed, Waits, Runs
<1>12. InDueOrder'
  BY <1>3, <1>7, Typed DEF IInv, InDueOrder
<1>13. QED
  BY <1>8, <1>10, <1>11, <1>12 DEF PlaceInv

LEMMA InsertStep ==
  ASSUME IInv, NEW q \in Queues, Insert(q)
  PROVE  PlaceInv'
<1> DEFINE j == reserving[q]
<1>1. /\ j \in Timers /\ heap' = heap \cup {j}
      /\ reserving \in [Queues -> Timers \cup {0}]
      /\ reserving' = [reserving EXCEPT ![q] = 0]
  BY Typed DEF IInv, Insert, NoTimer
<1>2. UNCHANGED <<issued, items, waiting, running, done, ahead>>
  BY DEF Insert, queueVars, timerVars
<1>3. Made(j) /\ j \in 1 .. issued /\ AtOneStage(j)
  BY <1>1, WhereIs DEF Made
<1>4. \A p \in Queues : p # q => reserving[p] # j
  BY <1>1, Typed DEF IInv, OnePlace, NoTimer
<1> HIDE DEF j
<1>5. \A i \in Timers : Made(i)' <=> Made(i) /\ i # j
  <2>1. \A p \in Queues : reserving'[p] = IF p = q THEN 0 ELSE reserving[p]
    BY <1>1
  <2>2. reserving[q] = j
    BY DEF j
  <2>3. QED
    BY <1>4, <2>1, <2>2, Typed DEF Made, IInv
<1>6. \A i \in Timers :
        (InHand(i)' <=> InHand(i)) /\ (Waits(i)' <=> Waits(i)) /\ (Runs(i)' <=> Runs(i))
  BY <1>2 DEF InHand, Waits, Runs
<1>7. \A i \in Timers : Handed(i)' <=> Handed(i)
  BY <1>2, <1>6 DEF Handed
<1>8. FreshInv'
  BY <1>1, <1>2, <1>3, <1>5, <1>6, <1>7, Typed DEF FreshInv, IInv
<1>9. \A i \in 1 .. issued' : AtOneStage(i)'
  <2>1. \A i \in 1 .. issued : AtOneStage(i) /\ i \in Timers
    BY Typed DEF IInv, OnePlace, Timers
  <2>2. QED
    BY <1>1, <1>2, <1>3, <1>5, <1>6, <1>7, <2>1 DEF AtOneStage
<1>10. OnePlace'
  <2>1. NoTwice(items)' /\ NoTwice(waiting)'
    BY <1>2 DEF NoTwice, IInv, OnePlace
  <2>2. \A p, r \in Queues : p # r =>
          /\ (reserving[p] = reserving[r] => reserving[p] = NoTimer)'
          /\ (running[p] = running[r] => running[p] = NoTimer)'
    BY <1>1, <1>2 DEF IInv, OnePlace, NoTimer
  <2>3. QED
    BY <1>9, <2>1, <2>2 DEF OnePlace
<1>11. TakenInv'
  BY <1>2 DEF IInv, TakenInv, Handed, Waits, Runs
<1>12. InDueOrder'
  BY <1>2, <1>7, Typed DEF IInv, InDueOrder
<1>13. QED
  BY <1>8, <1>10, <1>11, <1>12 DEF PlaceInv

LEMMA BeginStep ==
  ASSUME IInv, NEW q \in Queues, BeginJob(q)
  PROVE  PlaceInv'
<1> DEFINE j == Head(waiting[q])
<1>1. /\ waiting \in [Queues -> Seq(Timers)] /\ waiting[q] # <<>>
      /\ waiting' = [waiting EXCEPT ![q] = Tail(@)]
      /\ running \in [Queues -> Timers \cup {0}] /\ running[q] = 0
      /\ running' = [running EXCEPT ![q] = j]
  BY Typed DEF IInv, BeginJob, Serial!Begin, NoTimer
<1>2. UNCHANGED <<issued, reserving, heap, items, done, ahead>>
  BY DEF BeginJob, timerVars
<1>3. j \in Timers /\ 1 \in DOMAIN waiting[q] /\ waiting[q][1] = j
  BY <1>1, TailPlaces
<1>4. Waits(j) /\ j \in 1 .. issued /\ AtOneStage(j)
  BY <1>3, WhereIs DEF Waits, Handed
<1>5. /\ NoTwice(waiting')
      /\ \A p \in Queues : \A n \in DOMAIN waiting'[p] : waiting'[p][n] # j
  BY <1>1, NoTwiceTail DEF IInv, OnePlace
<1>6. \A i \in Timers : Waits(i)' <=> Waits(i) /\ i # j
  <2>1. \A p \in Queues : p # q => waiting'[p] = waiting[p]
    BY <1>1
  <2>2. waiting'[q] = Tail(waiting[q])
    BY <1>1
  <2>3. \A n \in DOMAIN waiting'[q] :
          n + 1 \in DOMAIN waiting[q] /\ waiting'[q][n] = waiting[q][n + 1]
    BY <1>1, <2>2, TailPlaces
  <2>4. \A n \in DOMAIN waiting[q] : n # 1 =>
          n - 1 \in DOMAIN waiting'[q] /\ waiting'[q][n - 1] = waiting[q][n]
    BY <1>1, <2>2, TailPlaces
  <2>5. ASSUME NEW i \in Timers, Waits(i)' PROVE Waits(i) /\ i # j
    BY <1>5, <2>1, <2>3, <2>5 DEF Waits
  <2>6. ASSUME NEW i \in Timers, Waits(i), i # j PROVE Waits(i)'
    <3>1. PICK p \in Queues : \E n \in DOMAIN waiting[p] : waiting[p][n] = i
      BY <2>6 DEF Waits
    <3>2. PICK n \in DOMAIN waiting[p] : waiting[p][n] = i
      BY <3>1
    <3>3. CASE p = q
      BY <1>3, <2>4, <2>6, <3>2, <3>3 DEF Waits
    <3>4. CASE p # q
      BY <2>1, <3>2, <3>4 DEF Waits
    <3>5. QED
      BY <3>3, <3>4
  <2>7. QED
    BY <2>5, <2>6
<1> HIDE DEF j
<1>7. \A i \in Timers : Runs(i)' <=> Runs(i) \/ i = j
  BY <1>1, <1>3, Typed DEF Runs, IInv
<1>8. \A i \in Timers : (Made(i)' <=> Made(i)) /\ (InHand(i)' <=> InHand(i))
  BY <1>2 DEF Made, InHand
<1>9. \A i \in Timers : Handed(i)' <=> Handed(i)
  BY <1>2, <1>4, <1>6, <1>7 DEF Handed
<1>10. FreshInv'
  BY <1>2, <1>8, <1>9 DEF FreshInv, IInv
<1>11. \A i \in 1 .. issued' : AtOneStage(i)'
  <2>1. \A i \in 1 .. issued : AtOneStage(i) /\ i \in Timers
    BY Typed DEF IInv, OnePlace, Timers
  <2>2. QED
    BY <1>2, <1>4, <1>6, <1>7, <1>8, <1>9, <2>1 DEF AtOneStage
<1>12. OnePlace'
  <2>1. NoTwice(items)' /\ NoTwice(waiting)'
    BY <1>2, <1>5 DEF NoTwice, IInv, OnePlace
  <2>2. \A p \in Queues : running[p] # j
    BY <1>4 DEF AtOneStage, Runs
  <2>3. \A p, r \in Queues : p # r =>
          /\ (reserving[p] = reserving[r] => reserving[p] = NoTimer)'
          /\ (running[p] = running[r] => running[p] = NoTimer)'
    BY <1>1, <1>2, <2>2 DEF IInv, OnePlace
  <2>4. QED
    BY <1>11, <2>1, <2>3 DEF OnePlace
<1>13. TakenInv'
  BY <1>2, <1>9, Typed DEF IInv, TakenInv
<1>14. InDueOrder'
  BY <1>2, <1>9, Typed DEF IInv, InDueOrder
<1>15. QED
  BY <1>10, <1>12, <1>13, <1>14 DEF PlaceInv

LEMMA EndStep ==
  ASSUME IInv, NEW q \in Queues, EndJob(q)
  PROVE  PlaceInv'
<1> DEFINE j == running[q]
<1>1. /\ running \in [Queues -> Timers \cup {0}] /\ j \in Timers
      /\ running' = [running EXCEPT ![q] = 0]
      /\ done' = done \cup {j}
  BY Typed DEF IInv, EndJob, Serial!End, NoTimer
<1>2. UNCHANGED <<issued, reserving, heap, items, waiting, ahead>>
  BY DEF EndJob, timerVars, Serial!End
<1>3. Runs(j) /\ j \in 1 .. issued /\ AtOneStage(j)
  BY <1>1, WhereIs DEF Runs, Handed
<1>4. \A p \in Queues : p # q => running[p] # j
  BY <1>1, Typed DEF IInv, OnePlace, NoTimer
<1>5. \A i \in Timers : Runs(i)' <=> Runs(i) /\ i # j
  <2>1. \A p \in Queues : running'[p] = IF p = q THEN 0 ELSE running[p]
    BY <1>1
  <2>2. QED
    BY <1>4, <2>1, Typed DEF Runs, IInv
<1> HIDE DEF j
<1>6. \A i \in Timers :
        (Made(i)' <=> Made(i)) /\ (InHand(i)' <=> InHand(i)) /\ (Waits(i)' <=> Waits(i))
  BY <1>2 DEF Made, InHand, Waits
<1>7. \A i \in Timers : Handed(i)' <=> Handed(i)
  BY <1>1, <1>3, <1>5, <1>6 DEF Handed
<1>8. FreshInv'
  BY <1>2, <1>6, <1>7 DEF FreshInv, IInv
<1>9. \A i \in 1 .. issued' : AtOneStage(i)'
  <2>1. \A i \in 1 .. issued : AtOneStage(i) /\ i \in Timers
    BY Typed DEF IInv, OnePlace, Timers
  <2>2. QED
    BY <1>1, <1>2, <1>3, <1>5, <1>6, <1>7, <2>1 DEF AtOneStage
<1>10. OnePlace'
  <2>1. NoTwice(items)' /\ NoTwice(waiting)'
    BY <1>2 DEF NoTwice, IInv, OnePlace
  <2>2. \A p, r \in Queues : p # r =>
          /\ (reserving[p] = reserving[r] => reserving[p] = NoTimer)'
          /\ (running[p] = running[r] => running[p] = NoTimer)'
    BY <1>1, <1>2 DEF IInv, OnePlace, NoTimer
  <2>3. QED
    BY <1>9, <2>1, <2>2 DEF OnePlace
<1>11. TakenInv'
  BY <1>2, <1>7, Typed DEF IInv, TakenInv
<1>12. InDueOrder'
  BY <1>2, <1>7, Typed DEF IInv, InDueOrder
<1>13. QED
  BY <1>8, <1>10, <1>11, <1>12 DEF PlaceInv

LEMMA PopStep ==
  ASSUME IInv, NEW t \in Threads, PopItem(t)
  PROVE  PlaceInv'
<1>1. PICK j \in heap :
        /\ \A k \in heap : due[j] <= due[k]
        /\ heap'  = heap \ {j}
        /\ items' = [items EXCEPT ![t] = Append(@, j)]
        /\ ahead' = [ahead EXCEPT ![j] =
             {k \in Timers : (k \in heap \/ InHand(k)) /\ due[k] < due[j]}]
  BY DEF PopItem
<1>2. UNCHANGED <<issued, reserving, waiting, running, done>> /\ Distributes(t)
  BY DEF PopItem, timerVars, queueVars, Distributes
<1>3. /\ items \in [Threads -> Seq(Timers)] /\ j \in Timers
      /\ ahead \in [Timers -> SUBSET Timers] /\ due \in [Timers -> Nat]
  BY <1>1, Typed DEF IInv
<1>4. j \in 1 .. issued /\ AtOneStage(j)
  BY <1>1, <1>3, WhereIs
<1>5. ~InHand(j) /\ ~Handed(j) /\ ~Made(j)
  BY <1>1, <1>4 DEF AtOneStage
<1>6. /\ \A u \in Threads : u # t => items'[u] = items[u] /\ items[u] = <<>>
      /\ items'[t] = Append(items[t], j)
  BY <1>1, <1>2, <1>3 DEF IInv, GateInv
<1>7. /\ DOMAIN items'[t] = DOMAIN items[t] \cup {Len(items[t]) + 1}
      /\ Len(items[t]) + 1 \notin DOMAIN items[t]
      /\ \A n \in DOMAIN items[t] :
           n \in Nat /\ n < Len(items[t]) + 1 /\ items'[t][n] = items[t][n]
      /\ items'[t][Len(items[t]) + 1] = j
  BY <1>3, <1>6, AppendPlaces
<1>8. \A i \in Timers : InHand(i)' <=> InHand(i) \/ i = j
  BY <1>6, <1>7 DEF InHand
<1>9. \A i \in Timers :
        (Made(i)' <=> Made(i)) /\ (Waits(i)' <=> Waits(i)) /\ (Runs(i)' <=> Runs(i))
  BY <1>2 DEF Made, Waits, Runs
<1>10. \A i \in Timers : Handed(i)' <=> Handed(i)
  BY <1>2, <1>9 DEF Handed
<1>11. FreshInv'
  BY <1>1, <1>2, <1>4, <1>8, <1>9, <1>10, Typed DEF FreshInv, IInv
<1>12. \A i \in 1 .. issued' : AtOneStage(i)'
  <2>1. \A i \in 1 .. issued : AtOneStage(i) /\ i \in Timers
    BY Typed DEF IInv, OnePlace, Timers
  <2>2. QED
    BY <1>1, <1>2, <1>5, <1>8, <1>9, <1>10, <2>1 DEF AtOneStage
<1>13. OnePlace'
  <2>1. \A u \in Threads : \A n \in DOMAIN items[u] : items[u][n] # j
    BY <1>5 DEF InHand
  <2>2. NoTwice(items')
    BY <1>1, <1>3, <2>1, NoTwiceAppend DEF IInv, OnePlace
  <2>3. NoTwice(items)' /\ NoTwice(waiting)'
    BY <1>2, <2>2 DEF NoTwice, IInv, OnePlace
  <2>4. QED
    BY <1>2, <1>12, <2>3 DEF IInv, OnePlace
<1>14. TakenInv'
  <2>1. SUFFICES ASSUME NEW n \in DOMAIN items'[t], NEW k \in ahead'[items'[t][n]]
                 PROVE  Handed(k)' \/ \E m \in DOMAIN items'[t] : m < n /\ items'[t][m] = k
    BY <1>6 DEF TakenInv
  <2>2. CASE n \in DOMAIN items[t]
    <3>1. items'[t][n] = items[t][n] /\ items[t][n] # j /\ items[t][n] \in Timers
      BY <1>3, <1>5, <1>7, <2>2 DEF InHand
    <3>2. k \in ahead[items[t][n]] /\ k \in Timers
      BY <1>1, <1>3, <2>1, <3>1
    <3>3. Handed(k) \/ \E m \in DOMAIN items[t] : m < n /\ items[t][m] = k
      BY <2>2, <3>2 DEF IInv, TakenInv
    <3>4. QED
      BY <1>7, <1>10, <3>2, <3>3
  <2>3. CASE n = Len(items[t]) + 1
    <3>1. k \in Timers /\ (k \in heap \/ InHand(k)) /\ due[k] < due[j]
      BY <1>1, <1>3, <1>7, <2>1, <2>3
    <3>2. InHand(k)
      BY <1>1, <1>3, <3>1
    <3>3. PICK u \in Threads : \E m \in DOMAIN items[u] : items[u][m] = k
      BY <3>2 DEF InHand
    <3>4. u = t
      BY <1>3, <1>6, <3>3
    <3>5. PICK m \in DOMAIN items[t] : items[t][m] = k
      BY <3>3, <3>4
    <3>6. QED
      BY <1>7, <2>3, <3>5
  <2>4. QED
    BY <1>7, <2>2, <2>3
<1>15. InDueOrder'
  <2>1. \A i \in Timers : Handed(i) => i # j /\ ahead'[i] = ahead[i]
    BY <1>1, <1>3, <1>5
  <2>2. QED
    BY <1>3, <1>10, <2>1 DEF IInv, InDueOrder
<1>16. QED
  BY <1>11, <1>13, <1>14, <1>15 DEF PlaceInv

(* The owner of an item in hand is alive: its own job holds it. *)
LEMMA OwnerAlive ==
  ASSUME IInv, NEW i \in Timers, InHand(i)
  PROVE  Alive(owner[i])
BY WhereIs DEF AtOneStage, Handed, Alive

LEMMA HandStep ==
  ASSUME IInv, NEW t \in Threads, Hand(t)
  PROVE  PlaceInv'
<1> DEFINE j == Head(items[t])
<1> DEFINE o == owner[j]
<1>1. /\ items \in [Threads -> Seq(Timers)] /\ items[t] # <<>>
      /\ items' = [items EXCEPT ![t] = Tail(@)]
      /\ waiting \in [Queues -> Seq(Timers)]
  BY Typed DEF IInv, Hand
<1>2. /\ j \in Timers /\ 1 \in DOMAIN items[t] /\ items[t][1] = j /\ o \in Queues
      /\ \A n \in DOMAIN Tail(items[t]) :
           n \in Nat /\ n + 1 \in DOMAIN items[t] /\ Tail(items[t])[n] = items[t][n + 1]
      /\ \A n \in DOMAIN items[t] : n # 1 =>
           n - 1 \in DOMAIN Tail(items[t]) /\ n \in Nat /\ n > 1
  BY <1>1, TailPlaces, Typed DEF IInv
<1>3. InHand(j)
  BY <1>2 DEF InHand
<1>4. waiting' = [waiting EXCEPT ![o] = Append(@, j)]
  BY <1>2, <1>3, OwnerAlive DEF Hand, Serial!Submit
<1>5. UNCHANGED <<issued, reserving, heap, running, done, ahead>>
  BY <1>2, <1>3, OwnerAlive DEF Hand, timerVars, Serial!Submit
<1>6. j \in 1 .. issued /\ AtOneStage(j)
  BY <1>2, <1>3, WhereIs
<1>7. ~Handed(j) /\ ~Made(j) /\ j \notin heap
  BY <1>3, <1>6 DEF AtOneStage
<1>8. /\ \A u \in Threads : u # t => items'[u] = items[u]
      /\ items'[t] = Tail(items[t])
  BY <1>1
<1>9. /\ NoTwice(items')
      /\ \A u \in Threads : \A n \in DOMAIN items'[u] : items'[u][n] # j
  BY <1>1, NoTwiceTail DEF IInv, OnePlace
<1>10. \A i \in Timers : InHand(i)' <=> InHand(i) /\ i # j
  <2>1. ASSUME NEW i \in Timers, InHand(i)' PROVE InHand(i) /\ i # j
    <3>1. PICK u \in Threads : \E n \in DOMAIN items'[u] : items'[u][n] = i
      BY <2>1 DEF InHand
    <3>2. PICK n \in DOMAIN items'[u] : items'[u][n] = i
      BY <3>1
    <3>3. i # j
      BY <1>9, <3>2
    <3>4. CASE u = t
      BY <1>2, <1>8, <3>2, <3>3, <3>4, ZenonT(40) DEF InHand
    <3>5. CASE u # t
      BY <1>8, <3>2, <3>3, <3>5 DEF InHand
    <3>6. QED
      BY <3>4, <3>5
  <2>2. ASSUME NEW i \in Timers, InHand(i), i # j PROVE InHand(i)'
    <3>1. PICK u \in Threads : \E n \in DOMAIN items[u] : items[u][n] = i
      BY <2>2 DEF InHand
    <3>2. PICK n \in DOMAIN items[u] : items[u][n] = i
      BY <3>1
    <3>3. CASE u = t
      <4>1. n # 1
        BY <1>2, <2>2, <3>2, <3>3
      <4>2. n - 1 \in DOMAIN items'[t] /\ items'[t][n - 1] = i
        BY <1>2, <1>8, <3>2, <3>3, <4>1
      <4>3. QED
        BY <4>2 DEF InHand
    <3>4. CASE u # t
      BY <1>8, <3>2, <3>4 DEF InHand
    <3>5. QED
      BY <3>3, <3>4
  <2>3. QED
    BY <2>1, <2>2
<1>11. \A i \in Timers : Waits(i)' <=> Waits(i) \/ i = j
  <2>1. \A p \in Queues : p # o => waiting'[p] = waiting[p]
    BY <1>1, <1>2, <1>4
  <2>2. waiting'[o] = Append(waiting[o], j) /\ waiting[o] \in Seq(Timers)
    BY <1>1, <1>2, <1>4
  <2> HIDE DEF o, j
  <2>3. /\ DOMAIN waiting'[o] = DOMAIN waiting[o] \cup {Len(waiting[o]) + 1}
        /\ \A n \in DOMAIN waiting[o] : waiting'[o][n] = waiting[o][n]
        /\ waiting'[o][Len(waiting[o]) + 1] = j
        /\ Len(waiting[o]) + 1 \notin DOMAIN waiting[o]
    BY <1>2, <2>2, AppendPlaces
  <2>4. QED
    BY <1>2, <2>1, <2>3 DEF Waits
<1>12. \A i \in Timers : (Made(i)' <=> Made(i)) /\ (Runs(i)' <=> Runs(i))
  BY <1>5 DEF Made, Runs
<1>13. \A i \in Timers : Handed(i)' <=> Handed(i) \/ i = j
  BY <1>5, <1>11, <1>12 DEF Handed
<1>14. NoTwice(waiting')
  <2>1. \A p \in Queues : \A n \in DOMAIN waiting[p] : waiting[p][n] # j
    BY <1>7 DEF Handed, Waits
  <2>2. QED
    BY <1>1, <1>2, <1>4, <2>1, NoTwiceAppend DEF IInv, OnePlace
<1>15. \A k \in ahead[j] : Handed(k) /\ k \in Timers
  <2>1. \A m \in DOMAIN items[t] : ~(m < 1)
    BY <1>1
  <2>2. QED
    BY <1>2, <2>1, Typed DEF IInv, TakenInv
<1> HIDE DEF j, o
<1>16. FreshInv'
  BY <1>5, <1>6, <1>10, <1>12, <1>13, Typed DEF FreshInv, IInv
<1>17. \A i \in 1 .. issued' : AtOneStage(i)'
  <2>1. \A i \in 1 .. issued : AtOneStage(i) /\ i \in Timers
    BY Typed DEF IInv, OnePlace, Timers
  <2>2. QED
    BY <1>3, <1>5, <1>7, <1>10, <1>11, <1>12, <1>13, <2>1 DEF AtOneStage, Handed
<1>18. OnePlace'
  <2>1. NoTwice(items)' /\ NoTwice(waiting)'
    BY <1>9, <1>14 DEF NoTwice
  <2>2. QED
    BY <1>5, <1>17, <2>1 DEF IInv, OnePlace
<1>19. TakenInv'
  <2>1. SUFFICES ASSUME NEW u \in Threads, NEW n \in DOMAIN items'[u],
                        NEW k \in ahead[items'[u][n]]
                 PROVE  Handed(k)' \/ \E m \in DOMAIN items'[u] : m < n /\ items'[u][m] = k
    BY <1>5 DEF TakenInv
  <2>2. CASE u = t
    <3>1. n \in Nat /\ n + 1 \in DOMAIN items[t] /\ items'[t][n] = items[t][n + 1]
      BY <1>2, <1>8, <2>2
    <3>2. k \in ahead[items[t][n + 1]] /\ k \in Timers
      BY <1>1, <2>1, <2>2, <3>1, Typed DEF IInv
    <3>3. Handed(k) \/ \E m \in DOMAIN items[t] : m < n + 1 /\ items[t][m] = k
      BY <3>1, <3>2 DEF IInv, TakenInv
    <3>4. ASSUME NEW m \in DOMAIN items[t], m < n + 1, items[t][m] = k
          PROVE  k = j \/ \E l \in DOMAIN items'[t] : l < n /\ items'[t][l] = k
      <4>1. CASE m = 1
        BY <1>2, <3>4, <4>1
      <4>2. CASE m # 1
        <5>1. m - 1 \in DOMAIN items'[t] /\ m \in Nat /\ items'[t][m - 1] = items[t][m]
          BY <1>2, <1>8, <4>2
        <5>2. m - 1 < n
          BY <3>1, <3>4, <5>1
        <5>3. QED
          BY <3>4, <5>1, <5>2
      <4>3. QED
        BY <4>1, <4>2
    <3>5. QED
      BY <1>13, <2>2, <3>2, <3>3, <3>4
  <2>3. CASE u # t
    <3>1. k \in Timers
      BY <1>1, <1>8, <2>1, <2>3, Typed DEF IInv
    <3>2. QED
      BY <1>8, <1>13, <2>1, <2>3, <3>1 DEF IInv, TakenInv
  <2>4. QED
    BY <2>2, <2>3
<1>20. InDueOrder'
  BY <1>5, <1>13, <1>15, Typed DEF IInv, InDueOrder
<1>21. QED
  BY <1>16, <1>18, <1>19, <1>20 DEF PlaceInv

-----------------------------------------------------------------------------
LEMMA StepIInv ==
  ASSUME IInv, [Next]_vars
  PROVE  IInv'
<1>1. PlaceInv'
  <2>1. CASE \/ Tick \/ \E q \in Queues : Release(q)
             \/ \E t \in Threads :
                  \/ ReadClock(t) \/ Skip(t) \/ Enter(t) \/ PopEnds(t)
                  \/ PushReturns(t) \/ Leave(t)
    BY <2>1, QuietPlaces DEF Tick, Release, ReadClock, Skip, Enter, PopEnds,
       PushReturns, Leave, timerVars, queueVars
  <2>2. CASE UNCHANGED vars
    BY <2>2, QuietPlaces DEF vars
  <2>3. QED
    BY <2>1, <2>2, ReserveStep, InsertStep, BeginStep, EndStep, PopStep, HandStep
       DEF Next, Distribute
<1>2. QED
  BY <1>1, TypeStep, GateStep DEF IInv, PlaceInv

(* The invariant holds in every state of every behaviour. *)
THEOREM Invariance == Spec => []IInv
<1>1. Init => IInv
  BY InitIInv
<1>2. IInv /\ [Next]_vars => IInv'
  BY StepIInv
<1>3. QED
  BY <1>1, <1>2, PTL DEF Spec

(* JobTimer.cpp: every variable stays in its type. *)
THEOREM TypeCorrect == Spec => []TypeOK
BY Invariance, PTL DEF IInv

(* JobTimer.cpp:9-54, Job.h:18-26: a timer that was reserved is at exactly *)
(* one place until its job has ended, for any number of threads, queues    *)
(* and timers; in particular lock() on the owner of an item never fails.   *)
THEOREM NothingLost == Spec => []OnePlace
BY Invariance, PTL DEF IInv

(* JobTimer.cpp:22, 29-53: the gate keeps the order of the due times over  *)
(* rounds distributed by different threads.                                *)
THEOREM DueOrder == Spec => []InDueOrder
BY Invariance, PTL DEF IInv
=============================================================================
