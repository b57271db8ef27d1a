-------------------------- MODULE DeadLockProfiler --------------------------
(***************************************************************************)
(* The deadlock profiler of debug builds: every WriteLock and ReadLock     *)
(* first tells it the name of the lock, before it spins for the flag; the  *)
(* profiler keeps which name was taken right after which, on any thread    *)
(* and at any time, and ends the program when these edges form a cycle.    *)
(*                                                                         *)
(* A name is that of the class of the lock's owner (WRITE_LOCK passes      *)
(* typeid(this).name()), so several locks share one.  Guards are scoped    *)
(* objects: they are left in the reverse order, and PopLock always finds   *)
(* its own lock on top.  The locks are taken by their promise              *)
(* (ReadWriteLock); a thread keeps to the rule of Lock.h:15 and writes no  *)
(* lock it only reads.  PushLock runs under one mutex: it is one step.     *)
(*                                                                         *)
(* Names differ from those of RWLock, so that one module can extend both.  *)
(***************************************************************************)
EXTENDS Integers, Sequences, SequencesExt, FiniteSetsExt

CONSTANTS
  Workers,   \* threads that take locks
  Locks,     \* Lock objects
  Names,     \* classes that own locks
  NameOf,    \* the class of each lock
  MaxGuards  \* bound: guards a thread nests

ASSUME NameAssumption   == NameOf \in [Locks -> Names]
ASSUME GuardsAssumption == MaxGuards \in Nat

VARIABLES
  ids,      \* _nameToId: the names met so far, by their ids
  history,  \* _lockHistory: <<a, b>> when b was pushed onto a
  guards,   \* guards of each thread; their names are its LLockStack
  detected, \* DEADLOCK_DETECTED
  report    \* the edges printed before the crash

profilerVars == <<ids, history, guards, detected, report>>

Modes == {"read", "write"}

ProfilerInit ==
  /\ ids     = <<>>
  /\ history = {}
  /\ guards  = [t \in Workers |-> <<>>]
  /\ report  = <<>>
  /\ detected = FALSE

-----------------------------------------------------------------------------
(* CheckCycle: depth-first search from every id in turn.  A search is      *)
(*   root    how many ids CheckCycle has called Dfs with                   *)
(*   calls   the calls of Dfs that have not returned, outermost first      *)
(*   left    the edges that Dfs has still to look at                       *)
(*   order, count, parent   as in the code; finished is a set here         *)
(*   found   the chain it prints                                           *)

Discovered(s, n) == s.order[n] # -1

(* The first lines of Dfs.                                                 *)
Call(s, n) ==
  [s EXCEPT !.calls = Append(@, n), !.order[n] = s.count, !.count = @ + 1]

(* mutant: the search starts at the first id only                          *)
NextRoot_First(s, names) == Call([s EXCEPT !.root = Len(names)], names[1])

(* The next round of the loop in CheckCycle.                               *)
NextRoot(s, names) ==
  LET n == names[s.root + 1]
      t == [s EXCEPT !.root = @ + 1]
  IN IF Discovered(s, n) THEN t ELSE Call(t, n)

(* The printed chain: the edge that closes the cycle, then the parents     *)
(* from its start back to its end.                                         *)
Chain(s, here, there) ==
  LET n == Len(s.calls)
      up[k \in 0 .. n] == IF k = 0 THEN here ELSE s.parent[up[k - 1]]
      k == Min({i \in 1 .. n : up[i] = there})
  IN [i \in 1 .. k + 1 |-> IF i = 1 THEN <<here, there>> ELSE <<up[i - 1], up[i - 2]>>]

(* One round of the loop in Dfs(here).                                     *)
Follow(s, here, there) ==
  LET t == [s EXCEPT !.left = @ \ {<<here, there>>}] IN
    IF ~Discovered(s, there) THEN Call([t EXCEPT !.parent[there] = here], there)
    ELSE IF s.order[here] < s.order[there] \/ there \in s.finished THEN t
    ELSE [t EXCEPT !.found = Chain(s, here, there)]

Return(s, here) ==
  [s EXCEPT !.finished = @ \cup {here}, !.calls = Front(@)]

(* The ids of the names that Dfs(here) has still to follow an edge to.     *)
ToFollow(s, names, here) == {i \in DOMAIN names : <<here, names[i]>> \in s.left}

(* A std::set is walked from the least id on.                              *)
SearchStep(s, names) ==
  LET here == Last(s.calls)
      todo == ToFollow(s, names, here)
  IN IF s.found # <<>> THEN s
     ELSE IF s.calls = <<>> THEN IF s.root < Len(names) THEN NextRoot(s, names) ELSE s
     ELSE IF todo # {} THEN Follow(s, here, names[Min(todo)])
     ELSE Return(s, here)

Unvisited(edges) ==
  [root |-> 0, calls |-> <<>>, left |-> edges,
   order |-> [n \in Names |-> -1], count |-> 0,
   finished |-> {}, parent |-> [n \in Names |-> n], found |-> <<>>]

(* Every step takes a root, an edge or a call off, so there are no more.   *)
CheckCycle(edges, names) ==
  LET n == Cardinality(edges) + 2 * Len(names)
      s[k \in 0 .. n] == IF k = 0 THEN Unvisited(edges) ELSE SearchStep(s[k - 1], names)
  IN s[n].found

-----------------------------------------------------------------------------
Waits(t) == guards[t] # <<>> /\ ~Last(guards[t]).held
Has(t, l, m) == \E i \in DOMAIN guards[t] :
                  guards[t][i].held /\ guards[t][i].lock = l /\ guards[t][i].mode = m

Register(n) == IF n \in Range(ids) THEN ids ELSE Append(ids, n)

(* mutant: the edge leads from the outermost lock                          *)
Below_First(t) == NameOf[Head(guards[t]).lock]

(* LLockStack.top() of a thread that holds something.                      *)
Below(t) == NameOf[Last(guards[t]).lock]

(* mutant: top() of an empty stack                                         *)
NewEdge_NoTest(t, n) ==
  IF guards[t] = <<>> THEN {<<-1, n>>} ELSE {<<Below(t), n>>}

NewEdge(t, n) ==
  IF guards[t] = <<>> \/ Below(t) = n THEN {} ELSE {<<Below(t), n>>}

(* PushLock, then the thread spins for the lock.                           *)
PushLock(t, l, m) ==
  /\ ~detected
  /\ ~Waits(t)
  /\ Len(guards[t]) < MaxGuards
  /\ m = "write" => ~Has(t, l, "read")
  /\ LET n     == NameOf[l]
         edges == history \cup NewEdge(t, n)
         found == IF edges = history THEN <<>> ELSE CheckCycle(edges, Register(n))
     IN /\ ids'     = Register(n)
        /\ history' = edges
        /\ report'  = found
        /\ detected' = (found # <<>>)
        /\ guards'  = IF found # <<>> THEN guards
                      ELSE [guards EXCEPT ![t] =
                              Append(@, [lock |-> l, mode |-> m, held |-> FALSE])]

(* u keeps t from getting the lock it spins for.                           *)
Blocks(u, t) ==
  LET want == Last(guards[t]) IN
    /\ u # t
    /\ Waits(t)
    /\ \/ Has(u, want.lock, "write")
       \/ want.mode = "write" /\ Has(u, want.lock, "read")

Acquire(t) ==
  /\ ~detected
  /\ Waits(t)
  /\ \A u \in Workers : ~Blocks(u, t)
  /\ guards' = [guards EXCEPT ![t] = [@ EXCEPT ![Len(@)].held = TRUE]]
  /\ UNCHANGED <<ids, history, detected, report>>

(* PopLock and the unlock.                                                 *)
Unlock(t) ==
  /\ ~detected
  /\ guards[t] # <<>>
  /\ ~Waits(t)
  /\ guards' = [guards EXCEPT ![t] = Front(@)]
  /\ UNCHANGED <<ids, history, detected, report>>

ProfilerNext ==
  \E t \in Workers :
    \/ \E l \in Locks, m \in Modes : PushLock(t, l, m)
    \/ Acquire(t)
    \/ Unlock(t)

ProfilerSpec == ProfilerInit /\ [][ProfilerNext]_profilerVars

-----------------------------------------------------------------------------
ProfilerTypeOK ==
  /\ ids     \in Seq(Names)
  /\ history \in SUBSET (Names \X Names)
  /\ guards  \in [Workers -> Seq([lock : Locks, mode : Modes, held : BOOLEAN])]
  /\ report  \in Seq(Names \X Names)
  /\ detected \in BOOLEAN

(* Without a search: some names each have a successor among them. *)
Cyclic(edges) ==
  \E S \in SUBSET Names :
    S # {} /\ \A a \in S : \E b \in S : <<a, b>> \in edges

(* What it prints is such a cycle: edges that were recorded, each joining  *)
(* the next, the last one the first (DeadLockProfiler.cpp:108-120).        *)
ReportIsCycle ==
  /\ Range(report) \subseteq history
  /\ \A i \in 1 .. Len(report) - 1 : report[i][1] = report[i + 1][2]
  /\ report # <<>> => Last(report)[1] = report[1][2]

(* The search, with its three arrays, ends the program exactly when the    *)
(* order of the locks has a cycle, in whichever order the names came and   *)
(* the edges were met, and the cycle it prints is one                      *)
(* (DeadLockProfiler.cpp:58-129).                                          *)
CrashExact == (detected <=> Cyclic(history)) /\ ReportIsCycle

(* Threads each of which waits for another one of them, and no fewer do. *)
Entangled(S) == S # {} /\ \A t \in S : \E u \in S : Blocks(u, t)
Deadlock(S)  == Entangled(S) /\ \A R \in SUBSET S : Entangled(R) => R = S

(* Threads that deadlock over locks of different classes are never left    *)
(* waiting in silence, even when the edges that show it came from other    *)
(* threads long ago, in nests three deep, with readers and re-entry        *)
(* (Lock.cpp:9, 73, DeadLockProfiler.cpp:26-38).  Locks of one class       *)
(* escape: an edge between equal names is not recorded.                    *)
NoSilentDeadlock ==
  ~detected => \A S \in SUBSET Workers : Deadlock(S) =>
    \A t, u \in S : NameOf[Last(guards[t]).lock] = NameOf[Last(guards[u]).lock]
=============================================================================
