# Verification of the matchmaking server

TLA+ models, model checks and machine-checked proofs for the IOCP server, its
game logic (`GameServer`) and its console client (`GameClient`). Line numbers
are those of the files under `src/`.

## 1. The system

### 1.1 Components

| Component | State | Operations | Interacts through |
|---|---|---|---|
| Job queue (`JobQueue`, `Job`, `LockQueue`, `GlobalQueue`) | `_jobCount`, `_jobs`, the global queue, `LCurrentJobQueue` and `LEndTickCount` per thread | `Push` (`DoAsync`), `Execute`, `GlobalQueue::Pop` | every game object with state derives from it; any thread pushes, any thread may execute |
| Job timer (`JobTimer`) | heap of jobs with a due time, `_distributing` | `Reserve` (`DoTimer`), `Distribute`, `Clear` | pushes due jobs into the owner's job queue |
| Worker loop (`GameServer.cpp`, `ThreadManager`) | `LEndTickCount` | `Dispatch(10)`, `DistributeReservedJobs`, `DoGlobalQueueWork` | runs everything below |
| Matchmaking manager (`MatchmakingManager`) | tickets in 30 buckets by MMR | `AddTicket`, `RemoveTicket`, `Tick` every 30 s | jobs from packet handlers, disconnects and failed matches; creates accept sessions |
| Match accept session (`MatchAcceptSession`), one per match | teams, `_accepted`, `_resolved` | `Start` (called directly), `OnAccept`, `OnDecline`, `OnTimeout` (15 s), `Resolve` | jobs from packet handlers; sends verdicts; re-queues tickets; creates the champion select |
| Champion select (`ChampSelectSession`), one per match | participants and their picks | `Start` (called directly), `OnPick`, `OnChat`, `CheckAllPicked` | jobs from packet handlers; broadcasts |
| Packet handlers (`ClientPacketHandler`) | none | one per packet | read and write the fields of `GameSession`, post jobs |
| Game session (`GameSession`, `GameSessionManager`) | `_player`, `_isQueued`, two `weak_ptr`s, the set of sessions and of names | `OnConnected`, `OnDisconnected`, `TryReserveName`, `ReleaseName` | written by handlers, the manager and both match sessions |
| Session and socket I/O (`Session`, `IocpCore`, `Service`, `Listener`) | `_connected`, send queue and `_sendRegistered`, receive buffer, accept slots | `Send`, `Register*`, `Process*`, `Disconnect` | completions on any worker thread |
| Console client (`GameClient`) | `GClientState`, one session | a menu per state, a handler per packet | the menu thread blocks in `cin`, the network thread sets the state |
| Lock (`Lock`) | flag word, recursion count | lock and unlock, for reading and writing | guards the queues, sets and heaps of all the above |
| Deadlock profiler (`DeadLockProfiler`), debug builds | ids of lock names, which name was taken after which, a stack per thread | `PushLock`, `PopLock`, `CheckCycle` | every lock calls it before it spins and before it unlocks |
| Receive and send buffers, memory pools | positions; chunks; free lists | read and write; open and close; push and pop | used by sessions and by every allocation |

The path of a match: `C_MATCH_START` posts a ticket; `Tick` takes MatchSize
tickets out, `FinalizeMatch` makes an accept session and runs its `Start`,
which tells every player and reserves the timeout; accepts, a decline or the
timeout resolve it; either all tickets of those who accepted go back to the
manager, or a champion select is made, started and left to its jobs.

### 1.2 What is hard, and what makes each component correct

* **Job queue.** Four program points of a pusher and an executor interleave
  around one counter; the queue migrates between threads when the time budget
  is spent. Correct: one executor per queue, no queue with work is left
  without somebody who will run it, each job once and in order.
* **Matchmaking.** `Tick` works on copies while it removes by swapping the
  last ticket in; sessions die while it runs. Correct: tickets stay in their
  bucket, leave only for a reason, candidates are exactly those in range,
  a match has a suitable player in each position, teams are balanced, expired
  tickets are swept.
* **Accept session and the flow around it.** Handlers, the manager's thread,
  the timer and disconnects act on the same players; tickets travel between
  three owners. Correct: one outcome per match and player, consent of all
  before champion select, no ticket is copied, every match ends, tickets of
  the dead go away.
* **Champion select.** `Start` runs beside the jobs; nobody owns the session.
  Correct: distinct champions, the game starts once and after the last pick,
  what was announced stands.
* **Client.** A menu acts on the state it was opened for and overwrites what
  arrived meanwhile.
* **Sessions.** Sends of many threads, completions on any thread and three
  ways to lose the connection act on one session. Correct: one `WSASend` at a
  time, every packet once and in order, received packets whole however the
  network cut them, one `OnDisconnected`.
* **Connections and names.** Login, disconnect and the next login of the same
  name interleave; the listener closes under its accept slots. Correct: one
  session per name, names come back, the two session sets agree, the listener
  can be destroyed.
* **Locks.** Owner, recursion and readers are updated apart. Correct: a writer
  is alone, no unlock meets a state it crashes on.
* **Job timer.** Jobs reserve timers while one of the threads distributes those
  that are due; distributing runs whole jobs, with the gate closed. Correct: a
  timer is neither lost nor run twice, timers arrive in the order they are due,
  each one runs, and keeps the queue it is for alive until then.
* **Deadlock profiler.** A search with three arrays over a graph that grows
  edge by edge from all threads. Correct: it ends the program exactly when the
  order of the locks has a cycle, so that no deadlock is met in silence.
* **Receive buffer, pools.** Boundaries, order, word races.

The full list with lines is under `hazards` in `PROJECT.json`.

## 2. Modules

| Module | Models | Composes or uses |
|---|---|---|
| `SerialExecutor` | what a job queue promises: submit, begin, end | abstract specification |
| `JobQueue` | `Push`, `Execute`, the global queue and the worker loop, per thread | implements `SerialExecutor` (refinement mapping at its end) |
| `JobQueueProofs` | theorems about `JobQueue`, with the refinement | |
| `JobTimer` | `DoTimer`, the heap and `Distribute`, per thread | its queues are `SerialExecutor` |
| `JobTimerProofs` | theorems about `JobTimer` | |
| `MatchFlow` | client, handlers, manager, accept sessions, timers, disconnects, up to champion select | takes jobs as atomic where theorem `Refinement` of `JobQueueProofs` allows it, and timers as `JobTimer` shows them: each fires once |
| `MatchFlowProofs` | theorems about `MatchFlow` | |
| `Matchmaking` | the buckets, candidate search, team forming and `Tick` seed by seed | the part `MatchFlow` leaves open: which tickets form a match |
| `MatchmakingProofs` | theorems about `Matchmaking` and its recursive functions | |
| `ChampSelect` | champion select: `Start` beside the jobs, picks, broadcasts, the client's screen, the lifetime of the session | |
| `ChampSelectProofs` | theorems about `ChampSelect` | |
| `SessionIo` | one server session on the network: send gate, receive chain, `Disconnect`, step by step on any worker | extends `RecvBuffer` |
| `RecvBuffer` | the receive buffer, byte by byte | |
| `SessionIoProofs` | theorems about `SessionIo` and `RecvBuffer` | |
| `Connections` | accept slots, `Service` and `GameSessionManager`, login by name, leaving | takes from `SessionIo` that receives form a chain and `OnDisconnected` runs once |
| `ConnectionsProofs` | theorems about `Connections` | |
| `ReadWriteLock` | what a lock promises: enter and leave, for reading and writing | abstract specification |
| `RWLock` | `Lock`: the flag word, one step per access | implements `ReadWriteLock` |
| `DeadLockProfiler` | the profiler, and the locks its threads then wait for | takes locks by the promise of `ReadWriteLock` |
| `LockProofs` | theorems about `RWLock`, with the refinement, and about `DeadLockProfiler`, with its search | extends both |
| `MC*` | instances for TLC, where constants need definitions | |

### 2.1 `JobQueue`

Each thread has a program counter; the comment above `PC` says where in the
code each place is. One action is one atomic access to something shared:
`Count` is `fetch_add` (JobQueue.cpp:11), `Enqueue` is `_jobs.Push` (12),
`ExecuteHere` and `LeaveToOthers` are the two branches (19-28), `PopAll` is
one step because `LockQueue::PopAll` holds the (recursive) lock throughout,
`BeginJob`/`EndJob` bracket a job, in which the thread may push again,
`Finish` and `Subtract` are the two results of `fetch_sub` (47), `KeepGoing`
and `HandOver` the two results of the clock (54). `ToGlobalWork`,
`TakeGlobal` and `NextRound` are the worker loop. The clock is a
nondeterministic 0, 1, 2 (before, at, after `LEndTickCount`), since the code
compares with `>=` in one place and `>` in another. Every caller uses the
default `pushOnly = false`; `ClearJobs` has no caller.

### 2.2 `MatchFlow`

A job is one step unless another thread can see it half done. So the handlers
of start and cancel are three steps each (post, flag, reply), `Start` is one
step per player, and so is `Resolve`, but for a player who gets his ticket
back: that is `GiveBack` (the post), `GiveBackFlag` and `GiveBackReply`
(MatchAcceptSession.cpp:157-162), with his handler, `OnDisconnected` and the
manager free to run in between. `giving` tells which of them is next. `Tick`
is the steps `TickBegin`, `Purge`, `FormMatch` and `TickEnd`. `RefuseStart` is
a `C_MATCH_START` with positions `TryCreate` refuses: no ticket and no answer.
The repository's client never sends one; another may. A session is `up`,
`down` after `OnDisconnected`, which also loses what its client has not
received, and `dead` when the last reference is gone and weak pointers to it
expire; a handler that runs holds one, and so does `Resolve` between
`GiveBack` and `GiveBackReply`. A packet received earlier may be handled while
the session is `down`.
`acceptRef` is `_matchAcceptSession`; `Lockable` says when it can be locked:
the job in the timer owns the accept session (Job.h:18-26), so it lives at
least until the timer has fired.

Abstractions: which tickets form a match is left open (any that are live and
not yet matched in this Tick); a player's tickets are counted, their MMR and
positions are in `Matchmaking`; the accept timeout (15 s) comes before the
next Tick (30 s), so `TickBegin` waits for armed timers; a Tick over empty
buckets is left out; only the players of a match hold a reference to it, so
`IsParticipant` is true; the matching menu tests the state and sends in one
step; login is done; the client's `--auto-match` is off.

### 2.3 `Matchmaking`

The MMR arithmetic of the source with its constants as parameters
(`BucketSize` 100, `BucketCount` 30, `MatchRange` 200, five positions in the
code). `SwapOut` is the swap-and-pop removal, used for the buckets and for the
pool of candidates; `TryFormMatch` is a recursive function over the positions
that picks by primary, secondary, no preference. `std::sort` is not stable, so
`Seed` may take any unvisited ticket with the least `queuedAt`. `AddTicket`
asks nothing, as in the code, so a player may have any number of tickets; a
field `id` is there only to tell two tickets apart that agree in all else.
`RemoveTicket` looks for the player and takes the first ticket of his it
meets, which need not be the one that was matched or withdrawn. Sessions
expire between any two steps of Tick. Loops over a list (`RemoveAll`, `Filter`,
`TryFormMatch`) are recursive functions of the number of elements done, so
that they can be proved about.

### 2.4 `ChampSelect`

`StartNext` is one turn of the loop of `Start`; `BeginJob`, `PickFails`,
`PickSucceeds`, `BroadcastUpdate`, `CheckAllPicked`, `StartGame` and
`GameStarted` are `OnPick`, a step per send. `Alive` says when a strong
reference exists: until `Resolve` returns, or while a job waits or runs.
`OnChat` is left out, it only broadcasts.

### 2.5 `SessionIo` and `RecvBuffer`

A worker is a call stack, innermost place first, because the same function is
reached from several callers: `RegisterSend` from `Send` and, under the lock,
from `ProcessSend`; `Disconnect` from a failed send, a failed receive and the
end of the stream. `CallSend` is the test of `_connected` (Session.cpp:22),
`Push` the queue and the gate under the lock, `Fill` the second locked block,
`WsaSend`/`WsaSendFails` the call, `SendFailed` and `OpenGate` the two
statements after a failure, `TakeSend` and `SendNext` are `ProcessSend`.
`TakeRecv`, `ParsePacket`, `HandlerReturns` and `EndRecv` are `ProcessRecv`
with the loop of `OnRecv`; a handler may call `Send`. `KernelSends` and
`KernelReceives` stand for the operating system: a send completes in full or
with 0 bytes, a receive with any part of the stream that fits.

A byte of the stream is its position, and a packet its number, so that
anything lost, doubled or moved shows. A peer that sends a size smaller than
a header is outside the model. A `WSARecv` that fails with another error than
a reset only ends the chain (`WsaRecvFails`): the session stays connected and
hears nothing more, as in the code. The thread that
logs the packets after `WSASend` (Session.cpp:211) is at `sendLog`; what it
reads there is a data race the model does not give a value to.

### 2.6 `Connections`

A slot goes `register`, `post`, `posted`, then through `ProcessConnect` and
back; `After` is the order of its three calls. `CloseSocket` sets `_closing`
and closes the socket in two steps, as other workers can see it; nothing in
the repository calls `CloseService` yet, the document plans it. A login is
four steps: the test of `_player`, `TryReserveName` under its lock, the
assignment of `_player`, the answer. `Disconnect` may come from the receive
chain or, once the session was sent something, beside its handler. Names that
`IsValidNickname` refuses are one value.

### 2.7 `RWLock`

Each access to `_lockFlag` is a step: the compare-and-swap of a writer, the
load and the compare-and-swap of a reader, `fetch_sub`, the store. A thread
nests guards up to a bound, by the rule of Lock.h:15 that a reader does not
become a writer. The 10 s timeouts are the steps `GiveUp`, which end in a
crash and so in nothing.

### 2.8 `JobTimer`

A job that is running calls `DoTimer`: `Reserve` computes the due time and
makes the timer (JobTimer.cpp:11-12), `Insert` takes the lock and pushes it
onto the heap (14-16); in between other jobs may put later or earlier timers
in. A thread reads the clock (`ReadClock`, ThreadManager.cpp:84), is turned
away at the gate (`Skip`) or passes it (`Enter`), takes what is due under the
lock (`PopItem`, `PopEnds`), and hands it over item by item (`Hand`). `Push`
may execute the queue there and then, so it returns at a step of its own
(`PushReturns`), and any number of jobs may run before it does; only then may
the thread go on and open the gate (`Leave`).

The queues are instances of `SerialExecutor`, whose `Begin` and `End` are the
start and end of a job. `kept` says to which queues anything but a timer holds
a `shared_ptr`; `Alive` adds the timers' jobs, since the job that the
`DoTimer` for member functions makes holds its queue (Job.h:18-26) although
the `TimerItem` has only a `weak_ptr`. Docs/JobQueue_Review.md says of the
`weak_ptr` that a timer does not prolong its owner's life; the job does. With
a job that does not (`Alive_Kept`), timers vanish.

### 2.9 `DeadLockProfiler`

`PushLock` runs under one mutex and is one step: it gives the name an id,
records the edge from the name on top of the thread's stack, and, if the edge
is new, searches from every id in turn. The search is a record: the three
arrays `_discoveredOrder`, `_finished` and `_parent`, the calls of `Dfs` that
have not returned (the call stack, as a sequence of names), the edges they have
still to look at, and what is printed. `SearchStep` is one round of a loop or
one return: `NextRoot` is the loop of `CheckCycle`, `Follow` that of `Dfs`,
`Call` and `Return` its first and last lines, `Chain` the edges it prints. Each
step takes a root, an edge or a name off, so `CheckCycle` is the state after
as many steps as there are of these. Then the thread waits until the promise of a lock lets it in
(`Acquire`), may re-enter, and leaves in reverse order.

A name is the class that owns the lock, so all locks of one class share it: an
edge between equal names is not recorded and a deadlock over two objects of
one class escapes, which Docs/Lock_Review.md does not say; `NoSilentDeadlock`
states exactly what is left. The other way round, a thread that takes a lock
again further down (a, b, a) is stopped though it could go on: `CrashExact` is
about the recorded order, not about deadlocks.

## 3. Runs

| Run | Question | Bounds and why they are enough |
|---|---|---|
| `JobQueue` | one carrier for each queue; implements the serial executor, with its fairness | two threads, so that a pusher and an executor, or two executors at a hand-over, overlap; two queues, so that a job of one pushes into the other; three jobs, so that one runs, one is popped and one arrives |
| `MatchFlowSafety` | one outcome for each match | two players, two matches and one lost connection: the second match is of tickets that were put back or started again, while answers to the first and its `Resolve` may still be under way. See below for the two initial states |
| `MatchFlowGone` | every match ends; dead tickets go; tickets never copied and none taken that is not there when starts and cancels repeat | two players and one match of two, so that the ticket of one who accepted goes back while the other declines, is silent or is gone, and either may be lost at each of the three steps of giving back; and one player alone with three starts and one cancel, for the races of his own handler with his disconnect. See below for the two initial states |
| `MatchmakingSafety` | the properties of buckets and teams | six players and eight tickets on both sides of bucket borders, beyond the last bucket and out of range, with and without preference; one player with two equal tickets and one with two for different positions, who can be seated twice in one match; teams of two positions |
| `ChampSelectSafety` | distinct champions, one start, picks stand | two participants, two champions, two tries each, so that every kind of refusal happens; one lost connection |
| `RWLockSafety` | no crash in an unlock; implements the abstract lock | three threads, two guards deep: reader, writer and a third that waits; write in write, read in write and read in read |
| `SessionIo` | one send at a time, nothing lost or out of order, packets whole, one `OnDisconnected` | two workers, since every race is between two places; two sends; three packets in seven bytes over a buffer of two times four, so that packets are cut, merged and moved to the front |
| `JobTimer` | no timer lost or run twice, the due order, every timer runs | two threads, so that one meets the gate the other has closed; two queues, so that a timer is for another queue than the one whose job reserves it; three timers and a clock up to two, so that one is due, one later and one reserved during the round |
| `DeadLockProfiler` | the search finds a cycle exactly when there is one; no deadlock in silence | three classes, the least with a cycle that is not a mutual pair; a second lock of one class; two threads that nest three deep, whose edges stay in the history from one nest to the next |
| `Connections` | names unique and given back, sets agree, the listener is let go | two sessions that compete for two names and try twice, one slot that accepts both |
| `MatchFlowStranded`, `ChampSelectLost` | what a comment or document says and the code does not do | smallest instance that shows it |

`MatchFlowSafety` and `MatchFlowGone` begin in states that `Spec` reaches
(`MCMatchFlow`; that it does
was checked with their negations as invariants), since two players from their
first key press on have too many behaviours. `BothQueued` is both in the queue,
one of them after a cancel, with no start and no cancel left: one match with
all its orders of answers. `OneAccepted` is both in the first match, one of
whom has accepted, with one start left: with three starts in all a second match
needs that exactly one accepts the first. `Alone` is one player in the lobby,
the other having left. `MatchFlowSafety` begins in the first two,
`MatchFlowGone` in the first and the last. The way into the queue from the
first key press on is in `MatchFlowStranded`.

`CHECK_DEADLOCK FALSE` stands in the runs where the program may stop: users
stop typing or the bound on their commands is used up. `JobQueue` and
`Matchmaking` are checked for deadlock. In `SessionIo` and `Connections` a
session whose connection is over has nothing left to do.

### 3.1 Properties

*JobQueue*: `OneCarrier` (a queue with a positive count has exactly one pusher
about to start it, executor or entry in the global queue);
`ImplementsFairSerial`. What these rest on is proved and not run again:
`MutualExclusion`, `CountExact` and `ImplementsSerial`.

*JobTimer*: `OnePlace`, `InDueOrder` (a timer reaches its queue after all that
were due earlier when it was taken from the heap, also when different threads
take them) and the liveness property `EveryTimerRuns`.

*MatchFlow*: `OneOutcome`, `NoTicketForged` (tickets in the queue, on their way
to it or due back from a match never exceed the starts sent), `EveryMatchEnds`,
`DeadTicketsGo` (however a disconnect meets the writes of `_isQueued`).

*Matchmaking*: `CandidatesComplete`, `MatchSound` (the seats of a match are
different tickets, suitable and in range, and nobody is in two matches of one
Tick), `TeamsBalanced`, and the action properties `LeavesForReason` (a match
costs each player one ticket per seat, and otherwise a player loses tickets
only by his own withdrawal or with his session) and `ExpiredSwept`.

*ChampSelect*: `ChampionsDistinct`, `GameStartsOnce`, `UpdatesStand`.

*RWLock*: `GuardsMatch`, `ImplementsLock`; `WriterAlone` and `FlagExact` are
proved.

*DeadLockProfiler*: `CrashExact`, `NoSilentDeadlock`.

*SessionIo*: `OneSend` (at most one worker, batch or completion has the use of
`_sendEvent`, none when the gate is open, one when it is closed and the
connection stands), `SentInOrder`, `PacketsWhole` (with room for every receive), the action
property `LeavesOnce`, and the liveness properties `GivenUp` and
`EverySendLeaves`.

*Connections*: `NamesUnique`, `NamesHeld`, `SetsAgree`, `ListenerFreed`.

Each is stated in words above its definition. For each there is a mutant of
the model, a plausible slip in the code, under which its run fails
(`mutants` in `PROJECT.json`).

### 3.2 Disagreements found

* `PickAnswered`: `Resolve` keeps the champion select in a local `shared_ptr`
  (MatchAcceptSession.cpp:134) and nothing else owns it; when `Resolve`
  returns with no job waiting, the session is destroyed and picks are dropped
  without an answer.
* `NobodyStranded`: an answer typed after the match has failed puts the client
  on the waiting screen for ever (GameClient.cpp:232, 242).

Shown by runs that pass, of the code where a document says something else:

* `DeadTicketsGo` and `ExpiredSwept`: the tickets of a player who disconnects
  are cleared, by `OnDisconnected` (GameSession.cpp:26-27) or by `Tick`
  (MatchmakingManager.cpp:238, 249-259). Docs/GameFlow_Review.md:213 says that
  no logic clears them, and README.md:61 that disconnects are not dealt with.
  What is missing is the other half of that sentence: the remaining players
  learn of it only by the timeout, and in champion select not at all.
* `EveryTimerRuns`: a timer keeps its owner alive, since the job that `DoTimer`
  makes holds a `shared_ptr` (Job.h:18-26). Docs/JobQueue_Review.md:180 says
  that a timer whose owner is gone is dropped silently, and :256 that it does
  not prolong the owner's life. The mutant `Alive_Kept` is the program the
  document describes; the accept session, which nothing but its timer keeps
  (MatchAcceptSession.cpp:79), would then die before its timeout.
* `MatchSound` says of the seats of a match only that their tickets differ:
  nothing stops a second `C_MATCH_START` of a player who has a ticket
  (ClientPacketHandler.cpp:104, MatchmakingManager.cpp:158-164), and both
  tickets may enter one match. Then the acceptances can never be as many as
  the seats, where Docs/Matchmaking_Design.md:11 speaks of ten players;
  `OneOutcome` holds all the same: such a match fails. If one of his tickets
  enters a match, the other stays in the queue and he may be matched again in
  the next Tick; a withdrawal takes whichever is found first.

Seen in the models and not made a run:

* `Handle_C_LOGIN` reserves the name (ClientPacketHandler.cpp:45) and sets
  `_player` later (63). If `OnDisconnected` runs before that, it has no name to
  release, and the name is taken until the server restarts, against
  GameSessionManager.h:17. It takes a session that was refused once, since only
  then a send can fail beside the handler; `NamesHeld` is the proved statement
  that nothing else loses a name.
* Team forming is greedy and misses combinations of positions
  (MatchmakingManager.cpp:94-122, against Docs/Matchmaking_Design.md:41).
* A refusal of a pick that arrives before `WAITING_GAME_START` is set is
  overwritten (GameClient.cpp:289-291).
* A packet pushed between a failed `WSASend` and the store that opens the gate
  waits until the next `Send` (Session.cpp:203-205, against
  Docs/ServerCore_Review.md:110).
* Locks of one class escape the deadlock profiler (DeadLockProfiler.cpp:29),
  and re-entry below another lock is a false alarm (2.9).
* While `Distribute` runs a long job inline, no other thread distributes
  (JobTimer.cpp:22, 46): timers are then late, and none is lost.

## 4. Fairness

Worker threads never block for ever: `Dispatch(10)` returns after 10 ms, the
loop of `DoWorkerJob` has no exit, jobs end. So every step of a thread that
stays possible is taken: weak fairness for the steps of a thread (`JobQueue`),
of handlers, jobs, timers and deliveries (`MatchFlow`, `ChampSelect`).
`TickBegin` is strongly fair: Tick reserves itself as its last statement, so
it comes again although jobs of the same queue run in between. No fairness for
what users do, for lost connections, or for `FormMatch` and `Purge`.
In `SessionIo` each worker is weakly fair, and so is the kernel in completing
a send, which means the peer goes on reading, and a receive once the connection
is down; the peer need not send anything. In `Connections` the accepts that
wait complete once the socket is closed.
In `JobTimer` threads go round and jobs begin and end (what
`ImplementsFairSerial` gives); a job that spins for the lock of the heap is
strongly fair, because the other holders come back again and again and the
code ends the program when a lock is not got in 10 s (Lock.cpp:36).
For `JobQueue` the fairness includes that a worker reaches the global queue
with time left; under a permanent overload of `Dispatch` the code does not
guarantee it.

## 5. Proofs

All theorems hold for every value of the constants under the named
assumptions of the modules (finite set of threads or workers, a "no queue" value that is
no queue, positive numbers).

* `JobQueueProofs`: `MutualExclusion`, `OneCarrier` and `CountExact` are not
  inductive by themselves: whether a thread may enter a queue depends on the
  count it read earlier, on the places of all other threads and on what they
  popped. The invariant adds which place allows which local values (`Places`),
  and the three properties carry each other: exact counting shows that a
  `fetch_add` that returns 0 meets no carrier, one carrier shows exclusion,
  and exclusion shows that `fetch_sub` reads a count no other executor
  changes.
  The refinement is `ImplementsSerial`. `Enqueue` maps to `Submit`,
  `BeginJob` to `Begin`, `EndJob` to `End`, all else to stuttering; a batch
  that was popped still waits. It uses the invariant, since the mapping picks
  the executor of a queue, which exclusion makes unique.
* `ChampSelectProofs`: `ChampionsDistinct`, `GameStartsOnce` and
  `UpdatesStand`. The invariant adds what the running job holds (`JobInv`),
  that only participants `Start` has reached can have picked (`TurnInv`) and
  that the game starts in the job of the last pick only (`BegunInv`). Together
  they show that the game cannot start before `Start` has reached everybody,
  although it runs beside the jobs.

* `LockProofs`, on `RWLock`: `WriterAlone`, `FlagExact`, `GuardsMatch` and the refinement
  `ImplementsLock`. The invariant says for each thread what it holds at each
  place of its code, and that the flag word is the owner and the number of read
  guards, counting what an unlock is about to change; the refinement maps the
  successful compare-and-swaps to entering and the last access of an unlock to
  leaving.
* `LockProofs`, on `DeadLockProfiler`: `ProfilerTypeOK`, `CrashExact` and
  `NoSilentDeadlock`, for any threads, locks, names and depth of nests, and
  `SearchExact`, that `CheckCycle` reports something exactly when the edges have
  a cycle. The search keeps four facts (`Searching`): the calls that have not
  returned are a path of edges, in the order of discovery (`Path`); a name has
  an order exactly when its call waits or has returned (`Orders`); an edge
  looked at leads to a call that has returned, or is the one its call waits on
  (`Walked`); the calls that have returned lead only to each other, and round no
  cycle (`Returned`). So an edge back to a call that has not returned closes a
  cycle along the calls, which is what is printed (`ChainCloses`), and a search
  that is over without one has been everywhere (`OverAcyclic`). `ToDo` counts
  what is left; each step lowers it, and it is 0 after the steps `CheckCycle`
  makes. The shortcut of line 105 (skip what was discovered later) is sound
  because such a name is never still waiting. That no deadlock is met in
  silence needs that each nest of guards is recorded step by step
  (`Recorded`). In a deadlock over different names take the names at and above
  a lock that somebody waits for: if one of them leads to none of them, all who
  want it wait only for others who want it, and these would deadlock without
  the rest; so each leads to another, which is a cycle.
* `ConnectionsProofs`: `NamesUnique`, `NamesHeld` and `SetsAgree`. That names
  are unique needs that a handler past the test of `_player` has none
  (`HandlerInv`); that they come back, that before its first answer a session
  cannot leave while its handler runs (`OnceInv`); that the sets agree, that a
  slot is alone with its session until `RegisterRecv` (`SlotInv`) and where a
  session is while it leaves (`SetsInv`).

* `JobTimerProofs`: `OnePlace` and `InDueOrder`. That nothing is lost needs that
  a name not yet issued is nowhere and that each container holds a timer once;
  that an owner can always be locked follows from its timer not being done.
  The order needs the gate: only one thread has items in hand, they are in due
  order, and what was due before the last one handed over has been handed over
  or is in the same hand before it.
* `MatchFlowProofs`: `TypeOK`, `OneOutcome` and `NoTicketForged`, which are all
  the safety of the module. How many verdicts a match has
  given is told by how far `Resolve` has come (`VerdictInv`). Consent of all
  needs that only its own players answer a match: their references lead to
  matches they are in (`RefInv`), so do the answers that wait (`AnswerInv`),
  and as many who accepted as the match has places are then all of its players
  (`ConsentInv`, by cardinality). Matches not yet made are untouched
  (`MadeInv`, `FreshVerdicts`), so `FormMatch` may fill them in. While a ticket
  is given back the match is failed and has players to settle (`GivingInv`),
  so that nobody else settles the one in hand. That a ticket
  is never copied is a balance (`TicketInv`): a player's tickets in the
  buckets, the adds in the manager's queue, his places in matches that may
  give the ticket back and his requests not yet handled are together no more
  than what he sent. Each action takes from one of the four what it adds to
  another; the proof counts places in sequences and takes the inductive
  invariant only for which places of a match are still open.
* `SessionIoProofs`: `TypeOK`, `OneSend`, `SentInOrder`, `PacketsWhole` and
  `LeavesOnce`, for any number of workers, sends, cuts of the stream and
  buffer sizes. The call stacks have few shapes, and each step swaps, leaves or
  takes up one place of one of them; what a worker holds is told by the places
  on its stack. On that rest: who may use `_sendEvent` while the gate is closed
  (`SendInv`), that what is sent, in the batch and in the queue is in order
  (`OrderInv`), one chain of receives over a buffer that has the stream from
  the last handled byte on (`RecvInv`, `BufferInv`), and one `DisconnectEx`,
  after `Start` has put the session into the service (`EarlyInv`, `LifeInv`).
  `PacketsWhole` is proved under `NoOverlap`: at least three buffer counts, or
  a buffer size of at most five. With two counts of a large size the `memcpy`
  of `Clean` may copy between regions that overlap, which C++ leaves
  undefined. The code has ten counts (RecvBuffer.h:12) and the run two of
  four, so both are covered.

* `MatchmakingProofs`: `TypeOK`, `CandidatesComplete`, `MatchSound`,
  `TeamsBalanced`, `LeavesForReason` and `ExpiredSwept`, for any tickets, list
  of positions, bucket size, number of buckets and range. A recursive function
  is a `CHOOSE`, so its values are known only once some function satisfies its
  equation: `FcnExists` gives one, for any step that stays in a set, and `UpTo`
  carries a fact from 0 to the last place. Both are about sets of numbers and
  rest on `LeastOf`, that a set of naturals has a least element; so no theorem
  with an operator parameter is needed. On that follow what each function
  returns (`Removed`, `AllRemoved`, `Filtered`, `Flattened`, `Candidates`,
  `Filled`, `TeamsFormed`). Well placed buckets (`WellPlaced` in `TypeOK`:
  each ticket once, in the bucket of its MMR) and one MMR per player are what
  makes `RemoveTicket` find a ticket of the player, though not always the one
  that was seated. So `LeavesForReason` is a matter of counting: removing takes
  one from the player's tickets if he has any (`Without`), a list of removals
  as many as it names him (`Times`), and a match names nobody more often than
  he has tickets, its seats being different ones. That an expired player's
  tickets all go needs that each of them is among the candidates, as they all
  have one MMR (`Sweep`). A ticket within range is
  at most the scanned number of buckets away by the arithmetic of division
  (`FewBuckets`); giving the better of a pair to the team that is behind never
  widens the gap beyond that of one pair (`StillBalanced`). Somebody in
  `alreadyMatched` may still have tickets in the buckets; that he is in no
  second match of the Tick rests on the filter of the candidates. `NoMatchAssumption` says that "no match" is no
  match, `PositionsAssumption` that positions are distinct and "none" is not
  one of them.

Every invariant and every action property of the passing runs, and the
refinements without fairness, are proved. Model-checked only: all liveness (`ImplementsFairSerial`,
`EveryTimerRuns`, `EveryMatchEnds`, `DeadTicketsGo`, `GivenUp`, `EverySendLeaves`, `ListenerFreed`), since liveness
under fairness is beyond the prover.

## 6. Not modelled

* Database access and the generators: neither program runs them.
* Generated and vendored code (protobuf), logging and text conversion.
* The MMR manager: a random number per name; `Matchmaking` takes the rating as
  an input of the ticket.
* The client's connect and login screens, chat on both sides (it only
  broadcasts), and the reference counts of I/O events.
* The chunks of the send buffer: a chunk belongs to one thread, is filled in
  one piece and is kept alive by reference counts.
* The memory pools: they rest on the SList of the operating system, so what
  could go wrong in them is in code this repository does not have.
* `JobTimer::Clear`, `JobQueue::ClearJobs`, `Service::Broadcast` and
  `pushOnly`: nothing calls or uses them.

## 7. What could follow

1. `MatchFlow` restated as the implementation of an abstract match (open, then
   one outcome for everybody), with the refinement checked.
2. `SendBuffer`: chunks, `Open` and `Close` and the reference that keeps a
   chunk alive.
