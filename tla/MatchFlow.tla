----------------------------- MODULE MatchFlow -----------------------------
(***************************************************************************)
(* From C_MATCH_START to the entry of champion select: the console client, *)
(* the packet handlers, the matchmaking manager and the accept session of  *)
(* each match.                                                             *)
(*                                                                         *)
(* The manager and every accept session are job queues: their jobs run one *)
(* at a time and in order (theorem Refinement of JobQueueProofs), so a job *)
(* is one step here unless other threads can see it half done.  Three      *)
(* things do run beside a queue: the packet handler of a player, the       *)
(* disconnect completion of a player, and MatchAcceptSession::Start, which *)
(* the manager calls directly and not as a job of the accept session.      *)
(*                                                                         *)
(* Which tickets form a match is left open: any MatchSize tickets of the   *)
(* queue.  Login has been done: every player has a session and a Player.   *)
(***************************************************************************)
EXTENDS Naturals, Sequences, FiniteSetsExt

CONSTANTS
  Players,     \* logged-in players, one session and one client each
  MatchSize,   \* players of a match: 10 in the code
  MaxStarts,   \* bound: C_MATCH_START sent in a behaviour, by all clients
  MaxCancels,  \* bound: C_MATCH_CANCEL sent in a behaviour
  MaxDrops,    \* bound: connections lost in a behaviour
  MaxMatches,  \* bound: matches formed in a behaviour
  NoPlayer,    \* OnTimeout has no player
  NoMatch      \* an expired or empty weak_ptr to an accept session

ASSUME SizeAssumption  == MatchSize \in Nat \ {0}
ASSUME BoundAssumption ==
  {MaxStarts, MaxCancels, MaxDrops, MaxMatches} \subseteq Nat
ASSUME NoMatchAssumption == NoMatch \notin 1 .. MaxMatches

Matches == 1 .. MaxMatches

VARIABLES
  \* the client (GameClient)
  client,     \* GClientState
  menu,       \* the menu that blocks in cin, or the state it will set
  starts,     \* C_MATCH_START sent so far
  cancels,    \* C_MATCH_CANCEL sent so far, by all clients
  toServer,   \* packets sent and not yet handled
  toClient,   \* packets the server sent and the client has not handled
  \* the session (GameSession)
  conn,       \* "up", "down" after OnDisconnected, "dead" once destroyed
  handler,    \* where the packet handler of the session is
  isQueued,   \* _isQueued
  acceptRef,  \* _matchAcceptSession
  \* the manager (MatchmakingManager)
  tickets,    \* number of tickets of each player in the buckets
  mgrJobs,    \* its job queue
  ticking,    \* Tick is running
  matched,    \* Tick: alreadyMatched
  \* the accept sessions (MatchAcceptSession)
  made,       \* number of matches made so far
  slots,      \* _teamA and _teamB of each match, in order
  notified,   \* Start: how many players it has gone through
  timer,      \* the OnTimeout job: "none", "armed", "fired"
  accJobs,    \* its job queue
  accepted,   \* _accepted
  outcome,    \* "open" until _resolved, then how it was resolved
  settled,    \* Resolve: how many players it has gone through
  giving,     \* Resolve: where it is in giving the next player's ticket back
  verdicts    \* history: verdict packets per match and slot

clientVars  == <<client, menu, starts, cancels>>
managerVars == <<tickets, ticking, matched, made, slots>>
acceptVars  == <<notified, timer, accepted, outcome, settled, giving, verdicts>>
vars == <<client, menu, starts, cancels, toServer, toClient, conn, handler,
          isQueued, acceptRef, tickets, mgrJobs, ticking, matched, made, slots,
          notified, timer, accJobs, accepted, outcome, settled, giving, verdicts>>

ClientState == {"lobby", "matching", "found", "waiting", "champSelect"}
Commands    == {"start", "cancel", "accept", "decline"}
Packets     == {"queued", "canceled", "found", "champSelect"}
Outcomes    == {"open", "go", "failed"}

Init ==
  /\ client    = [p \in Players |-> "lobby"]
  /\ menu      = [p \in Players |-> "none"]
  /\ starts    = [p \in Players |-> 0]
  /\ cancels   = 0
  /\ toServer  = [p \in Players |-> <<>>]
  /\ toClient  = [p \in Players |-> <<>>]
  /\ conn      = [p \in Players |-> "up"]
  /\ handler   = [p \in Players |-> "idle"]
  /\ isQueued  = [p \in Players |-> FALSE]
  /\ acceptRef = [p \in Players |-> NoMatch]
  /\ tickets   = [p \in Players |-> 0]
  /\ mgrJobs   = <<>>
  /\ ticking   = FALSE
  /\ matched   = {}
  /\ made      = 0
  /\ slots     = [m \in Matches |-> <<>>]
  /\ notified  = [m \in Matches |-> 0]
  /\ timer     = [m \in Matches |-> "none"]
  /\ accJobs   = [m \in Matches |-> <<>>]
  /\ accepted  = [m \in Matches |-> {}]
  /\ outcome   = [m \in Matches |-> "open"]
  /\ settled   = [m \in Matches |-> 0]
  /\ giving    = [m \in Matches |-> "no"]
  /\ verdicts  = [m \in Matches |-> [i \in 1 .. MatchSize |-> 0]]

-----------------------------------------------------------------------------
(* The client.  RunConsoleMenuLoop opens the menu of the current state and *)
(* blocks in cin; the lobby and the match-found menu act on what is typed  *)
(* without looking at GClientState again, the matching menu does look.     *)
(* Each menu sends first and sets GClientState afterwards.                 *)

SendCommand(p, c) == toServer' = [toServer EXCEPT ![p] = Append(@, c)]

OpenMenu(p) ==
  /\ conn[p] = "up"
  /\ menu[p] = "none"
  /\ client[p] \in {"lobby", "found"}
  /\ menu' = [menu EXCEPT ![p] = client[p]]
  /\ UNCHANGED <<client, starts, cancels, toServer, toClient, conn, handler,
                 isQueued, acceptRef, managerVars, mgrJobs, accJobs, acceptVars>>

StartsSent == MapThenSumSet(LAMBDA q : starts[q], Players)

ChooseStart(p) ==
  /\ conn[p] = "up"
  /\ menu[p] = "lobby"
  /\ StartsSent < MaxStarts
  /\ SendCommand(p, "start")
  /\ starts' = [starts EXCEPT ![p] = @ + 1]
  /\ menu'   = [menu EXCEPT ![p] = "toMatching"]
  /\ UNCHANGED <<client, cancels, toClient, conn, handler, isQueued, acceptRef,
                 managerVars, mgrJobs, accJobs, acceptVars>>

ChooseCancel(p) ==
  /\ conn[p] = "up"
  /\ menu[p] = "none"
  /\ client[p] = "matching"
  /\ cancels < MaxCancels
  /\ SendCommand(p, "cancel")
  /\ cancels' = cancels + 1
  /\ menu'    = [menu EXCEPT ![p] = "toLobby"]
  /\ UNCHANGED <<client, starts, toClient, conn, handler, isQueued, acceptRef,
                 managerVars, mgrJobs, accJobs, acceptVars>>

ChooseAnswer(p) ==
  /\ conn[p] = "up"
  /\ menu[p] = "found"
  /\ \E c \in {"accept", "decline"} : SendCommand(p, c)
  /\ menu' = [menu EXCEPT ![p] = "toWaiting"]
  /\ UNCHANGED <<client, starts, cancels, toClient, conn, handler, isQueued,
                 acceptRef, managerVars, mgrJobs, accJobs, acceptVars>>

(* The last statement of a menu: GClientState is set, whatever has been    *)
(* received since the command was sent.                                    *)
LeaveMenu(p) ==
  /\ menu[p] \in {"toMatching", "toLobby", "toWaiting"}
  /\ client' = [client EXCEPT ![p] =
       CASE menu[p] = "toMatching" -> "matching"
         [] menu[p] = "toLobby"    -> "lobby"
         [] menu[p] = "toWaiting"  -> "waiting"]
  /\ menu' = [menu EXCEPT ![p] = "none"]
  /\ UNCHANGED <<starts, cancels, toServer, toClient, conn, handler, isQueued,
                 acceptRef, managerVars, mgrJobs, accJobs, acceptVars>>

(* Handle_S_MATCH_QUEUED, _CANCELED, _FOUND and _CHAMPSELECT_START.        *)
ScreenOf(packet) ==
  CASE packet = "queued"      -> "matching"
    [] packet = "canceled"    -> "lobby"
    [] packet = "found"       -> "found"
    [] packet = "champSelect" -> "champSelect"

ClientReceive(p) ==
  /\ conn[p] = "up"
  /\ toClient[p] # <<>>
  /\ client'   = [client EXCEPT ![p] = ScreenOf(Head(toClient[p]))]
  /\ toClient' = [toClient EXCEPT ![p] = Tail(@)]
  /\ UNCHANGED <<menu, starts, cancels, toServer, conn, handler, isQueued,
                 acceptRef, managerVars, mgrJobs, accJobs, acceptVars>>

-----------------------------------------------------------------------------
(* The session.  Session::Send drops the packet of a session that is not   *)
(* connected any more.                                                     *)

Delivered(boxes, p, packet) ==
  IF conn[p] = "up" THEN [boxes EXCEPT ![p] = Append(@, packet)] ELSE boxes

Send(p, packet) == toClient' = Delivered(toClient, p, packet)

Post(job) == mgrJobs' = Append(mgrJobs, job)

(* The next packet; one that was received before the disconnect may still  *)
(* be handled after OnDisconnected, on another thread.                     *)
NextCommand(p, c) ==
  /\ conn[p] # "dead"
  /\ handler[p] = "idle"
  /\ toServer[p] # <<>>
  /\ Head(toServer[p]) = c
  /\ toServer' = [toServer EXCEPT ![p] = Tail(@)]

(* Handle_C_MATCH_START: DoAsync(AddTicket), _isQueued = true,             *)
(* S_MATCH_QUEUED.                                                         *)
HandleStart(p) ==
  /\ NextCommand(p, "start")
  /\ Post(<<"add", p>>)
  /\ handler' = [handler EXCEPT ![p] = "startFlag"]
  /\ UNCHANGED <<clientVars, toClient, conn, isQueued, acceptRef, managerVars,
                 accJobs, acceptVars>>

(* TryCreate refuses a position outside the enum: no ticket, no answer.    *)
(* The console client offers none of these; another client may send one.   *)
RefuseStart(p) ==
  /\ NextCommand(p, "start")
  /\ UNCHANGED <<clientVars, toClient, conn, handler, isQueued, acceptRef,
                 managerVars, mgrJobs, accJobs, acceptVars>>

(* Handle_C_MATCH_CANCEL: DoAsync(RemoveTicket), _isQueued = false,        *)
(* S_MATCH_CANCELED.                                                       *)
HandleCancel(p) ==
  /\ NextCommand(p, "cancel")
  /\ Post(<<"remove", p>>)
  /\ handler' = [handler EXCEPT ![p] = "cancelFlag"]
  /\ UNCHANGED <<clientVars, toClient, conn, isQueued, acceptRef, managerVars,
                 accJobs, acceptVars>>

HandlerFlag(p) ==
  /\ handler[p] \in {"startFlag", "cancelFlag"}
  /\ isQueued' = [isQueued EXCEPT ![p] = handler[p] = "startFlag"]
  /\ handler'  = [handler EXCEPT ![p] =
                    IF @ = "startFlag" THEN "startReply" ELSE "cancelReply"]
  /\ UNCHANGED <<clientVars, toServer, toClient, conn, acceptRef, managerVars,
                 mgrJobs, accJobs, acceptVars>>

HandlerReply(p) ==
  /\ handler[p] \in {"startReply", "cancelReply"}
  /\ Send(p, IF handler[p] = "startReply" THEN "queued" ELSE "canceled")
  /\ handler' = [handler EXCEPT ![p] = "idle"]
  /\ UNCHANGED <<clientVars, toServer, conn, isQueued, acceptRef, managerVars,
                 mgrJobs, accJobs, acceptVars>>

(* The timer job owns the accept session until OnTimeout has run: before   *)
(* that a reference to it can be locked, later only if a job pins it.      *)
Lockable(m) == m # NoMatch /\ (timer[m] # "fired" \/ accJobs[m] # <<>>)

(* Handle_C_MATCH_ACCEPT and Handle_C_MATCH_DECLINE.                       *)
HandleAnswer(p) ==
  /\ \E c \in {"accept", "decline"} :
       /\ NextCommand(p, c)
       /\ IF Lockable(acceptRef[p])
          THEN accJobs' = [accJobs EXCEPT ![acceptRef[p]] = Append(@, <<c, p>>)]
          ELSE UNCHANGED accJobs
  /\ UNCHANGED <<clientVars, toClient, conn, handler, isQueued, acceptRef,
                 managerVars, mgrJobs, acceptVars>>

(* GameSession::OnDisconnected.  What the client has not received by now   *)
(* is lost with the connection.                                            *)
OnDisconnected(p) ==
  /\ conn[p] = "up"
  /\ Cardinality({q \in Players : conn[q] # "up"}) < MaxDrops
  /\ conn' = [conn EXCEPT ![p] = "down"]
  /\ toClient' = [toClient EXCEPT ![p] = <<>>]
  /\ IF isQueued[p] THEN Post(<<"remove", p>>) ELSE UNCHANGED mgrJobs
  /\ UNCHANGED <<clientVars, toServer, handler, isQueued, acceptRef,
                 managerVars, accJobs, acceptVars>>

(* The player that Resolve has come to.                                    *)
Current(m) == slots[m][settled[m] + 1]

(* The last reference is gone: every weak_ptr to the session expires.  The *)
(* handler holds one while it runs, and so does Resolve, which has locked  *)
(* the session of the player it gives his ticket back.                     *)
SessionDestroyed(p) ==
  /\ conn[p] = "down"
  /\ handler[p] = "idle"
  /\ \A m \in Matches : giving[m] # "no" => Current(m) # p
  /\ conn' = [conn EXCEPT ![p] = "dead"]
  /\ UNCHANGED <<clientVars, toServer, toClient, handler, isQueued, acceptRef,
                 managerVars, mgrJobs, accJobs, acceptVars>>

Expired(p) == conn[p] = "dead"

-----------------------------------------------------------------------------
(* The manager: AddTicket, RemoveTicket and Tick.                          *)

Starting == {m \in 1 .. made : timer[m] = "none"}

(* RemoveTicket: the first ticket of the player, if there is one.          *)
WithoutOne_NoSearch(p) == tickets[p] - 1     \* mutant

WithoutOne(p) == IF tickets[p] > 0 THEN tickets[p] - 1 ELSE 0

ManagerJob ==
  /\ ~ticking
  /\ mgrJobs # <<>>
  /\ LET p == Head(mgrJobs)[2] IN
       tickets' = [tickets EXCEPT ![p] =
         IF Head(mgrJobs)[1] = "add" THEN @ + 1 ELSE WithoutOne(p)]
  /\ mgrJobs' = Tail(mgrJobs)
  /\ UNCHANGED <<clientVars, toServer, toClient, conn, handler, isQueued,
                 acceptRef, ticking, matched, made, slots, accJobs, acceptVars>>

(* Tick visits every ticket as a seed and removes those whose session has  *)
(* expired.  The timers of the matches made by the last Tick (15 s) are    *)
(* due before the next Tick (30 s).  A Tick over empty buckets changes     *)
(* nothing and is left out.                                                *)
AfterPurge_Kept(p) == tickets[p]     \* mutant

AfterPurge(p) == IF Expired(p) THEN 0 ELSE tickets[p]

TickBegin ==
  /\ ~ticking
  /\ \E p \in Players : tickets[p] > 0
  /\ \A m \in Matches : timer[m] # "armed"
  /\ ticking' = TRUE
  /\ tickets' = [p \in Players |-> AfterPurge(p)]
  /\ UNCHANGED <<clientVars, toServer, toClient, conn, handler, isQueued,
                 acceptRef, mgrJobs, matched, made, slots, accJobs, acceptVars>>

(* A session that expires while Tick runs is met, or not, as a later seed  *)
(* or candidate.                                                           *)
Purge(p) ==
  /\ ticking
  /\ Starting = {}
  /\ Expired(p) /\ p \notin matched /\ tickets[p] > 0
  /\ tickets' = [tickets EXCEPT ![p] = 0]
  /\ UNCHANGED <<clientVars, toServer, toClient, conn, handler, isQueued,
                 acceptRef, mgrJobs, ticking, matched, made, slots, accJobs,
                 acceptVars>>

Occurrences(team, p) == Cardinality({i \in DOMAIN team : team[i] = p})

AfterMatch_Kept(team, p) == tickets[p]     \* mutant

AfterMatch(team, p) == tickets[p] - Occurrences(team, p)

(* Tick, one match: remove the tickets, remember the players, clear their  *)
(* _isQueued, construct the accept session.                                *)
FormMatch ==
  /\ ticking
  /\ Starting = {}
  /\ made < MaxMatches
  /\ \E team \in [1 .. MatchSize -> Players] :
       /\ \A p \in Players : Occurrences(team, p) <= tickets[p]
       /\ \A i \in 1 .. MatchSize : team[i] \notin matched /\ ~Expired(team[i])
       /\ slots'    = [slots EXCEPT ![made + 1] = team]
       /\ tickets'  = [p \in Players |-> AfterMatch(team, p)]
       /\ matched'  = matched \cup {team[i] : i \in 1 .. MatchSize}
       /\ isQueued' = [p \in Players |->
                         isQueued[p] /\ \A i \in 1 .. MatchSize : team[i] # p]
  /\ made' = made + 1
  /\ UNCHANGED <<clientVars, toServer, toClient, conn, handler, acceptRef,
                 mgrJobs, ticking, accJobs, acceptVars>>

TickEnd ==
  /\ ticking
  /\ Starting = {}
  /\ ticking' = FALSE
  /\ matched' = {}
  /\ UNCHANGED <<clientVars, toServer, toClient, conn, handler, isQueued,
                 acceptRef, tickets, mgrJobs, made, slots, accJobs,
                 acceptVars>>

(* MatchAcceptSession::Start, run by the manager's thread: for each player *)
(* register the session and send S_MATCH_FOUND.                            *)
StartNotify(m) ==
  /\ m \in Starting
  /\ notified[m] < MatchSize
  /\ notified' = [notified EXCEPT ![m] = @ + 1]
  /\ LET p == slots[m][notified[m] + 1] IN
       IF Expired(p)
       THEN UNCHANGED <<acceptRef, toClient>>
       ELSE /\ acceptRef' = [acceptRef EXCEPT ![p] = m]
            /\ Send(p, "found")
  /\ UNCHANGED <<clientVars, toServer, conn, handler, isQueued, managerVars,
                 mgrJobs, accJobs, timer, accepted, outcome, settled, giving,
                 verdicts>>

(* mutant: the timer does not own the session, which dies after Start      *)
StartTimer_Weak(m) ==
  /\ m \in Starting
  /\ notified[m] = MatchSize
  /\ timer' = [timer EXCEPT ![m] = "fired"]
  /\ UNCHANGED <<clientVars, toServer, toClient, conn, handler, isQueued,
                 acceptRef, managerVars, mgrJobs, accJobs, notified, accepted,
                 outcome, settled, giving, verdicts>>

(* DoTimer(ACCEPT_TIMEOUT_MS, OnTimeout), the last statement of Start.     *)
StartTimer(m) ==
  /\ m \in Starting
  /\ notified[m] = MatchSize
  /\ timer' = [timer EXCEPT ![m] = "armed"]
  /\ UNCHANGED <<clientVars, toServer, toClient, conn, handler, isQueued,
                 acceptRef, managerVars, mgrJobs, accJobs, notified, accepted,
                 outcome, settled, giving, verdicts>>

-----------------------------------------------------------------------------
(* The accept session.                                                     *)

TimerFires(m) ==
  /\ timer[m] = "armed"
  /\ timer'   = [timer EXCEPT ![m] = "fired"]
  /\ accJobs' = [accJobs EXCEPT ![m] = Append(@, <<"timeout", NoPlayer>>)]
  /\ UNCHANGED <<clientVars, toServer, toClient, conn, handler, isQueued,
                 acceptRef, managerVars, mgrJobs, notified, accepted, outcome,
                 settled, giving, verdicts>>

(* Resolve walks the players: once to give everybody his verdict or, when  *)
(* all accepted, once to release the references and once, in               *)
(* ChampSelectSession::Start, to send everybody to champion select.        *)
ResolveSteps(m) == IF outcome[m] = "go" THEN 2 * MatchSize ELSE MatchSize
Resolving(m)    == outcome[m] # "open" /\ settled[m] < ResolveSteps(m)

Open_Always(m) == TRUE     \* mutant: no early return on _resolved

Open(m) == outcome[m] = "open"

Resolve(m, verdict) ==
  /\ outcome' = [outcome EXCEPT ![m] = verdict]
  /\ settled' = [settled EXCEPT ![m] = 0]

(* OnAccept, OnDecline and OnTimeout up to the loops of Resolve.  Only the *)
(* players of a match hold a reference to it, so IsParticipant is true.    *)
AcceptJob(m) ==
  /\ ~Resolving(m)
  /\ accJobs[m] # <<>>
  /\ accJobs' = [accJobs EXCEPT ![m] = Tail(@)]
  /\ LET kind == Head(accJobs[m])[1]
         p    == Head(accJobs[m])[2]
         all  == Cardinality(accepted[m] \cup {p}) = MatchSize
     IN \/ /\ ~Open(m)
           /\ UNCHANGED <<accepted, outcome, settled>>
        \/ /\ Open(m) /\ kind = "accept"
           /\ accepted' = [accepted EXCEPT ![m] = @ \cup {p}]
           /\ IF all THEN Resolve(m, "go") ELSE UNCHANGED <<outcome, settled>>
        \/ /\ Open(m) /\ kind \in {"decline", "timeout"}
           /\ Resolve(m, "failed")
           /\ UNCHANGED accepted
  /\ UNCHANGED <<clientVars, toServer, toClient, conn, handler, isQueued,
                 acceptRef, managerVars, mgrJobs, notified, timer, giving,
                 verdicts>>

Verdict(m, i, packet) ==
  /\ Send(slots[m][i], packet)
  /\ verdicts' = [verdicts EXCEPT ![m][i] = @ + 1]

(* Resolve(false), a player whose session is gone, or who did not accept:  *)
(* the latter forgets the accept session and is sent to the lobby.         *)
Disband(m) ==
  /\ outcome[m] = "failed"
  /\ Resolving(m)
  /\ giving[m] = "no"
  /\ settled' = [settled EXCEPT ![m] = @ + 1]
  /\ LET p == Current(m) IN
       \/ /\ Expired(p)
          /\ UNCHANGED <<acceptRef, toClient, verdicts>>
       \/ /\ ~Expired(p) /\ p \notin accepted[m]
          /\ acceptRef' = [acceptRef EXCEPT ![p] = NoMatch]
          /\ Verdict(m, settled[m] + 1, "canceled")
  /\ UNCHANGED <<clientVars, toServer, conn, handler, isQueued, managerVars,
                 mgrJobs, accJobs, notified, timer, accepted, outcome, giving>>

(* Resolve(false), a player who accepted: he forgets the accept session    *)
(* and his ticket is posted; then _isQueued = true; then S_MATCH_QUEUED.   *)
(* The manager, his handler and OnDisconnected may run in between.         *)
GiveBack(m) ==
  /\ outcome[m] = "failed"
  /\ Resolving(m)
  /\ giving[m] = "no"
  /\ LET p == Current(m) IN
       /\ ~Expired(p) /\ p \in accepted[m]
       /\ acceptRef' = [acceptRef EXCEPT ![p] = NoMatch]
       /\ Post(<<"add", p>>)
  /\ giving' = [giving EXCEPT ![m] = "flag"]
  /\ UNCHANGED <<clientVars, toServer, toClient, conn, handler, isQueued,
                 managerVars, accJobs, notified, timer, accepted, outcome,
                 settled, verdicts>>

GiveBackFlag(m) ==
  /\ giving[m] = "flag"
  /\ isQueued' = [isQueued EXCEPT ![Current(m)] = TRUE]
  /\ giving'   = [giving EXCEPT ![m] = "reply"]
  /\ UNCHANGED <<clientVars, toServer, toClient, conn, handler, acceptRef,
                 managerVars, mgrJobs, accJobs, notified, timer, accepted,
                 outcome, settled, verdicts>>

GiveBackReply(m) ==
  /\ giving[m] = "reply"
  /\ Verdict(m, settled[m] + 1, "queued")
  /\ settled' = [settled EXCEPT ![m] = @ + 1]
  /\ giving'  = [giving EXCEPT ![m] = "no"]
  /\ UNCHANGED <<clientVars, toServer, conn, handler, isQueued, acceptRef,
                 managerVars, mgrJobs, accJobs, notified, timer, accepted,
                 outcome>>

(* Resolve(true), one player of its first walk, releaseAcceptRef.          *)
ReleaseRef(m) ==
  /\ outcome[m] = "go"
  /\ settled[m] < MatchSize
  /\ settled' = [settled EXCEPT ![m] = @ + 1]
  /\ LET p == Current(m) IN
       acceptRef' = IF Expired(p) THEN acceptRef
                    ELSE [acceptRef EXCEPT ![p] = NoMatch]
  /\ UNCHANGED <<clientVars, toServer, toClient, conn, handler, isQueued,
                 managerVars, mgrJobs, accJobs, notified, timer, accepted,
                 outcome, giving, verdicts>>

(* Resolve(true), one player of ChampSelectSession::Start.                 *)
EnterChampSelect(m) ==
  /\ outcome[m] = "go"
  /\ settled[m] >= MatchSize
  /\ Resolving(m)
  /\ settled' = [settled EXCEPT ![m] = @ + 1]
  /\ LET i == settled[m] - MatchSize + 1 IN
       IF Expired(slots[m][i]) THEN UNCHANGED <<toClient, verdicts>>
       ELSE Verdict(m, i, "champSelect")
  /\ UNCHANGED <<clientVars, toServer, conn, handler, isQueued, acceptRef,
                 managerVars, mgrJobs, accJobs, notified, timer, accepted,
                 outcome, giving>>

-----------------------------------------------------------------------------
User(p) ==
  OpenMenu(p) \/ ChooseStart(p) \/ ChooseCancel(p) \/ ChooseAnswer(p)
    \/ LeaveMenu(p)

Handler(p) ==
  HandleStart(p) \/ RefuseStart(p) \/ HandleCancel(p) \/ HandleAnswer(p)
    \/ HandlerFlag(p) \/ HandlerReply(p)

Manager ==
  ManagerJob \/ TickBegin \/ (\E p \in Players : Purge(p)) \/ FormMatch
    \/ TickEnd

Start(m) == StartNotify(m) \/ StartTimer(m)

Session(m) ==
  AcceptJob(m) \/ Disband(m) \/ GiveBack(m) \/ GiveBackFlag(m)
    \/ GiveBackReply(m) \/ ReleaseRef(m) \/ EnterChampSelect(m)

Next ==
  \/ \E p \in Players :
       User(p) \/ ClientReceive(p) \/ Handler(p) \/ OnDisconnected(p)
         \/ SessionDestroyed(p)
  \/ Manager
  \/ \E m \in Matches : Start(m) \/ TimerFires(m) \/ Session(m)

Spec == Init /\ [][Next]_vars

(***************************************************************************)
(* Worker threads keep running handlers, jobs and timers; the network      *)
(* delivers; the manager empties its queue and Tick recurs.  No user has   *)
(* to press a key, no connection has to break, no match has to be found.   *)
(***************************************************************************)
Fairness ==
  /\ \A p \in Players :
       WF_vars(ClientReceive(p)) /\ WF_vars(LeaveMenu(p))
         /\ WF_vars(Handler(p)) /\ WF_vars(SessionDestroyed(p))
  /\ WF_vars(ManagerJob) /\ SF_vars(TickBegin) /\ WF_vars(TickEnd)
  /\ \A m \in Matches :
       WF_vars(Start(m)) /\ WF_vars(TimerFires(m)) /\ WF_vars(Session(m))

FairSpec == Spec /\ Fairness

-----------------------------------------------------------------------------
ManagerJobs == {"add", "remove"} \X Players
AcceptJobs  == ({"accept", "decline"} \X Players) \cup {<<"timeout", NoPlayer>>}

TypeOK ==
  /\ client    \in [Players -> ClientState]
  /\ menu      \in [Players -> {"none", "lobby", "found", "toMatching",
                               "toLobby", "toWaiting"}]
  /\ starts    \in [Players -> Nat]
  /\ cancels   \in 0 .. MaxCancels
  /\ toServer  \in [Players -> Seq(Commands)]
  /\ toClient  \in [Players -> Seq(Packets)]
  /\ conn      \in [Players -> {"up", "down", "dead"}]
  /\ handler   \in [Players -> {"idle", "startFlag", "startReply",
                               "cancelFlag", "cancelReply"}]
  /\ isQueued  \in [Players -> BOOLEAN]
  /\ acceptRef \in [Players -> Matches \cup {NoMatch}]
  /\ tickets   \in [Players -> Nat]
  /\ mgrJobs   \in Seq(ManagerJobs)
  /\ ticking   \in BOOLEAN
  /\ matched   \subseteq Players
  /\ made      \in 0 .. MaxMatches
  /\ slots     \in [Matches -> {<<>>} \cup [1 .. MatchSize -> Players]]
  /\ notified  \in [Matches -> 0 .. MatchSize]
  /\ timer     \in [Matches -> {"none", "armed", "fired"}]
  /\ accJobs   \in [Matches -> Seq(AcceptJobs)]
  /\ accepted  \in [Matches -> SUBSET Players]
  /\ outcome   \in [Matches -> Outcomes]
  /\ settled   \in [Matches -> 0 .. 2 * MatchSize]
  /\ giving    \in [Matches -> {"no", "flag", "reply"}]
  /\ verdicts  \in [Matches -> [1 .. MatchSize -> Nat]]

InMatch(m, p) == \E i \in 1 .. MatchSize : m <= made /\ slots[m][i] = p

Ended(m) == outcome[m] # "open" /\ ~Resolving(m)

(* However accepts, declines and the timeout interleave, a match is        *)
(* resolved once: nobody gets two verdicts of one match, nobody who is     *)
(* still there is left without one, and champion select is entered only    *)
(* with the consent of every player (MatchAcceptSession.cpp:84-177).       *)
OneOutcome ==
  \A m \in 1 .. made :
    /\ outcome[m] = "go" =>
         /\ \A p \in Players : InMatch(m, p) => p \in accepted[m]
         /\ Cardinality(accepted[m]) = MatchSize
    /\ \A i \in 1 .. MatchSize :
         /\ verdicts[m][i] <= 1
         /\ Ended(m) /\ ~Expired(slots[m][i]) => verdicts[m][i] = 1

PendingStarts(p) ==
  Cardinality({i \in DOMAIN toServer[p] : toServer[p][i] = "start"})
PendingAdds(p) ==
  Cardinality({i \in DOMAIN mgrJobs : mgrJobs[i] = <<"add", p>>})

(* How many slots Resolve has taken the tickets out of.                    *)
DealtWith(m) == settled[m] + (IF giving[m] = "no" THEN 0 ELSE 1)

(* Slots that p holds in matches that have not dealt with them yet. *)
OpenSlots(p) ==
  Cardinality({x \in (1 .. made) \X (1 .. MatchSize) :
    /\ slots[x[1]][x[2]] = p
    /\ \/ outcome[x[1]] = "open"
       \/ outcome[x[1]] = "failed" /\ x[2] > DealtWith(x[1])})

(* A ticket is moved, never copied: through cancels, matches, requeues and *)
(* disconnects a player's tickets, those on their way to the manager and   *)
(* those inside a match never outnumber the C_MATCH_START the server took  *)
(* (MatchmakingManager.cpp:158-182, 281-292, MatchAcceptSession.cpp:157).  *)
NoTicketForged ==
  \A p \in Players :
    tickets[p] + PendingAdds(p) + OpenSlots(p) <= starts[p] - PendingStarts(p)

(* Every match that was formed ends, whatever its players do or fail to    *)
(* do: the timer is the backstop (MatchAcceptSession.cpp:79, 106-113).     *)
EveryMatchEnds == \A m \in Matches : m <= made ~> Ended(m)

(* The tickets of a player who is gone leave the buckets for good, though  *)
(* _isQueued may miss them: Tick clears what OnDisconnected does not       *)
(* (GameSession.cpp:26, MatchmakingManager.cpp:238, 256).                  *)
DeadTicketsGo == \A p \in Players : Expired(p) ~> [](tickets[p] = 0)

(* No packet, job, Tick or match is under way that concerns p. *)
Quiet(p) ==
  /\ conn[p] = "up" /\ handler[p] = "idle" /\ ~ticking
  /\ toServer[p] = <<>>
  /\ \A i \in DOMAIN mgrJobs : mgrJobs[i][2] # p
  /\ \A m \in 1 .. made : InMatch(m, p) => Ended(m)

(* GameFlow_Review.md section 6: who does not end up in champion select    *)
(* goes back to the queue or to the lobby.  So nobody is left on the       *)
(* waiting screen with no ticket, no match and no packet on its way, when  *)
(* the server has no reason ever to write to him again.                    *)
NobodyStranded ==
  \A p \in Players :
    Quiet(p) /\ toClient[p] = <<>> /\ tickets[p] = 0 /\ menu[p] = "none"
      => client[p] # "waiting"

=============================================================================
