---------------------------- MODULE ChampSelect ----------------------------
(***************************************************************************)
(* One champion select: ChampSelectSession, the handler that reaches it    *)
(* through the weak_ptr of the game session, and the client's screen.      *)
(*                                                                         *)
(* Start runs on the thread of the accept session and not as a job of this *)
(* session, so OnPick jobs run beside it.  Nobody keeps the session: the   *)
(* shared_ptr of MatchAcceptSession::Resolve ends when Resolve returns,    *)
(* the game sessions hold weak_ptrs, and a job pins it while it waits and  *)
(* runs.  Chat is left out: OnChat broadcasts and changes nothing.         *)
(***************************************************************************)
EXTENDS Naturals, Sequences, FiniteSets

CONSTANTS
  N,          \* participants: 10 in the code
  Champions,  \* champion ids a client may type: positive numbers
  MaxTries,   \* bound: picks a client sends
  MaxDrops    \* bound: connections lost

ASSUME CountAssumption     == N \in Nat \ {0}
ASSUME ChampionsAssumption == Champions \subseteq Nat \ {0}
ASSUME BoundAssumption     == MaxTries \in Nat /\ MaxDrops \in Nat

Players == 1 .. N      \* the index FindParticipant returns
Nobody  == 0
Unset   == 0           \* pickedChampionId: not picked yet

VARIABLES
  client,    \* GClientState
  sending,   \* RunChampSelectMenu has sent the pick, not yet set the state
  tries,     \* picks sent so far
  toServer,  \* C_PICK_CHAMPION not yet handled
  toClient,  \* packets the client has not handled
  answer,    \* history: the answer the client received to its last pick
  conn,      \* "up", "down" after the disconnect, "dead" once destroyed
  ref,       \* _champSelectSession was set and not reset
  told,      \* Start: participants it has gone through
  returned,  \* Resolve has returned: its shared_ptr is gone
  jobs,      \* the job queue of the session
  phase,     \* what the running job does next
  at,        \* ... for which participant
  job,       \* ... and the pick it is about
  picked,    \* pickedChampionId
  begun      \* history: S_GAME_START sent to each participant

vars == <<client, sending, tries, toServer, toClient, answer, conn, ref, told,
          returned, jobs, phase, at, job, picked, begun>>
clientVars == <<client, sending, tries, answer>>
jobVars    == <<phase, at, job, picked, begun>>

Init ==
  /\ client   = [p \in Players |-> "waiting"]
  /\ sending  = [p \in Players |-> FALSE]
  /\ tries    = [p \in Players |-> 0]
  /\ toServer = [p \in Players |-> <<>>]
  /\ toClient = [p \in Players |-> <<>>]
  /\ answer   = [p \in Players |-> "none"]
  /\ conn     = [p \in Players |-> "up"]
  /\ ref      = [p \in Players |-> FALSE]
  /\ told     = 0
  /\ returned = FALSE
  /\ jobs     = <<>>
  /\ phase    = "idle"
  /\ at       = Nobody
  /\ job      = <<Nobody, Unset>>
  /\ picked   = [p \in Players |-> Unset]
  /\ begun    = [p \in Players |-> 0]

-----------------------------------------------------------------------------
(* The client.                                                             *)

TypedIds_Zero == Champions \cup {0}     \* mutant: 0 is not refused

TypedIds == Champions

ChoosePick(p) ==
  /\ conn[p] = "up"
  /\ client[p] = "champSelect"
  /\ ~sending[p]
  /\ tries[p] < MaxTries
  /\ \E c \in TypedIds : toServer' = [toServer EXCEPT ![p] = Append(@, c)]
  /\ tries'   = [tries EXCEPT ![p] = @ + 1]
  /\ sending' = [sending EXCEPT ![p] = TRUE]
  /\ answer'  = [answer EXCEPT ![p] = "none"]
  /\ UNCHANGED <<client, toClient, conn, ref, told, returned, jobs,
                 jobVars>>

(* GClientState = WAITING_GAME_START, whatever was received meanwhile.     *)
ShowWaiting(p) ==
  /\ sending[p]
  /\ sending' = [sending EXCEPT ![p] = FALSE]
  /\ client'  = [client EXCEPT ![p] = "picked"]
  /\ UNCHANGED <<tries, toServer, toClient, answer, conn, ref, told, returned,
                 jobs, jobVars>>

(* Handle_S_CHAMPSELECT_START, _PICK_UPDATE, _PICK_FAILED, _GAME_START.    *)
ClientReceive(p) ==
  /\ conn[p] = "up"
  /\ toClient[p] # <<>>
  /\ toClient' = [toClient EXCEPT ![p] = Tail(@)]
  /\ LET packet == Head(toClient[p]) IN
       /\ client' = [client EXCEPT ![p] =
            CASE packet[1] \in {"start", "failed"} -> "champSelect"
              [] packet[1] = "update"              -> @
              [] packet[1] = "gameStart"           -> "started"]
       /\ answer' = [answer EXCEPT ![p] =
            IF packet[1] = "failed" THEN "failed"
            ELSE IF packet[1] = "update" /\ packet[2] = p THEN "done" ELSE @]
  /\ UNCHANGED <<sending, tries, toServer, conn, ref, told, returned, jobs,
                 jobVars>>

-----------------------------------------------------------------------------
(* The game session.                                                       *)

Gone(p) == conn[p] = "dead"

Send(p, packet) ==
  toClient' = IF conn[p] = "up" THEN [toClient EXCEPT ![p] = Append(@, packet)]
              ELSE toClient

Disconnect(p) ==
  /\ conn[p] = "up"
  /\ Cardinality({q \in Players : conn[q] # "up"}) < MaxDrops
  /\ conn' = [conn EXCEPT ![p] = "down"]
  /\ UNCHANGED <<clientVars, toServer, toClient, ref, told, returned, jobs,
                 jobVars>>

SessionDestroyed(p) ==
  /\ conn[p] = "down"
  /\ conn' = [conn EXCEPT ![p] = "dead"]
  /\ UNCHANGED <<clientVars, toServer, toClient, ref, told, returned, jobs,
                 jobVars>>

(* A strong reference exists: Resolve has not returned, or a job waits or  *)
(* runs.                                                                   *)
Alive == ~returned \/ jobs # <<>> \/ phase # "idle"

(* Handle_C_PICK_CHAMPION: lock the weak_ptr and post OnPick.              *)
HandlePick(p) ==
  /\ ~Gone(p)
  /\ toServer[p] # <<>>
  /\ toServer' = [toServer EXCEPT ![p] = Tail(@)]
  /\ jobs' = IF ref[p] /\ Alive THEN Append(jobs, <<p, Head(toServer[p])>>)
             ELSE jobs
  /\ UNCHANGED <<clientVars, toClient, conn, ref, told, returned, jobVars>>

-----------------------------------------------------------------------------
(* Start, one participant, and the end of MatchAcceptSession::Resolve.     *)

StartNext ==
  /\ told < N
  /\ told' = told + 1
  /\ \/ /\ Gone(told + 1)
        /\ UNCHANGED <<ref, toClient>>
     \/ /\ ~Gone(told + 1)
        /\ ref' = [ref EXCEPT ![told + 1] = TRUE]
        /\ Send(told + 1, <<"start">>)
  /\ UNCHANGED <<clientVars, toServer, conn, returned, jobs, jobVars>>

ResolveReturns ==
  /\ told = N
  /\ ~returned
  /\ returned' = TRUE
  /\ UNCHANGED <<clientVars, toServer, toClient, conn, ref, told, jobs, jobVars>>

-----------------------------------------------------------------------------
(* OnPick and CheckAllPicked.                                              *)

IsChampionTaken_Own(c) == \E q \in Players : picked[q] = c /\ q = job[1]  \* mutant

IsChampionTaken(c) == \E q \in Players : picked[q] = c

BeginJob ==
  /\ phase = "idle"
  /\ jobs # <<>>
  /\ job'   = Head(jobs)
  /\ jobs'  = Tail(jobs)
  /\ phase' = "pick"
  /\ UNCHANGED <<clientVars, toServer, toClient, conn, ref, told, returned, at,
                 picked, begun>>

EndJob ==
  /\ phase' = "idle"
  /\ at'    = Nobody
  /\ job'   = <<Nobody, Unset>>

HasPicked(p) == picked[p] # Unset

PickFails ==
  /\ phase = "pick"
  /\ HasPicked(job[1]) \/ IsChampionTaken(job[2])
  /\ IF Gone(job[1]) THEN UNCHANGED toClient ELSE Send(job[1], <<"failed">>)
  /\ EndJob
  /\ UNCHANGED <<clientVars, toServer, conn, ref, told, returned, jobs, picked,
                 begun>>

(* mutant: pickedChampionId is not assigned                                *)
PickSucceeds_NotKept ==
  /\ phase = "pick"
  /\ ~HasPicked(job[1])
  /\ ~IsChampionTaken(job[2])
  /\ phase'  = "update"
  /\ at'     = 1
  /\ UNCHANGED <<clientVars, toServer, toClient, conn, ref, told, returned,
                 jobs, job, picked, begun>>

PickSucceeds ==
  /\ phase = "pick"
  /\ ~HasPicked(job[1])
  /\ ~IsChampionTaken(job[2])
  /\ picked' = [picked EXCEPT ![job[1]] = job[2]]
  /\ phase'  = "update"
  /\ at'     = 1
  /\ UNCHANGED <<clientVars, toServer, toClient, conn, ref, told, returned,
                 jobs, job, begun>>

BroadcastUpdate ==
  /\ phase = "update"
  /\ at <= N
  /\ at' = at + 1
  /\ IF Gone(at) THEN UNCHANGED toClient
     ELSE Send(at, <<"update", job[1], job[2]>>)
  /\ UNCHANGED <<clientVars, toServer, conn, ref, told, returned, jobs, phase,
                 job, picked, begun>>

AllPicked_Some == \E p \in Players : HasPicked(p)     \* mutant

AllPicked == \A p \in Players : HasPicked(p)

CheckAllPicked ==
  /\ phase = "update"
  /\ at = N + 1
  /\ \/ /\ ~AllPicked
        /\ EndJob
     \/ /\ AllPicked
        /\ phase' = "gameStart"
        /\ at' = 1
        /\ UNCHANGED job
  /\ UNCHANGED <<clientVars, toServer, toClient, conn, ref, told, returned,
                 jobs, picked, begun>>

StartGame ==
  /\ phase = "gameStart"
  /\ at <= N
  /\ at' = at + 1
  /\ \/ /\ Gone(at)
        /\ UNCHANGED <<ref, begun, toClient>>
     \/ /\ ~Gone(at)
        /\ ref'   = [ref EXCEPT ![at] = FALSE]
        /\ begun' = [begun EXCEPT ![at] = @ + 1]
        /\ Send(at, <<"gameStart">>)
  /\ UNCHANGED <<clientVars, toServer, conn, told, returned, jobs, phase, job,
                 picked>>

GameStarted ==
  /\ phase = "gameStart"
  /\ at = N + 1
  /\ EndJob
  /\ UNCHANGED <<clientVars, toServer, toClient, conn, ref, told, returned,
                 jobs, picked, begun>>

-----------------------------------------------------------------------------
Client(p) == ShowWaiting(p) \/ ClientReceive(p)

Session ==
  BeginJob \/ PickFails \/ PickSucceeds \/ BroadcastUpdate \/ CheckAllPicked
    \/ StartGame \/ GameStarted

Next ==
  \/ \E p \in Players :
       ChoosePick(p) \/ Client(p) \/ HandlePick(p) \/ Disconnect(p)
         \/ SessionDestroyed(p)
  \/ StartNext \/ ResolveReturns \/ Session

Spec == Init /\ [][Next]_vars

(* Worker threads run, the network delivers, the client's threads run.  A  *)
(* user need not pick and a connection need not break.                     *)
Fairness ==
  /\ \A p \in Players : WF_vars(Client(p)) /\ WF_vars(HandlePick(p))
  /\ WF_vars(StartNext) /\ WF_vars(ResolveReturns) /\ WF_vars(Session)

FairSpec == Spec /\ Fairness

-----------------------------------------------------------------------------
Pick == Champions \cup {Unset}

Packets == {<<"start">>, <<"failed">>, <<"gameStart">>}
             \cup ({"update"} \X Players \X Champions)

TypeOK ==
  /\ client   \in [Players -> {"waiting", "champSelect", "picked", "started"}]
  /\ sending  \in [Players -> BOOLEAN]
  /\ tries    \in [Players -> 0 .. MaxTries]
  /\ toServer \in [Players -> Seq(Champions)]
  /\ toClient \in [Players -> Seq(Packets)]
  /\ answer   \in [Players -> {"none", "failed", "done"}]
  /\ conn     \in [Players -> {"up", "down", "dead"}]
  /\ ref      \in [Players -> BOOLEAN]
  /\ told     \in 0 .. N
  /\ returned \in BOOLEAN
  /\ jobs     \in Seq(Players \X Champions)
  /\ phase    \in {"idle", "pick", "update", "gameStart"}
  /\ at       \in 0 .. N + 1
  /\ job      \in (Players \cup {Nobody}) \X Pick
  /\ picked   \in [Players -> Pick]
  /\ begun    \in [Players -> Nat]

(* No champion is picked twice, in the own or the other team, however the  *)
(* picks of the ten players overlap (ChampSelectSession.cpp:81-115).       *)
ChampionsDistinct ==
  \A p, q \in Players : picked[p] = picked[q] /\ picked[p] # Unset => p = q

(* S_GAME_START goes out once, when the last participant has picked, and   *)
(* although Start sends beside the jobs nobody gets it before his          *)
(* S_CHAMPSELECT_START (ChampSelectSession.cpp:66-76, 152-181).            *)
GameStartsOnce ==
  \A p \in Players :
    /\ begun[p] <= 1
    /\ begun[p] = 1 => /\ \A q \in Players : picked[q] # Unset
                       /\ told = N
                       /\ ~ref[p]

Said(p, packet) == \E i \in DOMAIN toClient[p] : toClient[p][i] = packet

(* A pick that was announced stands: what a client is told of a player is  *)
(* what the server holds, whatever picks and deaths come in between        *)
(* (ChampSelectSession.cpp:87-129).                                        *)
UpdatesStand ==
  \A p, q \in Players, c \in Champions :
    Said(p, <<"update", q, c>>) => picked[q] = c

(* Matchmaking_Design.md:93-97: a pick is either announced to everybody or *)
(* refused to the player.  So a client that sent a pick is answered.       *)
PickAnswered ==
  \A p \in Players :
    toServer[p] # <<>> ~> (answer[p] # "none" \/ conn[p] # "up")
=============================================================================
