---------------------------- MODULE Connections ----------------------------
(***************************************************************************)
(* How clients come and go: the accept slots of the listener, the sessions *)
(* as Service and GameSessionManager know them, and login by name.         *)
(*                                                                         *)
(* What one session does on the network is in SessionIo; from there this   *)
(* module takes that its receives form one chain, so that one handler at a *)
(* time runs for a session, that the chain may have a packet left when the *)
(* connection is already given up, and that OnDisconnected runs once, on   *)
(* any worker.  A session may be lost on the receive chain at any time or, *)
(* beside its handler, through a send that fails.                          *)
(***************************************************************************)
EXTENDS Naturals

CONSTANTS
  Slots,      \* AcceptEvents: maxAcceptCount of them
  Sessions,   \* bound: the sessions CreateSession may make
  NoSession,
  Names,      \* nicknames that IsValidNickname takes
  BadName,    \* a nickname it does not take
  NoName,     \* _player is null
  MaxLogins   \* bound: C_LOGINs a client sends on one connection

ASSUME NoSessionAssumption == NoSession \notin Sessions
ASSUME NamesAssumption == BadName \notin Names /\ NoName \notin Names \cup {BadName}
ASSUME MaxLoginsAssumption == MaxLogins \in Nat

VARIABLES
  closing,      \* Listener::_closing
  listening,    \* its socket is open
  slot,         \* where each accept slot is, see SlotPlaces
  accepting,    \* AcceptEvent::session
  created,      \* sessions that were made
  inService,    \* Service::_sessions
  inManager,    \* GameSessionManager::_sessions
  chain,        \* sessions whose receive chain goes on
  sent,         \* sessions that have been sent something
  leaving,      \* where the end of each session is, see LeavingPlaces
  handler,      \* where the handler of C_LOGIN of each session is
  asked,        \* the name in the packet it handles
  logins,       \* C_LOGINs received
  player,       \* the name in _player
  activeNames   \* GameSessionManager::_activeNames

acceptVars == <<closing, listening, slot, accepting, created>>
setVars    == <<inService, inManager>>
loginVars  == <<handler, asked, logins, player>>
vars == <<acceptVars, setVars, loginVars, chain, sent, leaving, activeNames>>

(* StartAccept has listened and is about to register each slot.            *)
Init ==
  /\ closing = FALSE /\ listening = TRUE
  /\ slot = [k \in Slots |-> "register"] /\ accepting = [k \in Slots |-> NoSession]
  /\ created = {} /\ inService = {} /\ inManager = {} /\ chain = {} /\ sent = {}
  /\ leaving = [s \in Sessions |-> "no"]
  /\ handler = [s \in Sessions |-> "idle"]
  /\ asked   = [s \in Sessions |-> NoName]
  /\ logins  = [s \in Sessions |-> 0]
  /\ player  = [s \in Sessions |-> NoName]
  /\ activeNames = {}

MoveSlot(k, from, to) == slot[k] = from /\ slot' = [slot EXCEPT ![k] = to]
MoveHandler(s, from, to) == handler[s] = from /\ handler' = [handler EXCEPT ![s] = to]
MoveLeaving(s, from, to) == leaving[s] = from /\ leaving' = [leaving EXCEPT ![s] = to]

-----------------------------------------------------------------------------
(* RegisterAccept: a slot of a closing listener lets go of the listener.   *)
CheckClosing_Not(k) ==                        \* mutant: _closing is not looked at
  /\ MoveSlot(k, "register", "post")
  /\ UNCHANGED <<closing, listening, accepting, created>>
  /\ UNCHANGED <<setVars, loginVars, chain, sent, leaving, activeNames>>

CheckClosing(k) ==
  /\ MoveSlot(k, "register", IF closing THEN "released" ELSE "post")
  /\ UNCHANGED <<closing, listening, accepting, created>>
  /\ UNCHANGED <<setVars, loginVars, chain, sent, leaving, activeNames>>

(* CreateSession and AcceptEx; if either fails the slot starts over.       *)
PostAccept(k) ==
  /\ listening
  /\ MoveSlot(k, "post", "posted")
  /\ \E s \in Sessions \ created :
       created' = created \cup {s} /\ accepting' = [accepting EXCEPT ![k] = s]
  /\ UNCHANGED <<closing, listening>>
  /\ UNCHANGED <<setVars, loginVars, chain, sent, leaving, activeNames>>

PostFails(k) ==
  /\ MoveSlot(k, "post", "register")
  /\ UNCHANGED <<closing, listening, accepting, created>>
  /\ UNCHANGED <<setVars, loginVars, chain, sent, leaving, activeNames>>

(* A client arrives; or ProcessAccept finds that it has left again, or     *)
(* that the listener was closed, and drops the new session.                *)
ClientArrives(k) ==
  /\ listening
  /\ MoveSlot(k, "posted", "addSession")
  /\ UNCHANGED <<closing, listening, accepting, created>>
  /\ UNCHANGED <<setVars, loginVars, chain, sent, leaving, activeNames>>

AcceptFails(k) ==
  /\ MoveSlot(k, "posted", "register")
  /\ UNCHANGED <<closing, listening, accepting, created>>
  /\ UNCHANGED <<setVars, loginVars, chain, sent, leaving, activeNames>>

(* ProcessConnect: AddSession, OnConnected, RegisterRecv; and the slot     *)
(* starts over.                                                            *)
After_RecvFirst ==                   \* mutant: received on before it is added
  [addSession |-> "registerRecv", registerRecv |-> "onConnected", onConnected |-> "register"]

After ==
  [addSession |-> "onConnected", onConnected |-> "registerRecv", registerRecv |-> "register"]

AddSession(k) ==
  /\ MoveSlot(k, "addSession", After["addSession"])
  /\ inService' = inService \cup {accepting[k]}
  /\ UNCHANGED <<closing, listening, accepting, created, inManager>>
  /\ UNCHANGED <<loginVars, chain, sent, leaving, activeNames>>

OnConnected(k) ==
  /\ MoveSlot(k, "onConnected", After["onConnected"])
  /\ inManager' = inManager \cup {accepting[k]}
  /\ UNCHANGED <<closing, listening, accepting, created, inService>>
  /\ UNCHANGED <<loginVars, chain, sent, leaving, activeNames>>

RegisterRecv(k) ==
  /\ MoveSlot(k, "registerRecv", After["registerRecv"])
  /\ chain' = chain \cup {accepting[k]}
  /\ UNCHANGED <<closing, listening, accepting, created>>
  /\ UNCHANGED <<setVars, loginVars, sent, leaving, activeNames>>

(* ServerService::CloseService.                                            *)
CloseService ==
  /\ ~closing
  /\ closing' = TRUE
  /\ UNCHANGED <<listening, slot, accepting, created>>
  /\ UNCHANGED <<setVars, loginVars, chain, sent, leaving, activeNames>>

CloseSocket ==
  /\ closing /\ listening
  /\ listening' = FALSE
  /\ UNCHANGED <<closing, slot, accepting, created>>
  /\ UNCHANGED <<setVars, loginVars, chain, sent, leaving, activeNames>>

-----------------------------------------------------------------------------
(* Handle_C_LOGIN.                                                         *)
ReceiveLogin(s) ==
  /\ s \in chain /\ logins[s] < MaxLogins
  /\ MoveHandler(s, "idle", "check")
  /\ \E n \in Names \cup {BadName} : asked' = [asked EXCEPT ![s] = n]
  /\ logins' = [logins EXCEPT ![s] = @ + 1]
  /\ UNCHANGED <<acceptVars, setVars, chain, sent, leaving, player, activeNames>>

LoggedIn(s) == player[s] # NoName

CheckPlayer(s) ==
  /\ MoveHandler(s, "check", IF LoggedIn(s) THEN "reply" ELSE "reserve")
  /\ UNCHANGED <<acceptVars, setVars, chain, sent, leaving, asked, logins, player, activeNames>>

Taken_NotSeen(n) == FALSE             \* mutant: the set is not searched

Taken(n) == n \in activeNames

Invalid_Ignored(n) == FALSE           \* mutant: IsValidNickname is not asked

Invalid(n) == n = BadName

TryReserveName(s) ==
  /\ IF Invalid(asked[s]) \/ Taken(asked[s])
     THEN MoveHandler(s, "reserve", "reply") /\ UNCHANGED activeNames
     ELSE /\ MoveHandler(s, "reserve", "setPlayer")
          /\ activeNames' = activeNames \cup {asked[s]}
  /\ UNCHANGED <<acceptVars, setVars, chain, sent, leaving, asked, logins, player>>

SetPlayer(s) ==
  /\ MoveHandler(s, "setPlayer", "reply")
  /\ player' = [player EXCEPT ![s] = asked[s]]
  /\ UNCHANGED <<acceptVars, setVars, chain, sent, leaving, asked, logins, activeNames>>

(* S_LOGIN.  OnRecv goes on with what is left in the buffer, if anything;  *)
(* RegisterRecv goes on only if the session is still connected.            *)
Reply(s) ==
  /\ MoveHandler(s, "reply", "idle")
  /\ IF leaving[s] = "no"
     THEN sent' = sent \cup {s} /\ UNCHANGED chain
     ELSE UNCHANGED sent /\ (UNCHANGED chain \/ chain' = chain \ {s})
  /\ asked' = [asked EXCEPT ![s] = NoName]
  /\ UNCHANGED <<acceptVars, setVars, leaving, logins, player, activeNames>>

-----------------------------------------------------------------------------
(* Disconnect: the receive chain ends, or a send fails beside it.  When    *)
(* DisconnectEx fails nothing follows.                                     *)
Disconnect(s) ==
  /\ \/ s \in chain /\ handler[s] = "idle" /\ chain' = chain \ {s}
     \/ s \in sent /\ UNCHANGED chain
  /\ \E to \in {"remove", "stuck"} : MoveLeaving(s, "no", to)
  /\ UNCHANGED <<acceptVars, setVars, loginVars, sent, activeNames>>

(* OnDisconnected, then ReleaseSession.                                    *)
Remove(s) ==
  /\ MoveLeaving(s, "remove", "releaseName")
  /\ inManager' = inManager \ {s}
  /\ UNCHANGED <<acceptVars, loginVars, chain, sent, inService, activeNames>>

Freed_None(s) == {}                           \* mutant: the name is kept

Freed(s) == {player[s]} \ {NoName}

ReleaseName(s) ==
  /\ MoveLeaving(s, "releaseName", "releaseSession")
  /\ activeNames' = activeNames \ Freed(s)
  /\ UNCHANGED <<acceptVars, setVars, loginVars, chain, sent>>

ReleaseSession(s) ==
  /\ MoveLeaving(s, "releaseSession", "gone")
  /\ inService' = inService \ {s}
  /\ UNCHANGED <<acceptVars, loginVars, chain, sent, inManager, activeNames>>

-----------------------------------------------------------------------------
Slot(k) ==
  \/ CheckClosing(k) \/ PostAccept(k) \/ PostFails(k)
  \/ AddSession(k) \/ OnConnected(k) \/ RegisterRecv(k)

Handler(s) == CheckPlayer(s) \/ TryReserveName(s) \/ SetPlayer(s) \/ Reply(s)

Leave(s) == Remove(s) \/ ReleaseName(s) \/ ReleaseSession(s)

Next ==
  \/ \E k \in Slots : Slot(k) \/ ClientArrives(k) \/ AcceptFails(k)
  \/ \E s \in Sessions : ReceiveLogin(s) \/ Handler(s) \/ Disconnect(s) \/ Leave(s)
  \/ CloseService \/ CloseSocket

Spec == Init /\ [][Next]_vars

(* Workers go on; closing the socket completes the accepts that wait.      *)
(* Nobody has to connect, log in, leave or close the service.              *)
Fairness ==
  /\ \A k \in Slots : WF_vars(Slot(k)) /\ WF_vars(~listening /\ AcceptFails(k))
  /\ \A s \in Sessions : WF_vars(Handler(s)) /\ WF_vars(Leave(s))
  /\ WF_vars(CloseSocket)

FairSpec == Spec /\ Fairness

-----------------------------------------------------------------------------
SlotPlaces == {"register", "post", "posted", "addSession", "onConnected",
               "registerRecv", "released"}

HandlerPlaces == {"idle", "check", "reserve", "setPlayer", "reply"}

LeavingPlaces == {"no", "stuck", "remove", "releaseName", "releaseSession", "gone"}

TypeOK ==
  /\ closing \in BOOLEAN /\ listening \in BOOLEAN
  /\ slot \in [Slots -> SlotPlaces]
  /\ accepting \in [Slots -> Sessions \cup {NoSession}]
  /\ created \subseteq Sessions /\ inService \subseteq created
  /\ inManager \subseteq created /\ chain \subseteq created /\ sent \subseteq created
  /\ leaving \in [Sessions -> LeavingPlaces]
  /\ handler \in [Sessions -> HandlerPlaces]
  /\ asked \in [Sessions -> Names \cup {BadName, NoName}]
  /\ logins \in [Sessions -> 0 .. MaxLogins]
  /\ player \in [Sessions -> Names \cup {NoName}]
  /\ activeNames \subseteq Names

(* Who goes by a name: a session that has reserved it, until OnDisconnected *)
(* has given the name of its player back.                                  *)
Claims(s, n) ==
  \/ handler[s] = "setPlayer" /\ asked[s] = n
  \/ player[s] = n /\ leaving[s] \notin {"releaseSession", "gone"}

(* No two sessions go by one name, however logins race each other and the  *)
(* sessions that leave, and who goes by a name has it reserved             *)
(* (GameSessionManager.cpp:19-34, ClientPacketHandler.cpp:32-63).          *)
NamesUnique ==
  \A n \in Names :
    /\ \A s, t \in Sessions : Claims(s, n) /\ Claims(t, n) => s = t
    /\ \A s \in Sessions : Claims(s, n) => n \in activeNames

(* It is so for clients that try to log in once, as the console client     *)
(* does: their handler cannot be overtaken by OnDisconnected               *)
(* (GameSession.cpp:18-23, ClientPacketHandler.cpp:45-63).                 *)
NamesHeld ==
  \A n \in activeNames :
    \E s \in Sessions : Claims(s, n) \/ (player[s] = n /\ logins[s] > 1)

(* The two sets of sessions (README.md:58) follow each other: the manager  *)
(* knows only sessions of the service, ReleaseSession finds its session    *)
(* (the assertion of Service.cpp:60), and a session that has left is in    *)
(* neither (Session.cpp:226-230, 237-238).                                 *)
SetsAgree ==
  /\ inManager \subseteq inService
  /\ \A s \in Sessions :
       /\ leaving[s] = "releaseSession" => s \in inService
       /\ leaving[s] = "gone" => s \notin inService \cup inManager

(* When the service closes, every accept slot comes to let go of the       *)
(* listener, so that it can be destroyed (Docs/ServerCore_Review.md:77,    *)
(* Listener.cpp:90-114).                                                   *)
ListenerFreed == closing ~> \A k \in Slots : slot[k] = "released"
=============================================================================
