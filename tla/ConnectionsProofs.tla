------------------------- MODULE ConnectionsProofs -------------------------
(***************************************************************************)
(* Theorems about Connections, for any accept slots, sessions and names.   *)
(***************************************************************************)
EXTENDS Connections, TLAPS

(* A handler runs on the receive chain of its session, and past the check  *)
(* of _player there is none.                                               *)
HandlerInv ==
  \A s \in Sessions :
    /\ handler[s] # "idle" => s \in chain
    /\ handler[s] \in {"reserve", "setPlayer"} => player[s] = NoName
    /\ handler[s] \in {"check", "reserve"} => asked[s] \in Names \cup {BadName}
    /\ handler[s] = "setPlayer" => asked[s] \in Names

(* An accept slot is alone with a session that nothing has happened to.    *)
Holds(k) == slot[k] \in {"posted", "addSession", "onConnected", "registerRecv"}

SlotInv ==
  /\ \A k \in Slots : Holds(k) =>
       /\ accepting[k] \in created
       /\ accepting[k] \notin chain \cup sent
       /\ leaving[accepting[k]] = "no"
       /\ slot[k] \in {"onConnected", "registerRecv"} => accepting[k] \in inService
  /\ \A k, l \in Slots : Holds(k) /\ Holds(l) /\ accepting[k] = accepting[l] => k = l

(* Where a session is in the two sets while it lives and leaves.           *)
SetsInv ==
  /\ inManager \subseteq inService
  /\ \A s \in Sessions :
       /\ s \in chain \cup sent => s \in created
       /\ leaving[s] # "no" => s \in created
       /\ (s \in chain \cup sent /\ leaving[s] # "gone") => s \in inService
       /\ leaving[s] \in {"stuck", "remove", "releaseName", "releaseSession"} => s \in inService
       /\ leaving[s] \in {"releaseName", "releaseSession", "gone"} => s \notin inManager
       /\ leaving[s] = "gone" => s \notin inService

(* Before its first answer a session leaves only by the end of its receive *)
(* chain, and so not while a handler runs.                                 *)
OnceInv ==
  \A s \in Sessions :
    /\ handler[s] # "idle" => logins[s] >= 1
    /\ s \in sent => logins[s] >= 1
    /\ handler[s] # "idle" /\ logins[s] = 1 => s \notin sent
    /\ s \in chain /\ s \notin sent => leaving[s] = "no"

IInv == /\ TypeOK /\ HandlerInv /\ SlotInv /\ SetsInv /\ OnceInv
        /\ NamesUnique /\ NamesHeld

LEMMA TypeStep ==
  ASSUME TypeOK, HandlerInv, SlotInv, [Next]_vars
  PROVE  TypeOK'
<1> USE MaxLoginsAssumption DEF TypeOK, SlotPlaces, HandlerPlaces,
        LeavingPlaces, HandlerInv, SlotInv, Holds, MoveSlot, MoveHandler,
        MoveLeaving, acceptVars, setVars, loginVars
<1>1. ASSUME NEW k \in Slots, CheckClosing(k) PROVE TypeOK'
  BY <1>1 DEF CheckClosing
<1>2. ASSUME NEW k \in Slots, PostAccept(k) PROVE TypeOK'
  BY <1>2 DEF PostAccept
<1>3. ASSUME NEW k \in Slots, PostFails(k) PROVE TypeOK'
  BY <1>3 DEF PostFails
<1>4. ASSUME NEW k \in Slots, AddSession(k) PROVE TypeOK'
  BY <1>4 DEF AddSession, After
<1>5. ASSUME NEW k \in Slots, OnConnected(k) PROVE TypeOK'
  BY <1>5 DEF OnConnected, After
<1>6. ASSUME NEW k \in Slots, RegisterRecv(k) PROVE TypeOK'
  BY <1>6 DEF RegisterRecv, After
<1>7. ASSUME NEW k \in Slots, ClientArrives(k) PROVE TypeOK'
  BY <1>7 DEF ClientArrives
<1>8. ASSUME NEW k \in Slots, AcceptFails(k) PROVE TypeOK'
  BY <1>8 DEF AcceptFails
<1>9. ASSUME NEW s \in Sessions, ReceiveLogin(s) PROVE TypeOK'
  BY <1>9 DEF ReceiveLogin
<1>10. ASSUME NEW s \in Sessions, CheckPlayer(s) PROVE TypeOK'
  BY <1>10 DEF CheckPlayer, LoggedIn
<1>11. ASSUME NEW s \in Sessions, TryReserveName(s) PROVE TypeOK'
  BY <1>11 DEF TryReserveName, Invalid, Taken
<1>12. ASSUME NEW s \in Sessions, SetPlayer(s) PROVE TypeOK'
  BY <1>12 DEF SetPlayer
<1>13. ASSUME NEW s \in Sessions, Reply(s) PROVE TypeOK'
  BY <1>13 DEF Reply
<1>14. ASSUME NEW s \in Sessions, Disconnect(s) PROVE TypeOK'
  BY <1>14 DEF Disconnect
<1>15. ASSUME NEW s \in Sessions, Remove(s) PROVE TypeOK'
  BY <1>15 DEF Remove
<1>16. ASSUME NEW s \in Sessions, ReleaseName(s) PROVE TypeOK'
  BY <1>16 DEF ReleaseName, Freed
<1>17. ASSUME NEW s \in Sessions, ReleaseSession(s) PROVE TypeOK'
  BY <1>17 DEF ReleaseSession
<1>18. ASSUME CloseService PROVE TypeOK'
  BY <1>18 DEF CloseService
<1>19. ASSUME CloseSocket PROVE TypeOK'
  BY <1>19 DEF CloseSocket
<1>20. CASE UNCHANGED vars
  BY <1>20 DEF vars
<1> QED
  BY <1>1, <1>2, <1>3, <1>4, <1>5, <1>6, <1>7, <1>8, <1>9, <1>10,
     <1>11, <1>12, <1>13, <1>14, <1>15, <1>16, <1>17, <1>18, <1>19, <1>20
  DEF Next, Slot, Handler, Leave

LEMMA HandlerStep ==
  ASSUME TypeOK, HandlerInv, [Next]_vars
  PROVE  HandlerInv'
<1> USE DEF TypeOK, HandlerInv, MoveSlot, MoveHandler, MoveLeaving,
        acceptVars, setVars, loginVars
<1>1. ASSUME NEW k \in Slots, CheckClosing(k) PROVE HandlerInv'
  BY <1>1 DEF CheckClosing
<1>2. ASSUME NEW k \in Slots, PostAccept(k) PROVE HandlerInv'
  BY <1>2 DEF PostAccept
<1>3. ASSUME NEW k \in Slots, PostFails(k) PROVE HandlerInv'
  BY <1>3 DEF PostFails
<1>4. ASSUME NEW k \in Slots, AddSession(k) PROVE HandlerInv'
  BY <1>4 DEF AddSession, After
<1>5. ASSUME NEW k \in Slots, OnConnected(k) PROVE HandlerInv'
  BY <1>5 DEF OnConnected, After
<1>6. ASSUME NEW k \in Slots, RegisterRecv(k) PROVE HandlerInv'
  BY <1>6 DEF RegisterRecv, After
<1>7. ASSUME NEW k \in Slots, ClientArrives(k) PROVE HandlerInv'
  BY <1>7 DEF ClientArrives
<1>8. ASSUME NEW k \in Slots, AcceptFails(k) PROVE HandlerInv'
  BY <1>8 DEF AcceptFails
<1>9. ASSUME NEW s \in Sessions, ReceiveLogin(s) PROVE HandlerInv'
  BY <1>9 DEF ReceiveLogin
<1>10. ASSUME NEW s \in Sessions, CheckPlayer(s) PROVE HandlerInv'
  BY <1>10 DEF CheckPlayer, LoggedIn
<1>11. ASSUME NEW s \in Sessions, TryReserveName(s) PROVE HandlerInv'
  BY <1>11 DEF TryReserveName, Invalid, Taken
<1>12. ASSUME NEW s \in Sessions, SetPlayer(s) PROVE HandlerInv'
  BY <1>12 DEF SetPlayer
<1>13. ASSUME NEW s \in Sessions, Reply(s) PROVE HandlerInv'
  BY <1>13 DEF Reply
<1>14. ASSUME NEW s \in Sessions, Disconnect(s) PROVE HandlerInv'
  BY <1>14 DEF Disconnect
<1>15. ASSUME NEW s \in Sessions, Remove(s) PROVE HandlerInv'
  BY <1>15 DEF Remove
<1>16. ASSUME NEW s \in Sessions, ReleaseName(s) PROVE HandlerInv'
  BY <1>16 DEF ReleaseName, Freed
<1>17. ASSUME NEW s \in Sessions, ReleaseSession(s) PROVE HandlerInv'
  BY <1>17 DEF ReleaseSession
<1>18. ASSUME CloseService PROVE HandlerInv'
  BY <1>18 DEF CloseService
<1>19. ASSUME CloseSocket PROVE HandlerInv'
  BY <1>19 DEF CloseSocket
<1>20. CASE UNCHANGED vars
  BY <1>20 DEF vars
<1> QED
  BY <1>1, <1>2, <1>3, <1>4, <1>5, <1>6, <1>7, <1>8, <1>9, <1>10,
     <1>11, <1>12, <1>13, <1>14, <1>15, <1>16, <1>17, <1>18, <1>19, <1>20
  DEF Next, Slot, Handler, Leave

LEMMA SlotStep ==
  ASSUME TypeOK, HandlerInv, SlotInv, SetsInv, [Next]_vars
  PROVE  SlotInv'
<1> USE DEF TypeOK, HandlerInv, SlotInv, Holds, SetsInv, MoveSlot,
        MoveHandler, MoveLeaving, acceptVars, setVars, loginVars
<1>1. ASSUME NEW k \in Slots, CheckClosing(k) PROVE SlotInv'
  BY <1>1 DEF CheckClosing
<1>2. ASSUME NEW k \in Slots, PostAccept(k) PROVE SlotInv'
  BY <1>2 DEF PostAccept
<1>3. ASSUME NEW k \in Slots, PostFails(k) PROVE SlotInv'
  BY <1>3 DEF PostFails
<1>4. ASSUME NEW k \in Slots, AddSession(k) PROVE SlotInv'
  BY <1>4 DEF AddSession, After
<1>5. ASSUME NEW k \in Slots, OnConnected(k) PROVE SlotInv'
  BY <1>5 DEF OnConnected, After
<1>6. ASSUME NEW k \in Slots, RegisterRecv(k) PROVE SlotInv'
  BY <1>6 DEF RegisterRecv, After
<1>7. ASSUME NEW k \in Slots, ClientArrives(k) PROVE SlotInv'
  BY <1>7 DEF ClientArrives
<1>8. ASSUME NEW k \in Slots, AcceptFails(k) PROVE SlotInv'
  BY <1>8 DEF AcceptFails
<1>9. ASSUME NEW s \in Sessions, ReceiveLogin(s) PROVE SlotInv'
  BY <1>9 DEF ReceiveLogin
<1>10. ASSUME NEW s \in Sessions, CheckPlayer(s) PROVE SlotInv'
  BY <1>10 DEF CheckPlayer, LoggedIn
<1>11. ASSUME NEW s \in Sessions, TryReserveName(s) PROVE SlotInv'
  BY <1>11 DEF TryReserveName, Invalid, Taken
<1>12. ASSUME NEW s \in Sessions, SetPlayer(s) PROVE SlotInv'
  BY <1>12 DEF SetPlayer
<1>13. ASSUME NEW s \in Sessions, Reply(s) PROVE SlotInv'
  BY <1>13 DEF Reply
<1>14. ASSUME NEW s \in Sessions, Disconnect(s) PROVE SlotInv'
  BY <1>14 DEF Disconnect
<1>15. ASSUME NEW s \in Sessions, Remove(s) PROVE SlotInv'
  BY <1>15 DEF Remove
<1>16. ASSUME NEW s \in Sessions, ReleaseName(s) PROVE SlotInv'
  BY <1>16 DEF ReleaseName, Freed
<1>17. ASSUME NEW s \in Sessions, ReleaseSession(s) PROVE SlotInv'
  BY <1>17 DEF ReleaseSession
<1>18. ASSUME CloseService PROVE SlotInv'
  BY <1>18 DEF CloseService
<1>19. ASSUME CloseSocket PROVE SlotInv'
  BY <1>19 DEF CloseSocket
<1>20. CASE UNCHANGED vars
  BY <1>20 DEF vars
<1> QED
  BY <1>1, <1>2, <1>3, <1>4, <1>5, <1>6, <1>7, <1>8, <1>9, <1>10,
     <1>11, <1>12, <1>13, <1>14, <1>15, <1>16, <1>17, <1>18, <1>19, <1>20
  DEF Next, Slot, Handler, Leave

LEMMA SetsStep ==
  ASSUME TypeOK, SlotInv, SetsInv, HandlerInv, [Next]_vars
  PROVE  SetsInv'
<1> USE DEF TypeOK, SlotInv, Holds, SetsInv, HandlerInv, MoveSlot,
        MoveHandler, MoveLeaving, acceptVars, setVars, loginVars
<1>1. ASSUME NEW k \in Slots, CheckClosing(k) PROVE SetsInv'
  BY <1>1 DEF CheckClosing
<1>2. ASSUME NEW k \in Slots, PostAccept(k) PROVE SetsInv'
  BY <1>2 DEF PostAccept
<1>3. ASSUME NEW k \in Slots, PostFails(k) PROVE SetsInv'
  BY <1>3 DEF PostFails
<1>4. ASSUME NEW k \in Slots, AddSession(k) PROVE SetsInv'
  BY <1>4 DEF AddSession, After
<1>5. ASSUME NEW k \in Slots, OnConnected(k) PROVE SetsInv'
  BY <1>5 DEF OnConnected, After
<1>6. ASSUME NEW k \in Slots, RegisterRecv(k) PROVE SetsInv'
  BY <1>6 DEF RegisterRecv, After
<1>7. ASSUME NEW k \in Slots, ClientArrives(k) PROVE SetsInv'
  BY <1>7 DEF ClientArrives
<1>8. ASSUME NEW k \in Slots, AcceptFails(k) PROVE SetsInv'
  BY <1>8 DEF AcceptFails
<1>9. ASSUME NEW s \in Sessions, ReceiveLogin(s) PROVE SetsInv'
  BY <1>9 DEF ReceiveLogin
<1>10. ASSUME NEW s \in Sessions, CheckPlayer(s) PROVE SetsInv'
  BY <1>10 DEF CheckPlayer, LoggedIn
<1>11. ASSUME NEW s \in Sessions, TryReserveName(s) PROVE SetsInv'
  BY <1>11 DEF TryReserveName, Invalid, Taken
<1>12. ASSUME NEW s \in Sessions, SetPlayer(s) PROVE SetsInv'
  BY <1>12 DEF SetPlayer
<1>13. ASSUME NEW s \in Sessions, Reply(s) PROVE SetsInv'
  BY <1>13 DEF Reply
<1>14. ASSUME NEW s \in Sessions, Disconnect(s) PROVE SetsInv'
  BY <1>14 DEF Disconnect
<1>15. ASSUME NEW s \in Sessions, Remove(s) PROVE SetsInv'
  BY <1>15 DEF Remove
<1>16. ASSUME NEW s \in Sessions, ReleaseName(s) PROVE SetsInv'
  BY <1>16 DEF ReleaseName, Freed
<1>17. ASSUME NEW s \in Sessions, ReleaseSession(s) PROVE SetsInv'
  BY <1>17 DEF ReleaseSession
<1>18. ASSUME CloseService PROVE SetsInv'
  BY <1>18 DEF CloseService
<1>19. ASSUME CloseSocket PROVE SetsInv'
  BY <1>19 DEF CloseSocket
<1>20. CASE UNCHANGED vars
  BY <1>20 DEF vars
<1> QED
  BY <1>1, <1>2, <1>3, <1>4, <1>5, <1>6, <1>7, <1>8, <1>9, <1>10,
     <1>11, <1>12, <1>13, <1>14, <1>15, <1>16, <1>17, <1>18, <1>19, <1>20
  DEF Next, Slot, Handler, Leave

LEMMA OnceStep ==
  ASSUME TypeOK, OnceInv, HandlerInv, SlotInv, [Next]_vars
  PROVE  OnceInv'
<1> USE DEF TypeOK, OnceInv, HandlerInv, SlotInv, Holds, MoveSlot,
        MoveHandler, MoveLeaving, acceptVars, setVars, loginVars
<1>1. ASSUME NEW k \in Slots, CheckClosing(k) PROVE OnceInv'
  BY <1>1 DEF CheckClosing
<1>2. ASSUME NEW k \in Slots, PostAccept(k) PROVE OnceInv'
  BY <1>2 DEF PostAccept
<1>3. ASSUME NEW k \in Slots, PostFails(k) PROVE OnceInv'
  BY <1>3 DEF PostFails
<1>4. ASSUME NEW k \in Slots, AddSession(k) PROVE OnceInv'
  BY <1>4 DEF AddSession, After
<1>5. ASSUME NEW k \in Slots, OnConnected(k) PROVE OnceInv'
  BY <1>5 DEF OnConnected, After
<1>6. ASSUME NEW k \in Slots, RegisterRecv(k) PROVE OnceInv'
  BY <1>6 DEF RegisterRecv, After
<1>7. ASSUME NEW k \in Slots, ClientArrives(k) PROVE OnceInv'
  BY <1>7 DEF ClientArrives
<1>8. ASSUME NEW k \in Slots, AcceptFails(k) PROVE OnceInv'
  BY <1>8 DEF AcceptFails
<1>9. ASSUME NEW s \in Sessions, ReceiveLogin(s) PROVE OnceInv'
  BY <1>9 DEF ReceiveLogin
<1>10. ASSUME NEW s \in Sessions, CheckPlayer(s) PROVE OnceInv'
  BY <1>10 DEF CheckPlayer, LoggedIn
<1>11. ASSUME NEW s \in Sessions, TryReserveName(s) PROVE OnceInv'
  BY <1>11 DEF TryReserveName, Invalid, Taken
<1>12. ASSUME NEW s \in Sessions, SetPlayer(s) PROVE OnceInv'
  BY <1>12 DEF SetPlayer
<1>13. ASSUME NEW s \in Sessions, Reply(s) PROVE OnceInv'
  BY <1>13 DEF Reply
<1>14. ASSUME NEW s \in Sessions, Disconnect(s) PROVE OnceInv'
  BY <1>14 DEF Disconnect
<1>15. ASSUME NEW s \in Sessions, Remove(s) PROVE OnceInv'
  BY <1>15 DEF Remove
<1>16. ASSUME NEW s \in Sessions, ReleaseName(s) PROVE OnceInv'
  BY <1>16 DEF ReleaseName, Freed
<1>17. ASSUME NEW s \in Sessions, ReleaseSession(s) PROVE OnceInv'
  BY <1>17 DEF ReleaseSession
<1>18. ASSUME CloseService PROVE OnceInv'
  BY <1>18 DEF CloseService
<1>19. ASSUME CloseSocket PROVE OnceInv'
  BY <1>19 DEF CloseSocket
<1>20. CASE UNCHANGED vars
  BY <1>20 DEF vars
<1> QED
  BY <1>1, <1>2, <1>3, <1>4, <1>5, <1>6, <1>7, <1>8, <1>9, <1>10,
     <1>11, <1>12, <1>13, <1>14, <1>15, <1>16, <1>17, <1>18, <1>19, <1>20
  DEF Next, Slot, Handler, Leave

LEMMA UniqueStep ==
  ASSUME TypeOK, HandlerInv, NamesUnique, [Next]_vars
  PROVE  NamesUnique'
<1> USE NamesAssumption DEF TypeOK, HandlerInv, NamesUnique, Claims,
        MoveSlot, MoveHandler, MoveLeaving, acceptVars, setVars, loginVars
<1>1. ASSUME NEW k \in Slots, CheckClosing(k) PROVE NamesUnique'
  BY <1>1 DEF CheckClosing
<1>2. ASSUME NEW k \in Slots, PostAccept(k) PROVE NamesUnique'
  BY <1>2 DEF PostAccept
<1>3. ASSUME NEW k \in Slots, PostFails(k) PROVE NamesUnique'
  BY <1>3 DEF PostFails
<1>4. ASSUME NEW k \in Slots, AddSession(k) PROVE NamesUnique'
  BY <1>4 DEF AddSession, After
<1>5. ASSUME NEW k \in Slots, OnConnected(k) PROVE NamesUnique'
  BY <1>5 DEF OnConnected, After
<1>6. ASSUME NEW k \in Slots, RegisterRecv(k) PROVE NamesUnique'
  BY <1>6 DEF RegisterRecv, After
<1>7. ASSUME NEW k \in Slots, ClientArrives(k) PROVE NamesUnique'
  BY <1>7 DEF ClientArrives
<1>8. ASSUME NEW k \in Slots, AcceptFails(k) PROVE NamesUnique'
  BY <1>8 DEF AcceptFails
<1>9. ASSUME NEW s \in Sessions, ReceiveLogin(s) PROVE NamesUnique'
  BY <1>9 DEF ReceiveLogin
<1>10. ASSUME NEW s \in Sessions, CheckPlayer(s) PROVE NamesUnique'
  BY <1>10 DEF CheckPlayer, LoggedIn
<1>11. ASSUME NEW s \in Sessions, TryReserveName(s) PROVE NamesUnique'
  BY <1>11 DEF TryReserveName, Invalid, Taken
<1>12. ASSUME NEW s \in Sessions, SetPlayer(s) PROVE NamesUnique'
  BY <1>12 DEF SetPlayer
<1>13. ASSUME NEW s \in Sessions, Reply(s) PROVE NamesUnique'
  BY <1>13 DEF Reply
<1>14. ASSUME NEW s \in Sessions, Disconnect(s) PROVE NamesUnique'
  BY <1>14 DEF Disconnect
<1>15. ASSUME NEW s \in Sessions, Remove(s) PROVE NamesUnique'
  BY <1>15 DEF Remove
<1>16. ASSUME NEW s \in Sessions, ReleaseName(s) PROVE NamesUnique'
  BY <1>16 DEF ReleaseName, Freed
<1>17. ASSUME NEW s \in Sessions, ReleaseSession(s) PROVE NamesUnique'
  BY <1>17 DEF ReleaseSession
<1>18. ASSUME CloseService PROVE NamesUnique'
  BY <1>18 DEF CloseService
<1>19. ASSUME CloseSocket PROVE NamesUnique'
  BY <1>19 DEF CloseSocket
<1>20. CASE UNCHANGED vars
  BY <1>20 DEF vars
<1> QED
  BY <1>1, <1>2, <1>3, <1>4, <1>5, <1>6, <1>7, <1>8, <1>9, <1>10,
     <1>11, <1>12, <1>13, <1>14, <1>15, <1>16, <1>17, <1>18, <1>19, <1>20
  DEF Next, Slot, Handler, Leave

LEMMA HeldStep ==
  ASSUME TypeOK, HandlerInv, OnceInv, NamesUnique, NamesHeld, [Next]_vars
  PROVE  NamesHeld'
<1> USE NamesAssumption DEF TypeOK, HandlerInv, OnceInv, NamesUnique,
        Claims, NamesHeld, MoveSlot, MoveHandler, MoveLeaving, acceptVars,
        setVars, loginVars
<1>1. ASSUME NEW k \in Slots, CheckClosing(k) PROVE NamesHeld'
  BY <1>1 DEF CheckClosing
<1>2. ASSUME NEW k \in Slots, PostAccept(k) PROVE NamesHeld'
  BY <1>2 DEF PostAccept
<1>3. ASSUME NEW k \in Slots, PostFails(k) PROVE NamesHeld'
  BY <1>3 DEF PostFails
<1>4. ASSUME NEW k \in Slots, AddSession(k) PROVE NamesHeld'
  BY <1>4 DEF AddSession, After
<1>5. ASSUME NEW k \in Slots, OnConnected(k) PROVE NamesHeld'
  BY <1>5 DEF OnConnected, After
<1>6. ASSUME NEW k \in Slots, RegisterRecv(k) PROVE NamesHeld'
  BY <1>6 DEF RegisterRecv, After
<1>7. ASSUME NEW k \in Slots, ClientArrives(k) PROVE NamesHeld'
  BY <1>7 DEF ClientArrives
<1>8. ASSUME NEW k \in Slots, AcceptFails(k) PROVE NamesHeld'
  BY <1>8 DEF AcceptFails
<1>9. ASSUME NEW s \in Sessions, ReceiveLogin(s) PROVE NamesHeld'
  BY <1>9 DEF ReceiveLogin
<1>10. ASSUME NEW s \in Sessions, CheckPlayer(s) PROVE NamesHeld'
  BY <1>10 DEF CheckPlayer, LoggedIn
<1>11. ASSUME NEW s \in Sessions, TryReserveName(s) PROVE NamesHeld'
  BY <1>11 DEF TryReserveName, Invalid, Taken
<1>12. ASSUME NEW s \in Sessions, SetPlayer(s) PROVE NamesHeld'
  BY <1>12 DEF SetPlayer
<1>13. ASSUME NEW s \in Sessions, Reply(s) PROVE NamesHeld'
  BY <1>13 DEF Reply
<1>14. ASSUME NEW s \in Sessions, Disconnect(s) PROVE NamesHeld'
  BY <1>14 DEF Disconnect
<1>15. ASSUME NEW s \in Sessions, Remove(s) PROVE NamesHeld'
  BY <1>15 DEF Remove
<1>16. ASSUME NEW s \in Sessions, ReleaseName(s) PROVE NamesHeld'
  BY <1>16 DEF ReleaseName, Freed
<1>17. ASSUME NEW s \in Sessions, ReleaseSession(s) PROVE NamesHeld'
  BY <1>17 DEF ReleaseSession
<1>18. ASSUME CloseService PROVE NamesHeld'
  BY <1>18 DEF CloseService
<1>19. ASSUME CloseSocket PROVE NamesHeld'
  BY <1>19 DEF CloseSocket
<1>20. CASE UNCHANGED vars
  BY <1>20 DEF vars
<1> QED
  BY <1>1, <1>2, <1>3, <1>4, <1>5, <1>6, <1>7, <1>8, <1>9, <1>10,
     <1>11, <1>12, <1>13, <1>14, <1>15, <1>16, <1>17, <1>18, <1>19, <1>20
  DEF Next, Slot, Handler, Leave

-----------------------------------------------------------------------------
LEMMA InitInv == Init => IInv
<1> SUFFICES ASSUME Init PROVE IInv
  OBVIOUS
<1>1. TypeOK
  <2>1. /\ slot \in [Slots -> SlotPlaces]
        /\ accepting \in [Slots -> Sessions \cup {NoSession}]
    BY DEF Init, SlotPlaces
  <2>2. /\ leaving \in [Sessions -> LeavingPlaces]
        /\ handler \in [Sessions -> HandlerPlaces]
    BY DEF Init, LeavingPlaces, HandlerPlaces
  <2>3. /\ asked \in [Sessions -> Names \cup {BadName, NoName}]
        /\ logins \in [Sessions -> 0 .. MaxLogins]
        /\ player \in [Sessions -> Names \cup {NoName}]
    BY MaxLoginsAssumption DEF Init
  <2> QED
    BY <2>1, <2>2, <2>3 DEF Init, TypeOK
<1>2. HandlerInv /\ SlotInv /\ SetsInv /\ OnceInv
  BY DEF Init, HandlerInv, SlotInv, Holds, SetsInv, OnceInv
<1>3. NamesUnique /\ NamesHeld
  BY NamesAssumption DEF Init, NamesUnique, NamesHeld, Claims
<1> QED
  BY <1>1, <1>2, <1>3 DEF IInv

(* The invariant that carries all that follows: what each handler, slot    *)
(* and end of a session may still assume of the others                     *)
(* (ClientPacketHandler.cpp:24-76, Session.cpp:218-239).                   *)
THEOREM Invariance == Spec => []IInv
<1>1. IInv /\ [Next]_vars => IInv'
  BY TypeStep, HandlerStep, SlotStep, SetsStep, OnceStep, UniqueStep, HeldStep DEF IInv
<1> QED
  BY InitInv, <1>1, PTL DEF Spec

(* Types, for any number of slots, sessions, names and logins.             *)
THEOREM TypeCorrect == Spec => []TypeOK
<1>1. IInv => TypeOK
  BY DEF IInv
<1> QED
  BY Invariance, <1>1, PTL

(* No two sessions ever go by one name (GameSessionManager.cpp:19-34).     *)
THEOREM Unique == Spec => []NamesUnique
<1>1. IInv => NamesUnique
  BY DEF IInv
<1> QED
  BY Invariance, <1>1, PTL

(* A name that is taken belongs to somebody, unless its session tried to   *)
(* log in more than once (GameSession.cpp:18-23).                          *)
THEOREM Held == Spec => []NamesHeld
<1>1. IInv => NamesHeld
  BY DEF IInv
<1> QED
  BY Invariance, <1>1, PTL

(* Both sets lose every session that has left, and the assertion of        *)
(* ReleaseSession holds (Service.cpp:60).                                  *)
THEOREM Agreement == Spec => []SetsAgree
<1>1. IInv => SetsAgree
  BY DEF IInv, SetsInv, SetsAgree
<1> QED
  BY Invariance, <1>1, PTL
=============================================================================
