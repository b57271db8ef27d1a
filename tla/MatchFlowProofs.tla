--------------------------- MODULE MatchFlowProofs ---------------------------
(***************************************************************************)
(* Proofs about MatchFlow, for any number of players, matches and commands *)
(* and any size of a match.                                                *)
(*                                                                         *)
(* OneOutcome is not inductive.  How many verdicts a match has given is    *)
(* told by how far Resolve has come (VerdictInv).  That champion select    *)
(* has the consent of everybody needs that only its own players answer a   *)
(* match: their references lead to it (RefInv), so do the answers that     *)
(* wait (AnswerInv), and MatchSize players who accepted are then all of    *)
(* them (ConsentInv).  A match that has not been made is untouched         *)
(* (MadeInv), and only one that failed gives tickets back (GivingInv).     *)
(*                                                                         *)
(* NoTicketForged holds since a ticket is moved and never copied           *)
(* (TicketInv): the tickets of a player in the hands of the manager, the   *)
(* adds in its queue, his places in matches that may give the ticket back  *)
(* and his requests not yet handled are together no more than what he      *)
(* sent.  A place in a sequence is counted, and each action takes from one *)
(* of the four what it adds to another.                                    *)
(***************************************************************************)
EXTENDS MatchFlow, FiniteSetTheorems, TLAPS

MadeInv ==
  \A m \in Matches :
    IF m <= made THEN slots[m] \in [1 .. MatchSize -> Players]
    ELSE outcome[m] = "open" /\ timer[m] = "none" /\ accJobs[m] = <<>>

RefInv == \A p \in Players : acceptRef[p] # NoMatch => InMatch(acceptRef[p], p)

AnswerInv ==
  \A m \in Matches : \A i \in DOMAIN accJobs[m] :
    accJobs[m][i][1] = "accept" => InMatch(m, accJobs[m][i][2])

ConsentInv ==
  \A m \in Matches :
    /\ \A p \in accepted[m] : InMatch(m, p)
    /\ outcome[m] = "go" => Cardinality(accepted[m]) = MatchSize

(* Resolve has been past the i-th player of m with the verdict. *)
Given(m, i) ==
  /\ outcome[m] # "open"
  /\ IF outcome[m] = "go" THEN i + MatchSize <= settled[m] ELSE i <= settled[m]

VerdictInv ==
  \A m \in 1 .. made : \A i \in 1 .. MatchSize :
    IF Given(m, i) THEN verdicts[m][i] = 1 \/ (verdicts[m][i] = 0 /\ Expired(slots[m][i]))
    ELSE verdicts[m][i] = 0

FreshVerdicts ==
  \A m \in Matches : m > made => \A i \in 1 .. MatchSize : verdicts[m][i] = 0

MatchesInv ==
  MadeInv /\ RefInv /\ AnswerInv /\ ConsentInv /\ VerdictInv /\ FreshVerdicts

(* A ticket is being given back only while Resolve(false) walks. *)
GivingInv ==
  \A m \in Matches : giving[m] # "no" => outcome[m] = "failed" /\ settled[m] < MatchSize

IInv == TypeOK /\ MatchesInv /\ GivingInv

-----------------------------------------------------------------------------
LEMMA AppendPlaces ==
  ASSUME NEW S, NEW s \in Seq(S), NEW e \in S
  PROVE  /\ Append(s, e) \in Seq(S) /\ Append(s, e) # <<>>
         /\ DOMAIN Append(s, e) = DOMAIN s \cup {Len(s) + 1}
         /\ \A n \in DOMAIN s : Append(s, e)[n] = s[n]
         /\ Append(s, e)[Len(s) + 1] = e
OBVIOUS

LEMMA TailPlaces ==
  ASSUME NEW S, NEW s \in Seq(S), s # <<>>
  PROVE  /\ Tail(s) \in Seq(S) /\ Head(s) = s[1] /\ Head(s) \in S
         /\ 1 \in DOMAIN s
         /\ \A n \in DOMAIN Tail(s) : n + 1 \in DOMAIN s /\ Tail(s)[n] = s[n + 1]
OBVIOUS

LEMMA AppendTypes ==
  ASSUME NEW S
  PROVE  \A s \in Seq(S), e \in S : Append(s, e) \in Seq(S)
OBVIOUS

LEMMA InitIInv == Init => IInv
<1> SUFFICES ASSUME Init PROVE IInv
  OBVIOUS
<1> USE SizeAssumption, BoundAssumption, NoMatchAssumption
<1>0. MaxMatches \in Nat /\ MaxCancels \in Nat
  OBVIOUS
<1>1. TypeOK
  <2>1. /\ client \in [Players -> ClientState] /\ starts \in [Players -> Nat]
        /\ menu \in [Players -> {"none", "lobby", "found", "toMatching",
                                 "toLobby", "toWaiting"}]
        /\ cancels \in 0 .. MaxCancels
    BY <1>0 DEF Init, ClientState
  <2>2. /\ toServer \in [Players -> Seq(Commands)]
        /\ toClient \in [Players -> Seq(Packets)]
        /\ mgrJobs \in Seq(ManagerJobs)
    BY DEF Init
  <2>3. /\ conn \in [Players -> {"up", "down", "dead"}]
        /\ handler \in [Players -> {"idle", "startFlag", "startReply",
                                    "cancelFlag", "cancelReply"}]
        /\ isQueued \in [Players -> BOOLEAN]
        /\ acceptRef \in [Players -> Matches \cup {NoMatch}]
    BY DEF Init
  <2>4. /\ tickets \in [Players -> Nat]
        /\ matched \subseteq Players /\ made \in 0 .. MaxMatches
    BY <1>0 DEF Init
  <2>10. ticking \in BOOLEAN
    BY Zenon DEF Init
  <2>9. notified \in [Matches -> 0 .. MatchSize]
    BY SizeAssumption DEF Init
  <2>8. slots \in [Matches -> {<<>>} \cup [1 .. MatchSize -> Players]]
    BY Zenon DEF Init
  <2>5. /\ timer \in [Matches -> {"none", "armed", "fired"}]
        /\ accJobs \in [Matches -> Seq(AcceptJobs)]
        /\ accepted \in [Matches -> SUBSET Players]
    BY DEF Init
  <2>6. /\ outcome \in [Matches -> Outcomes]
        /\ settled \in [Matches -> 0 .. 2 * MatchSize]
        /\ giving \in [Matches -> {"no", "flag", "reply"}]
        /\ verdicts \in [Matches -> [1 .. MatchSize -> Nat]]
    BY DEF Init, Outcomes
  <2>7. QED
    BY <2>1, <2>2, <2>3, <2>4, <2>5, <2>6, <2>8, <2>9, <2>10 DEF TypeOK
<1>2. made = 0 /\ \A m \in Matches : m \in Nat /\ m > 0
  BY DEF Init, Matches
<1>3. MadeInv /\ RefInv
  BY <1>2 DEF Init, MadeInv, RefInv
<1>4. AnswerInv /\ ConsentInv
  BY DEF Init, AnswerInv, ConsentInv
<1>5. VerdictInv /\ FreshVerdicts
  BY <1>2 DEF Init, VerdictInv, FreshVerdicts
<1>6. GivingInv
  BY DEF Init, GivingInv
<1>7. QED
  BY <1>1, <1>3, <1>4, <1>5, <1>6 DEF IInv, MatchesInv

-----------------------------------------------------------------------------
LEMMA OccurrencesBound ==
  ASSUME NEW team \in [1 .. MatchSize -> Players], NEW p \in Players
  PROVE  Occurrences(team, p) \in Nat
<1>1. IsFiniteSet(1 .. MatchSize)
  BY SizeAssumption, FS_Interval
<1>2. {i \in DOMAIN team : team[i] = p} \in SUBSET (1 .. MatchSize)
  OBVIOUS
<1>3. QED
  BY <1>1, <1>2, FS_Subset, FS_CardinalityType DEF Occurrences

LEMMA Bounds == MaxMatches \in Nat /\ MaxCancels \in Nat
BY BoundAssumption

LEMMA DeliveredType ==
  ASSUME NEW boxes \in [Players -> Seq(Packets)], NEW p, NEW packet \in Packets
  PROVE  Delivered(boxes, p, packet) \in [Players -> Seq(Packets)]
<1>1. CASE p \in Players
  BY <1>1 DEF Delivered
<1>2. CASE p \notin Players
  <2>1. [boxes EXCEPT ![p] = Append(@, packet)] = boxes
    BY <1>2
  <2>2. QED
    BY <2>1 DEF Delivered
<1>3. QED
  BY <1>1, <1>2

LEMMA OneMoreVerdict ==
  ASSUME verdicts \in [Matches -> [1 .. MatchSize -> Nat]], NEW m \in Matches,
         \/ verdicts' = verdicts
         \/ \E i \in 1 .. MatchSize : verdicts' = [verdicts EXCEPT ![m][i] = @ + 1]
  PROVE  verdicts' \in [Matches -> [1 .. MatchSize -> Nat]]
<1>1. verdicts[m] \in [1 .. MatchSize -> Nat]
  OBVIOUS
<1>2. \A i \in 1 .. MatchSize : [verdicts[m] EXCEPT ![i] = @ + 1] \in [1 .. MatchSize -> Nat]
  BY <1>1
<1>3. verdicts' = verdicts \/ \E i \in 1 .. MatchSize :
        verdicts' = [verdicts EXCEPT ![m] = [verdicts[m] EXCEPT ![i] = @ + 1]]
  OBVIOUS
<1>4. QED
  BY <1>2, <1>3

LEMMA StepTypeOK == TypeOK /\ GivingInv /\ Next => TypeOK'
<1> SUFFICES ASSUME TypeOK, GivingInv, Next PROVE TypeOK'
  OBVIOUS
<1> USE SizeAssumption DEF clientVars, managerVars, acceptVars
<1>a. mgrJobs \in Seq(ManagerJobs)
  BY DEF TypeOK
<1>b. accJobs \in [Matches -> Seq(AcceptJobs)]
  BY DEF TypeOK
<1>c. toClient \in [Players -> Seq(Packets)]
  BY DEF TypeOK
<1>d. verdicts \in [Matches -> [1 .. MatchSize -> Nat]]
  BY DEF TypeOK
<1>e. /\ "found" \in Packets /\ "queued" \in Packets /\ "canceled" \in Packets
      /\ "champSelect" \in Packets
  BY DEF Packets
<1>1. ASSUME NEW p \in Players, OpenMenu(p) PROVE TypeOK'
  BY <1>1 DEF TypeOK, OpenMenu
<1>2. ASSUME NEW p \in Players, ChooseStart(p) PROVE TypeOK'
  <2>1. toServer' \in [Players -> Seq(Commands)]
    BY <1>2 DEF TypeOK, ChooseStart, SendCommand, Commands
  <2>2. starts' \in [Players -> Nat]
    BY <1>2 DEF TypeOK, ChooseStart, SendCommand, Commands
  <2>3. menu' \in [Players -> {"none", "lobby", "found", "toMatching",
                                   "toLobby", "toWaiting"}]
    BY <1>2 DEF TypeOK, ChooseStart, SendCommand, Commands
  <2>4. UNCHANGED <<client, cancels, toClient, conn, handler, isQueued,
                    acceptRef, tickets, mgrJobs, ticking, matched, made,
                    slots, notified, timer, accJobs, accepted, outcome,
                    settled, giving, verdicts>>
    BY <1>2 DEF ChooseStart, SendCommand, Commands
  <2>5. QED
    BY <2>1, <2>2, <2>3, <2>4 DEF TypeOK
<1>3. ASSUME NEW p \in Players, ChooseCancel(p) PROVE TypeOK'
  <2>1. toServer' \in [Players -> Seq(Commands)]
    BY <1>3 DEF TypeOK, ChooseCancel, SendCommand, Commands
  <2>2. cancels' \in 0 .. MaxCancels
    BY <1>3, Bounds DEF TypeOK, ChooseCancel, SendCommand, Commands
  <2>3. menu' \in [Players -> {"none", "lobby", "found", "toMatching",
                                   "toLobby", "toWaiting"}]
    BY <1>3 DEF TypeOK, ChooseCancel, SendCommand, Commands
  <2>4. UNCHANGED <<client, starts, toClient, conn, handler, isQueued,
                    acceptRef, tickets, mgrJobs, ticking, matched, made,
                    slots, notified, timer, accJobs, accepted, outcome,
                    settled, giving, verdicts>>
    BY <1>3 DEF ChooseCancel, SendCommand, Commands
  <2>5. QED
    BY <2>1, <2>2, <2>3, <2>4 DEF TypeOK
<1>4. ASSUME NEW p \in Players, ChooseAnswer(p) PROVE TypeOK'
  BY <1>4 DEF TypeOK, ChooseAnswer, SendCommand, Commands
<1>5. ASSUME NEW p \in Players, LeaveMenu(p) PROVE TypeOK'
  BY <1>5 DEF TypeOK, LeaveMenu, ClientState
<1>6. ASSUME NEW p \in Players, ClientReceive(p) PROVE TypeOK'
  <2>1. client' \in [Players -> ClientState]
    BY <1>6 DEF TypeOK, ClientReceive, Packets, ClientState, ScreenOf
  <2>2. toClient' \in [Players -> Seq(Packets)]
    BY <1>6 DEF TypeOK, ClientReceive, Packets, ClientState
  <2>3. UNCHANGED <<menu, starts, cancels, toServer, conn, handler,
                    isQueued, acceptRef, tickets, mgrJobs, ticking, matched,
                    made, slots, notified, timer, accJobs, accepted,
                    outcome, settled, giving, verdicts>>
    BY <1>6 DEF ClientReceive, Packets, ClientState
  <2>4. QED
    BY <2>1, <2>2, <2>3 DEF TypeOK
<1>7. ASSUME NEW p \in Players, HandleStart(p) PROVE TypeOK'
  BY <1>7, SMTT(40) DEF TypeOK, HandleStart, NextCommand, Post, ManagerJobs
<1>8. ASSUME NEW p \in Players, RefuseStart(p) PROVE TypeOK'
  <2>1. toServer' \in [Players -> Seq(Commands)]
    BY <1>8 DEF TypeOK, RefuseStart, NextCommand
  <2>2. UNCHANGED <<client, menu, starts, cancels, toClient, conn, handler,
                    isQueued, acceptRef, tickets, mgrJobs, ticking, matched,
                    made, slots, notified, timer, accJobs, accepted, outcome,
                    settled, giving, verdicts>>
    BY <1>8 DEF RefuseStart
  <2>3. QED
    BY <2>1, <2>2 DEF TypeOK
<1>9. ASSUME NEW p \in Players, HandleCancel(p) PROVE TypeOK'
  BY <1>9, SMTT(40) DEF TypeOK, HandleCancel, NextCommand, Post, ManagerJobs
<1>10. ASSUME NEW p \in Players, HandleAnswer(p) PROVE TypeOK'
  <2>1. toServer' \in [Players -> Seq(Commands)]
    BY <1>10 DEF TypeOK, HandleAnswer, NextCommand
  <2>2. accJobs' \in [Matches -> Seq(AcceptJobs)]
    <3>1. PICK c \in {"accept", "decline"} :
            accJobs' = accJobs \/
              (acceptRef[p] # NoMatch /\
               accJobs' = [accJobs EXCEPT ![acceptRef[p]] = Append(@, <<c, p>>)])
      BY <1>10 DEF HandleAnswer, NextCommand, Lockable
    <3>2. <<c, p>> \in AcceptJobs
      BY <1>10 DEF AcceptJobs
    <3>3. acceptRef[p] # NoMatch => acceptRef[p] \in Matches
      BY <1>10 DEF TypeOK
    <3>4. CASE accJobs' = accJobs
      BY <1>b, <3>4
    <3>5. CASE accJobs' # accJobs
      <4>1. Append(accJobs[acceptRef[p]], <<c, p>>) \in Seq(AcceptJobs)
        BY <1>b, <3>1, <3>2, <3>3, <3>5, AppendTypes
      <4>2. QED
        BY <1>b, <3>1, <3>5, <4>1
    <3>6. QED
      BY <3>4, <3>5
  <2>3. UNCHANGED <<client, menu, starts, cancels, toClient, conn, handler,
                    isQueued, acceptRef, tickets, mgrJobs, ticking, matched,
                    made, slots, notified, timer, accepted, outcome,
                    settled, giving, verdicts>>
    BY <1>10 DEF HandleAnswer, NextCommand
  <2>4. QED
    BY <2>1, <2>2, <2>3 DEF TypeOK
<1>11. ASSUME NEW p \in Players, HandlerFlag(p) PROVE TypeOK'
  BY <1>11 DEF TypeOK, HandlerFlag
<1>12. ASSUME NEW p \in Players, HandlerReply(p) PROVE TypeOK'
  <2>1. toClient' \in [Players -> Seq(Packets)]
    BY <1>c, <1>e, <1>12, DeliveredType DEF HandlerReply, Send
  <2>2. handler' \in [Players -> {"idle", "startFlag", "startReply",
                                  "cancelFlag", "cancelReply"}]
    BY <1>12 DEF TypeOK, HandlerReply, Send
  <2>3. UNCHANGED <<client, menu, starts, cancels, toServer, conn, isQueued,
                    acceptRef, tickets, mgrJobs, ticking, matched, made, slots,
                    notified, timer, accJobs, accepted, outcome, settled,
                    giving, verdicts>>
    BY <1>12 DEF HandlerReply, Send
  <2>4. QED
    BY <2>1, <2>2, <2>3 DEF TypeOK
<1>13. ASSUME NEW p \in Players, OnDisconnected(p) PROVE TypeOK'
  <2>1. conn' \in [Players -> {"up", "down", "dead"}]
    BY <1>13 DEF TypeOK, OnDisconnected, Post
  <2>2. mgrJobs' \in Seq(ManagerJobs)
    <3>1. <<"remove", p>> \in ManagerJobs
      BY <1>13 DEF ManagerJobs
    <3>2. mgrJobs' = mgrJobs \/ mgrJobs' = Append(mgrJobs, <<"remove", p>>)
      BY <1>13 DEF OnDisconnected, Post
    <3>3. QED
      BY <1>a, <3>1, <3>2, AppendTypes
  <2>3. UNCHANGED <<client, menu, starts, cancels, toServer, handler, isQueued, acceptRef, tickets, ticking, matched,
                    made, slots, notified, timer, accJobs, accepted,
                    outcome, settled, giving, verdicts>>
    BY <1>13 DEF OnDisconnected, Post
  <2>4. toClient' \in [Players -> Seq(Packets)]
    <3>1. toClient' = [toClient EXCEPT ![p] = <<>>]
      BY <1>13 DEF OnDisconnected
    <3>2. <<>> \in Seq(Packets)
      OBVIOUS
    <3>3. QED
      BY <1>c, <3>1, <3>2
  <2>5. QED
    BY <2>1, <2>2, <2>3, <2>4 DEF TypeOK
<1>14. ASSUME NEW p \in Players, SessionDestroyed(p) PROVE TypeOK'
  BY <1>14 DEF TypeOK, SessionDestroyed
<1>15. ASSUME ManagerJob PROVE TypeOK'
  <2>1. tickets' \in [Players -> Nat]
    <3>1. \A n \in Nat : IF n > 0 THEN n - 1 \in Nat ELSE 0 \in Nat
      OBVIOUS
    <3>2. \A p \in Players : WithoutOne(p) \in Nat
      BY <3>1 DEF WithoutOne, TypeOK
    <3>3. Head(mgrJobs) \in ManagerJobs
      BY <1>15 DEF TypeOK, ManagerJob
    <3>4. Head(mgrJobs)[2] \in Players
      BY <3>3 DEF ManagerJobs
    <3>5. tickets' = [tickets EXCEPT ![Head(mgrJobs)[2]] =
            IF Head(mgrJobs)[1] = "add" THEN @ + 1 ELSE WithoutOne(Head(mgrJobs)[2])]
      BY <1>15 DEF ManagerJob
    <3>6. QED
      BY <3>2, <3>4, <3>5 DEF TypeOK
  <2>2. mgrJobs' \in Seq(ManagerJobs)
    BY <1>15 DEF TypeOK, ManagerJob
  <2>3. UNCHANGED <<client, menu, starts, cancels, toServer, toClient, conn,
                    handler, isQueued, acceptRef, ticking, matched, made,
                    slots, notified, timer, accJobs, accepted, outcome,
                    settled, giving, verdicts>>
    BY <1>15 DEF ManagerJob
  <2>4. QED
    BY <2>1, <2>2, <2>3 DEF TypeOK
<1>16. ASSUME TickBegin PROVE TypeOK'
  <2>1. ticking' \in BOOLEAN
    BY <1>16 DEF TypeOK, TickBegin
  <2>2. tickets' \in [Players -> Nat]
    BY <1>16 DEF TypeOK, TickBegin, AfterPurge
  <2>3. UNCHANGED <<client, menu, starts, cancels, toServer, toClient, conn,
                    handler, isQueued, acceptRef, mgrJobs, matched, made,
                    slots, notified, timer, accJobs, accepted, outcome,
                    settled, giving, verdicts>>
    BY <1>16 DEF TickBegin
  <2>4. QED
    BY <2>1, <2>2, <2>3 DEF TypeOK
<1>17. ASSUME NEW p \in Players, Purge(p) PROVE TypeOK'
  BY <1>17 DEF TypeOK, Purge
<1>18. ASSUME FormMatch PROVE TypeOK'
  <2>1. slots' \in [Matches -> {<<>>} \cup [1 .. MatchSize -> Players]]
    BY <1>18 DEF TypeOK, FormMatch
  <2>2. tickets' \in [Players -> Nat]
    <3>1. PICK team \in [1 .. MatchSize -> Players] :
            /\ \A p \in Players : Occurrences(team, p) <= tickets[p]
            /\ tickets' = [p \in Players |-> AfterMatch(team, p)]
      BY <1>18 DEF FormMatch
    <3>2. \A p \in Players : AfterMatch(team, p) \in Nat
      <4>1. \A a, b \in Nat : b <= a => a - b \in Nat
        OBVIOUS
      <4>2. QED
        BY <3>1, <4>1, OccurrencesBound DEF AfterMatch, TypeOK
    <3>3. QED
      BY <3>1, <3>2
  <2>3. matched' \in SUBSET Players
    BY <1>18 DEF TypeOK, FormMatch
  <2>4. isQueued' \in [Players -> BOOLEAN]
    BY <1>18 DEF TypeOK, FormMatch
  <2>5. made' \in 0 .. MaxMatches
    BY <1>18, Bounds DEF TypeOK, FormMatch
  <2>6. UNCHANGED <<client, menu, starts, cancels, toServer, toClient, conn,
                    handler, acceptRef, mgrJobs, ticking, notified, timer,
                    accJobs, accepted, outcome, settled, giving, verdicts>>
    BY <1>18 DEF FormMatch
  <2>7. QED
    BY <2>1, <2>2, <2>3, <2>4, <2>5, <2>6 DEF TypeOK
<1>19. ASSUME TickEnd PROVE TypeOK'
  BY <1>19 DEF TypeOK, TickEnd
<1>20. ASSUME NEW m \in Matches, StartNotify(m) PROVE TypeOK'
  <2>1. notified' \in [Matches -> 0 .. MatchSize]
    BY <1>20 DEF TypeOK, StartNotify, Send
  <2>2. acceptRef' \in [Players -> Matches \cup {NoMatch}]
    BY <1>20 DEF TypeOK, StartNotify, Send
  <2>3. toClient' \in [Players -> Seq(Packets)]
    <3>1. toClient' = toClient
            \/ \E p \in {slots[m][notified[m] + 1]} : toClient' = Delivered(toClient, p, "found")
      BY <1>20, Zenon DEF StartNotify, Send
    <3>2. QED
      BY <1>c, <1>e, <3>1, DeliveredType
  <2>4. UNCHANGED <<client, menu, starts, cancels, toServer, conn, handler,
                    isQueued, tickets, mgrJobs, ticking, matched, made,
                    slots, timer, accJobs, accepted, outcome, settled,
                    giving, verdicts>>
    BY <1>20 DEF StartNotify, Send
  <2>5. QED
    BY <2>1, <2>2, <2>3, <2>4 DEF TypeOK
<1>21. ASSUME NEW m \in Matches, StartTimer(m) PROVE TypeOK'
  BY <1>21 DEF TypeOK, StartTimer
<1>22. ASSUME NEW m \in Matches, TimerFires(m) PROVE TypeOK'
  <2>1. <<"timeout", NoPlayer>> \in AcceptJobs
    BY DEF AcceptJobs
  <2>2. QED
    BY <1>22, <2>1 DEF TypeOK, TimerFires
<1>23. ASSUME NEW m \in Matches, AcceptJob(m) PROVE TypeOK'
  <2>1. accJobs' \in [Matches -> Seq(AcceptJobs)]
    BY <1>23 DEF TypeOK, AcceptJob
  <2>2. accepted' \in [Matches -> SUBSET Players]
    <3>1. Head(accJobs[m]) \in AcceptJobs
      BY <1>23 DEF TypeOK, AcceptJob
    <3>2. Head(accJobs[m])[1] = "accept" => Head(accJobs[m])[2] \in Players
      BY <3>1 DEF AcceptJobs
    <3>3. accepted' = accepted
            \/ \E p \in Players : accepted' = [accepted EXCEPT ![m] = @ \cup {p}]
      BY <1>23, <3>2, Zenon DEF AcceptJob
    <3>4. \A p \in Players : accepted[m] \cup {p} \in SUBSET Players
      BY DEF TypeOK
    <3>5. QED
      BY <3>3, <3>4, ZenonT(40) DEF TypeOK
  <2>3. outcome' \in [Matches -> Outcomes]
    <3>1. outcome' = outcome \/ \E v \in Outcomes : outcome' = [outcome EXCEPT ![m] = v]
      BY <1>23 DEF AcceptJob, Resolve, Outcomes
    <3>2. QED
      BY <3>1 DEF TypeOK
  <2>4. settled' \in [Matches -> 0 .. 2 * MatchSize]
    <3>1. settled' = settled \/ settled' = [settled EXCEPT ![m] = 0]
      BY <1>23 DEF AcceptJob, Resolve
    <3>2. 0 \in 0 .. 2 * MatchSize
      OBVIOUS
    <3>3. QED
      BY <3>1, <3>2 DEF TypeOK
  <2>5. UNCHANGED <<client, menu, starts, cancels, toServer, toClient, conn,
                    handler, isQueued, acceptRef, tickets, mgrJobs, ticking,
                    matched, made, slots, notified, timer, giving, verdicts>>
    BY <1>23 DEF AcceptJob
  <2>6. QED
    BY <2>1, <2>2, <2>3, <2>4, <2>5 DEF TypeOK
<1>24. ASSUME NEW m \in Matches, Disband(m) PROVE TypeOK'
  <2>1. settled[m] + 1 \in 1 .. MatchSize
    BY <1>24 DEF TypeOK, Disband, Resolving, ResolveSteps
  <2>2. settled' \in [Matches -> 0 .. 2 * MatchSize]
    BY <1>24, <2>1 DEF TypeOK, Disband
  <2>3. acceptRef' \in [Players -> Matches \cup {NoMatch}]
    BY <1>24 DEF TypeOK, Disband
  <2>4. toClient' \in [Players -> Seq(Packets)]
    <3>1. toClient' = toClient
            \/ toClient' = Delivered(toClient, slots[m][settled[m] + 1], "canceled")
      BY <1>24, Zenon DEF Disband, Send, Verdict
    <3>2. QED
      BY <1>c, <1>e, <3>1, DeliveredType
  <2>5. verdicts' \in [Matches -> [1 .. MatchSize -> Nat]]
    <3>1. verdicts' = verdicts \/ verdicts' = [verdicts EXCEPT ![m][settled[m] + 1] = @ + 1]
      BY <1>24, Zenon DEF Disband, Verdict
    <3>2. verdicts' = verdicts
            \/ \E i \in 1 .. MatchSize : verdicts' = [verdicts EXCEPT ![m][i] = @ + 1]
      BY <2>1, <3>1, Zenon
    <3>3. QED
      BY <1>d, <3>2, OneMoreVerdict
  <2>6. UNCHANGED <<client, menu, starts, cancels, toServer, conn, handler,
                    isQueued, tickets, mgrJobs, ticking, matched, made, slots,
                    notified, timer, accJobs, accepted, outcome, giving>>
    BY <1>24 DEF Disband
  <2>7. QED
    BY <2>2, <2>3, <2>4, <2>5, <2>6 DEF TypeOK
<1>25. ASSUME NEW m \in Matches, GiveBack(m) PROVE TypeOK'
  <2>1. acceptRef' \in [Players -> Matches \cup {NoMatch}]
    BY <1>25 DEF TypeOK, GiveBack
  <2>2. mgrJobs' \in Seq(ManagerJobs)
    <3>1. \E p \in accepted[m] : mgrJobs' = Append(mgrJobs, <<"add", p>>)
      BY <1>25, Zenon DEF GiveBack, Post
    <3>2. \A p \in accepted[m] : <<"add", p>> \in ManagerJobs
      BY <1>25 DEF TypeOK, ManagerJobs
    <3>3. QED
      BY <1>a, <3>1, <3>2, AppendTypes
  <2>3. giving' \in [Matches -> {"no", "flag", "reply"}]
    BY <1>25 DEF TypeOK, GiveBack
  <2>4. UNCHANGED <<client, menu, starts, cancels, toServer, toClient, conn,
                    handler, isQueued, tickets, ticking, matched, made, slots,
                    notified, timer, accJobs, accepted, outcome, settled,
                    verdicts>>
    BY <1>25 DEF GiveBack
  <2>5. QED
    BY <2>1, <2>2, <2>3, <2>4 DEF TypeOK
<1>26. ASSUME NEW m \in Matches, GiveBackFlag(m) PROVE TypeOK'
  <2>1. isQueued' \in [Players -> BOOLEAN]
    BY <1>26 DEF TypeOK, GiveBackFlag
  <2>2. giving' \in [Matches -> {"no", "flag", "reply"}]
    BY <1>26 DEF TypeOK, GiveBackFlag
  <2>3. UNCHANGED <<client, menu, starts, cancels, toServer, toClient, conn,
                    handler, acceptRef, tickets, mgrJobs, ticking, matched,
                    made, slots, notified, timer, accJobs, accepted, outcome,
                    settled, verdicts>>
    BY <1>26 DEF GiveBackFlag
  <2>4. QED
    BY <2>1, <2>2, <2>3 DEF TypeOK
<1>27. ASSUME NEW m \in Matches, GiveBackReply(m) PROVE TypeOK'
  <2>1. settled[m] + 1 \in 1 .. MatchSize
    <3>1. giving[m] # "no"
      BY <1>27 DEF GiveBackReply
    <3>2. settled[m] < MatchSize
      BY <3>1 DEF GivingInv
    <3>3. settled[m] \in 0 .. 2 * MatchSize
      BY DEF TypeOK
    <3>4. QED
      BY <3>2, <3>3
  <2>2. settled' \in [Matches -> 0 .. 2 * MatchSize]
    BY <1>27, <2>1 DEF TypeOK, GiveBackReply
  <2>3. toClient' \in [Players -> Seq(Packets)]
    <3>1. toClient' = Delivered(toClient, slots[m][settled[m] + 1], "queued")
      BY <1>27, Zenon DEF GiveBackReply, Send, Verdict
    <3>2. QED
      BY <1>c, <1>e, <3>1, DeliveredType
  <2>4. verdicts' \in [Matches -> [1 .. MatchSize -> Nat]]
    <3>1. verdicts' = [verdicts EXCEPT ![m][settled[m] + 1] = @ + 1]
      BY <1>27 DEF GiveBackReply, Verdict
    <3>2. \E i \in 1 .. MatchSize : verdicts' = [verdicts EXCEPT ![m][i] = @ + 1]
      BY <2>1, <3>1, Zenon
    <3>3. QED
      BY <1>d, <3>2, OneMoreVerdict
  <2>5. giving' \in [Matches -> {"no", "flag", "reply"}]
    BY <1>27 DEF TypeOK, GiveBackReply
  <2>6. UNCHANGED <<client, menu, starts, cancels, toServer, conn, handler,
                    isQueued, acceptRef, tickets, mgrJobs, ticking, matched,
                    made, slots, notified, timer, accJobs, accepted, outcome>>
    BY <1>27 DEF GiveBackReply
  <2>7. QED
    BY <2>2, <2>3, <2>4, <2>5, <2>6 DEF TypeOK
<1>28. ASSUME NEW m \in Matches, ReleaseRef(m) PROVE TypeOK'
  <2>1. settled' \in [Matches -> 0 .. 2 * MatchSize]
    BY <1>28 DEF TypeOK, ReleaseRef
  <2>2. acceptRef' \in [Players -> Matches \cup {NoMatch}]
    BY <1>28 DEF TypeOK, ReleaseRef
  <2>3. UNCHANGED <<client, menu, starts, cancels, toServer, toClient, conn,
                    handler, isQueued, tickets, mgrJobs, ticking, matched,
                    made, slots, notified, timer, accJobs, accepted,
                    outcome, giving, verdicts>>
    BY <1>28 DEF ReleaseRef
  <2>4. QED
    BY <2>1, <2>2, <2>3 DEF TypeOK
<1>29. ASSUME NEW m \in Matches, EnterChampSelect(m) PROVE TypeOK'
  <2>1. settled' \in [Matches -> 0 .. 2 * MatchSize]
    <3>1. settled[m] + 1 \in 0 .. 2 * MatchSize
      BY <1>29 DEF TypeOK, EnterChampSelect, Send, Resolving, ResolveSteps
    <3>2. QED
      BY <1>29, <3>1 DEF TypeOK, EnterChampSelect, Send
  <2>2. toClient' \in [Players -> Seq(Packets)]
    <3>1. toClient' = toClient
            \/ \E i \in {settled[m] - MatchSize + 1} :
                 toClient' = Delivered(toClient, slots[m][i], "champSelect")
      BY <1>29, Zenon DEF EnterChampSelect, Send, Verdict
    <3>2. QED
      BY <1>c, <1>e, <3>1, DeliveredType
  <2>3. verdicts' \in [Matches -> [1 .. MatchSize -> Nat]]
    <3>1. verdicts' = verdicts
            \/ \E i \in {settled[m] - MatchSize + 1} : verdicts' = [verdicts EXCEPT ![m][i] = @ + 1]
      BY <1>29, Zenon DEF EnterChampSelect, Send, Verdict
    <3>2. settled[m] - MatchSize + 1 \in 1 .. MatchSize
      BY <1>29 DEF TypeOK, EnterChampSelect, Resolving, ResolveSteps
    <3>3. verdicts' = verdicts
            \/ \E i \in 1 .. MatchSize : verdicts' = [verdicts EXCEPT ![m][i] = @ + 1]
      BY <3>1, <3>2, Zenon
    <3>4. QED
      BY <1>d, <3>3, OneMoreVerdict
  <2>4. UNCHANGED <<client, menu, starts, cancels, toServer, conn, handler,
                    isQueued, acceptRef, tickets, mgrJobs, ticking, matched,
                    made, slots, notified, timer, accJobs, accepted,
                    outcome, giving>>
    BY <1>29 DEF EnterChampSelect, Send
  <2>5. QED
    BY <2>1, <2>2, <2>3, <2>4 DEF TypeOK
<1>30. QED
  BY <1>1, <1>2, <1>3, <1>4, <1>5, <1>6, <1>7, <1>8, <1>9, <1>10, <1>11,
     <1>12, <1>13, <1>14, <1>15, <1>16, <1>17, <1>18, <1>19, <1>20, <1>21,
     <1>22, <1>23, <1>24, <1>25, <1>26, <1>27, <1>28, <1>29
     DEF Next, User, Handler, Manager, Start, Session

-----------------------------------------------------------------------------
(* Most steps leave the matches alone; a session never comes back. *)
matchVars ==
  <<acceptRef, made, slots, timer, accJobs, accepted, outcome, settled, verdicts>>

LEMMA QuietSteps ==
  ASSUME TypeOK, NEW p \in Players,
         \/ User(p) \/ ClientReceive(p) \/ HandleStart(p) \/ RefuseStart(p)
         \/ HandleCancel(p) \/ HandlerFlag(p) \/ HandlerReply(p) \/ OnDisconnected(p)
         \/ SessionDestroyed(p) \/ Purge(p)
  PROVE  UNCHANGED matchVars /\ \A q \in Players : Expired(q) => Expired(q)'
<1> USE DEF matchVars, managerVars, acceptVars, Expired
<1>1. CASE User(p)
  BY <1>1 DEF User, OpenMenu, ChooseStart, ChooseCancel, ChooseAnswer, LeaveMenu
<1>2. CASE ClientReceive(p) \/ HandlerFlag(p) \/ HandlerReply(p) \/ Purge(p)
  BY <1>2 DEF ClientReceive, HandlerFlag, HandlerReply, Purge
<1>3. CASE HandleStart(p) \/ RefuseStart(p) \/ HandleCancel(p)
  BY <1>3 DEF HandleStart, RefuseStart, HandleCancel
<1>4. CASE OnDisconnected(p) \/ SessionDestroyed(p)
  <2>1. UNCHANGED matchVars
    BY <1>4 DEF OnDisconnected, SessionDestroyed
  <2>2. \E d \in {"down", "dead"} : conn[p] # "dead" /\ conn' = [conn EXCEPT ![p] = d]
    BY <1>4 DEF OnDisconnected, SessionDestroyed
  <2>3. QED
    BY <2>1, <2>2 DEF TypeOK
<1>5. QED
  BY <1>1, <1>2, <1>3, <1>4

LEMMA QuietManager ==
  ASSUME ManagerJob \/ TickBegin \/ TickEnd
  PROVE  UNCHANGED matchVars /\ \A q \in Players : Expired(q) => Expired(q)'
BY DEF matchVars, acceptVars, Expired, ManagerJob, TickBegin, TickEnd

LEMMA SlotPlayers ==
  ASSUME TypeOK, MadeInv, NEW m \in 1 .. made
  PROVE  m \in Matches /\ slots[m] \in [1 .. MatchSize -> Players]
<1>1. m \in Matches /\ m <= made
  BY Bounds DEF Matches, TypeOK
<1>2. QED
  BY <1>1 DEF MadeInv

LEMMA QuietKeeps ==
  ASSUME TypeOK, MadeInv /\ RefInv /\ AnswerInv /\ ConsentInv /\ VerdictInv /\ FreshVerdicts,
         UNCHANGED matchVars, \A q \in Players : Expired(q) => Expired(q)'
  PROVE  (MadeInv /\ RefInv /\ AnswerInv /\ ConsentInv /\ VerdictInv /\ FreshVerdicts)'
<1> USE DEF matchVars
<1>1. MadeInv' /\ FreshVerdicts'
  BY DEF MadeInv, FreshVerdicts
<1>2. \A m, p : InMatch(m, p)' <=> InMatch(m, p)
  BY DEF InMatch
<1>3. RefInv' /\ AnswerInv'
  BY <1>2 DEF RefInv, AnswerInv
<1>4. ConsentInv'
  BY <1>2 DEF ConsentInv
<1>5. \A m, i : Given(m, i)' <=> Given(m, i)
  BY DEF Given
<1>6. \A m \in 1 .. made : \A i \in 1 .. MatchSize : slots[m][i] \in Players
  BY SlotPlayers
<1>7. VerdictInv'
  BY <1>5, <1>6 DEF VerdictInv
<1>8. QED
  BY <1>1, <1>3, <1>4, <1>7

-----------------------------------------------------------------------------
(* The steps that concern a match, one by one. *)

LEMMA HandleAnswerKeeps ==
  ASSUME TypeOK, MatchesInv, NEW p \in Players, HandleAnswer(p)
  PROVE  MatchesInv'
<1> DEFINE r == acceptRef[p]
<1>1. UNCHANGED <<acceptRef, made, slots, timer, accepted, outcome, settled, verdicts, conn>>
  BY DEF HandleAnswer, managerVars, acceptVars
<1>2. PICK c \in {"accept", "decline"} :
        IF Lockable(r) THEN accJobs' = [accJobs EXCEPT ![r] = Append(@, <<c, p>>)]
        ELSE accJobs' = accJobs
  BY DEF HandleAnswer
<1>3. CASE ~Lockable(r)
  <2>1. UNCHANGED matchVars /\ \A q \in Players : Expired(q) => Expired(q)'
    BY <1>1, <1>2, <1>3 DEF matchVars, Expired
  <2>2. QED
    BY <2>1, QuietKeeps DEF MatchesInv
<1>4. CASE Lockable(r)
  <2>1. r \in Matches /\ InMatch(r, p)
    BY <1>4 DEF Lockable, TypeOK, MatchesInv, RefInv
  <2>2. r <= made /\ accJobs[r] \in Seq(AcceptJobs)
    BY <2>1 DEF InMatch, TypeOK
  <2>3. \A m \in Matches : m # r => accJobs'[m] = accJobs[m]
    BY <1>2, <1>4, <2>1 DEF TypeOK
  <2>4. accJobs'[r] = Append(accJobs[r], <<c, p>>)
    BY <1>2, <1>4, <2>1 DEF TypeOK
  <2>5. \A m, q : InMatch(m, q)' <=> InMatch(m, q)
    BY <1>1 DEF InMatch
  <2>6. MadeInv' /\ FreshVerdicts' /\ RefInv' /\ ConsentInv'
    BY <1>1, <2>2, <2>3, <2>5 DEF MatchesInv, MadeInv, FreshVerdicts, RefInv, ConsentInv
  <2>7. <<c, p>> \in AcceptJobs
    BY DEF AcceptJobs
  <2>8. \A i \in DOMAIN accJobs'[r] :
          \/ i \in DOMAIN accJobs[r] /\ accJobs'[r][i] = accJobs[r][i]
          \/ accJobs'[r][i] = <<c, p>>
    BY <2>2, <2>4, <2>7, AppendPlaces
  <2>9. AnswerInv'
    BY <2>1, <2>3, <2>5, <2>8 DEF AnswerInv, MatchesInv
  <2>10. VerdictInv'
    BY <1>1 DEF VerdictInv, MatchesInv, Given, Expired
  <2>11. QED
    BY <2>6, <2>9, <2>10 DEF MatchesInv
<1>5. QED
  BY <1>3, <1>4

LEMMA FormMatchKeeps ==
  ASSUME TypeOK, MatchesInv, FormMatch
  PROVE  MatchesInv'
<1>1. PICK team \in [1 .. MatchSize -> Players] : slots' = [slots EXCEPT ![made + 1] = team]
  BY DEF FormMatch
<1>2. /\ made' = made + 1
      /\ UNCHANGED <<acceptRef, timer, accJobs, accepted, outcome, settled, verdicts, conn>>
  BY DEF FormMatch, acceptVars
<1>3. made \in Nat /\ made + 1 \in Matches
  BY Bounds DEF FormMatch, TypeOK, Matches
<1>4. /\ slots'[made + 1] = team
      /\ \A m \in Matches : m # made + 1 => slots'[m] = slots[m]
  BY <1>1, <1>3 DEF TypeOK
<1>5. \A m \in Matches : m \in Nat /\ m > 0
  BY DEF Matches
<1>6. \A m \in Matches : \A q : InMatch(m, q) => InMatch(m, q)'
  BY <1>2, <1>3, <1>4, <1>5 DEF InMatch
<1>7. MadeInv' /\ FreshVerdicts'
  BY <1>2, <1>3, <1>4, <1>5 DEF MatchesInv, MadeInv, FreshVerdicts
<1>8. RefInv'
  BY <1>2, <1>6 DEF MatchesInv, RefInv, TypeOK
<1>9. AnswerInv' /\ ConsentInv'
  BY <1>2, <1>6 DEF MatchesInv, AnswerInv, ConsentInv
<1>10. ASSUME NEW m \in 1 .. made', NEW i \in 1 .. MatchSize
       PROVE  (IF Given(m, i)
               THEN verdicts[m][i] = 1 \/ (verdicts[m][i] = 0 /\ Expired(slots[m][i]))
               ELSE verdicts[m][i] = 0)'
  <2>1. CASE m = made + 1
    BY <1>2, <1>3, <2>1 DEF MatchesInv, MadeInv, FreshVerdicts, Given
  <2>2. CASE m # made + 1
    <3>1. m \in 1 .. made /\ m \in Matches
      BY <1>2, <1>3, <2>2, Bounds DEF Matches
    <3>2. QED
      BY <1>2, <1>4, <2>2, <3>1 DEF MatchesInv, VerdictInv, Given, Expired
  <2>3. QED
    BY <2>1, <2>2
<1>11. VerdictInv'
  BY <1>10 DEF VerdictInv
<1>12. QED
  BY <1>7, <1>8, <1>9, <1>11 DEF MatchesInv

LEMMA StartNotifyKeeps ==
  ASSUME TypeOK, MatchesInv, NEW m \in Matches, StartNotify(m)
  PROVE  MatchesInv'
<1>1. UNCHANGED <<made, slots, timer, accJobs, accepted, outcome, settled, verdicts, conn>>
  BY DEF StartNotify, managerVars
<1>2. acceptRef' = acceptRef \/
        acceptRef' = [acceptRef EXCEPT ![slots[m][notified[m] + 1]] = m]
  BY DEF StartNotify
<1>3. m <= made /\ notified[m] + 1 \in 1 .. MatchSize
  BY SizeAssumption DEF StartNotify, Starting, TypeOK
<1>4. InMatch(m, slots[m][notified[m] + 1])
  BY <1>3 DEF InMatch
<1>5. \A k, q : InMatch(k, q)' <=> InMatch(k, q)
  BY <1>1 DEF InMatch
<1>6. RefInv'
  BY <1>2, <1>4, <1>5 DEF MatchesInv, RefInv, TypeOK
<1>7. MadeInv' /\ FreshVerdicts' /\ ConsentInv' /\ AnswerInv'
  BY <1>1, <1>5 DEF MatchesInv, MadeInv, FreshVerdicts, ConsentInv, AnswerInv
<1>8. VerdictInv'
  BY <1>1 DEF VerdictInv, MatchesInv, Given, Expired
<1>9. QED
  BY <1>6, <1>7, <1>8 DEF MatchesInv

LEMMA StartTimerKeeps ==
  ASSUME TypeOK, MatchesInv, NEW m \in Matches, StartTimer(m)
  PROVE  MatchesInv'
<1>1. /\ UNCHANGED <<acceptRef, made, slots, accJobs, accepted, outcome, settled, verdicts, conn>>
      /\ timer' = [timer EXCEPT ![m] = "armed"]
  BY DEF StartTimer, managerVars
<1>2. m <= made
  BY DEF StartTimer, Starting
<1>3. \A k, q : InMatch(k, q)' <=> InMatch(k, q)
  BY <1>1 DEF InMatch
<1>4. MadeInv' /\ FreshVerdicts'
  BY <1>1, <1>2 DEF MatchesInv, MadeInv, FreshVerdicts, TypeOK
<1>5. RefInv' /\ ConsentInv' /\ AnswerInv'
  BY <1>1, <1>3 DEF MatchesInv, RefInv, ConsentInv, AnswerInv
<1>6. VerdictInv'
  BY <1>1 DEF VerdictInv, MatchesInv, Given, Expired
<1>7. QED
  BY <1>4, <1>5, <1>6 DEF MatchesInv

LEMMA TimerFiresKeeps ==
  ASSUME TypeOK, MatchesInv, NEW m \in Matches, TimerFires(m)
  PROVE  MatchesInv'
<1>1. /\ UNCHANGED <<acceptRef, made, slots, accepted, outcome, settled, verdicts, conn>>
      /\ timer' = [timer EXCEPT ![m] = "fired"]
  BY DEF TimerFires, managerVars
<1>2. m <= made
  BY DEF TimerFires, MatchesInv, MadeInv
<1>3. /\ accJobs[m] \in Seq(AcceptJobs)
      /\ accJobs'[m] = Append(accJobs[m], <<"timeout", NoPlayer>>)
      /\ \A k \in Matches : k # m => accJobs'[k] = accJobs[k]
  BY DEF TimerFires, TypeOK
<1>4. \A k, q : InMatch(k, q)' <=> InMatch(k, q)
  BY <1>1 DEF InMatch
<1>5. MadeInv' /\ FreshVerdicts'
  BY <1>1, <1>2, <1>3 DEF MatchesInv, MadeInv, FreshVerdicts, TypeOK
<1>6. RefInv' /\ ConsentInv'
  BY <1>1, <1>4 DEF MatchesInv, RefInv, ConsentInv
<1>7. <<"timeout", NoPlayer>> \in AcceptJobs
  BY DEF AcceptJobs
<1>8. \A i \in DOMAIN accJobs'[m] :
        \/ i \in DOMAIN accJobs[m] /\ accJobs'[m][i] = accJobs[m][i]
        \/ accJobs'[m][i] = <<"timeout", NoPlayer>>
  BY <1>3, <1>7, AppendPlaces
<1>9. AnswerInv'
  BY <1>3, <1>4, <1>8 DEF AnswerInv, MatchesInv
<1>10. VerdictInv'
  BY <1>1 DEF VerdictInv, MatchesInv, Given, Expired
<1>11. QED
  BY <1>5, <1>6, <1>9, <1>10 DEF MatchesInv

LEMMA AcceptJobKeeps ==
  ASSUME TypeOK, MatchesInv, NEW m \in Matches, AcceptJob(m)
  PROVE  MatchesInv'
<1> DEFINE job == Head(accJobs[m])
<1>1. /\ UNCHANGED <<acceptRef, made, slots, timer, verdicts, conn>>
      /\ accJobs[m] # <<>>
      /\ accJobs' = [accJobs EXCEPT ![m] = Tail(@)]
  BY DEF AcceptJob, managerVars
<1>2. \/ UNCHANGED <<accepted, outcome, settled>>
      \/ /\ outcome[m] = "open" /\ job[1] = "accept"
         /\ accepted' = [accepted EXCEPT ![m] = @ \cup {job[2]}]
         /\ \/ UNCHANGED <<outcome, settled>>
            \/ /\ Cardinality(accepted[m] \cup {job[2]}) = MatchSize
               /\ outcome' = [outcome EXCEPT ![m] = "go"]
               /\ settled' = [settled EXCEPT ![m] = 0]
      \/ /\ outcome[m] = "open"
         /\ outcome' = [outcome EXCEPT ![m] = "failed"]
         /\ settled' = [settled EXCEPT ![m] = 0]
         /\ UNCHANGED accepted
  BY DEF AcceptJob, Open, Resolve
<1>3. m <= made
  BY <1>1 DEF MatchesInv, MadeInv
<1>4. accJobs[m] \in Seq(AcceptJobs) /\ accJobs'[m] = Tail(accJobs[m])
      /\ \A k \in Matches : k # m => accJobs'[k] = accJobs[k]
  BY <1>1 DEF TypeOK
<1>5. 1 \in DOMAIN accJobs[m] /\ job = accJobs[m][1]
      /\ \A i \in DOMAIN accJobs'[m] : i + 1 \in DOMAIN accJobs[m]
                                      /\ accJobs'[m][i] = accJobs[m][i + 1]
  <2>1. \A s \in Seq(AcceptJobs) : s # <<>> =>
          /\ 1 \in DOMAIN s /\ Head(s) = s[1]
          /\ \A i \in DOMAIN Tail(s) : i + 1 \in DOMAIN s /\ Tail(s)[i] = s[i + 1]
    BY TailPlaces
  <2>2. accJobs[m] \in Seq(AcceptJobs) /\ accJobs[m] # <<>>
    BY <1>1, <1>4
  <2>3. /\ 1 \in DOMAIN accJobs[m] /\ job = accJobs[m][1]
        /\ \A i \in DOMAIN Tail(accJobs[m]) :
             i + 1 \in DOMAIN accJobs[m] /\ Tail(accJobs[m])[i] = accJobs[m][i + 1]
    BY <2>1, <2>2, Zenon
  <2>4. QED
    BY <1>4, <2>3, Zenon
<1>6. \A k, q : InMatch(k, q)' <=> InMatch(k, q)
  BY <1>1 DEF InMatch
<1>7. RefInv' /\ FreshVerdicts'
  BY <1>1, <1>6 DEF MatchesInv, RefInv, FreshVerdicts
<1>8. MadeInv'
  <2>1. \A k \in Matches : k # m => outcome'[k] = outcome[k]
    BY <1>2 DEF TypeOK
  <2>2. QED
    BY <1>1, <1>3, <1>4, <2>1 DEF MatchesInv, MadeInv
<1>9. AnswerInv'
  BY <1>4, <1>5, <1>6, ZenonT(40) DEF MatchesInv, AnswerInv
<1>10. job[1] = "accept" => InMatch(m, job[2])
  BY <1>5 DEF MatchesInv, AnswerInv
<1>11. ConsentInv'
  <2>1. \A k \in Matches : k # m => accepted'[k] = accepted[k] /\ outcome'[k] = outcome[k]
    BY <1>2 DEF TypeOK
  <2>2. \A p \in accepted'[m] : InMatch(m, p)
    BY <1>2, <1>10 DEF MatchesInv, ConsentInv, TypeOK
  <2>3. outcome'[m] = "go" => Cardinality(accepted'[m]) = MatchSize
    BY <1>2, ZenonT(40) DEF MatchesInv, ConsentInv, TypeOK
  <2>4. QED
    BY <1>6, <2>1, <2>2, <2>3 DEF MatchesInv, ConsentInv
<1>12. ASSUME NEW k \in 1 .. made, NEW i \in 1 .. MatchSize
       PROVE  Given(k, i)' <=> Given(k, i)
  <2>1. k \in Matches
    BY SlotPlayers DEF MatchesInv
  <2>2. CASE k # m \/ UNCHANGED <<outcome, settled>>
    BY <1>2, <2>1, <2>2 DEF Given, TypeOK
  <2>3. CASE k = m /\ ~UNCHANGED <<outcome, settled>>
    <3>1. outcome[m] = "open" /\ settled'[m] = 0
      BY <1>2, <2>3 DEF TypeOK
    <3>2. QED
      BY <2>3, <3>1, SizeAssumption DEF Given
  <2>4. QED
    BY <2>2, <2>3
<1>13. VerdictInv'
  BY <1>1, <1>12 DEF MatchesInv, VerdictInv, Expired
<1>14. QED
  BY <1>7, <1>8, <1>9, <1>11, <1>13 DEF MatchesInv

(* A step of Resolve that gives the i-th player of m a verdict, or finds   *)
(* his session gone.                                                       *)
LEMMA VerdictGiven ==
  ASSUME TypeOK, MatchesInv, NEW m \in Matches, NEW i \in 1 .. MatchSize,
         UNCHANGED <<made, slots, outcome, conn>>, ~Given(m, i),
         \A j \in 1 .. MatchSize : Given(m, j)' <=> Given(m, j) \/ j = i,
         \A k \in Matches : k # m => settled'[k] = settled[k],
         \/ verdicts' = verdicts /\ Expired(slots[m][i])
         \/ verdicts' = [verdicts EXCEPT ![m][i] = @ + 1]
  PROVE  VerdictInv'
<1> SUFFICES ASSUME NEW k \in 1 .. made, NEW j \in 1 .. MatchSize
             PROVE  (IF Given(k, j)
                     THEN verdicts[k][j] = 1
                          \/ (verdicts[k][j] = 0 /\ Expired(slots[k][j]))
                     ELSE verdicts[k][j] = 0)'
  BY DEF VerdictInv
<1>1. k \in Matches
  BY SlotPlayers DEF MatchesInv
<1>2. Expired(slots[k][j])' <=> Expired(slots[k][j])
  BY DEF Expired
<1>3. IF Given(k, j) THEN verdicts[k][j] = 1 \/ (verdicts[k][j] = 0 /\ Expired(slots[k][j]))
      ELSE verdicts[k][j] = 0
  BY DEF MatchesInv, VerdictInv
<1>8. verdicts[m] \in [1 .. MatchSize -> Nat] /\ verdicts \in [Matches -> [1 .. MatchSize -> Nat]]
  BY DEF TypeOK
<1>9. \/ verdicts' = verdicts /\ Expired(slots[m][i])
      \/ verdicts' = [verdicts EXCEPT ![m] = [verdicts[m] EXCEPT ![i] = verdicts[m][i] + 1]]
  OBVIOUS
<1>4. CASE k # m
  <2>1. Given(k, j)' <=> Given(k, j)
    BY <1>1, <1>4 DEF Given
  <2>2. verdicts'[k][j] = verdicts[k][j]
    BY <1>1, <1>4, <1>8, <1>9
  <2>3. QED
    BY <1>2, <1>3, <2>1, <2>2
<1>5. CASE k = m /\ j # i
  <2>1. verdicts'[k][j] = verdicts[k][j]
    <3>1. verdicts'[m] = verdicts[m]
            \/ verdicts'[m] = [verdicts[m] EXCEPT ![i] = verdicts[m][i] + 1]
      BY <1>8, <1>9
    <3>2. QED
      BY <1>5, <1>8, <3>1
  <2>2. QED
    BY <1>2, <1>3, <1>5, <2>1
<1>6. CASE k = m /\ j = i
  <2>1. verdicts[m][i] = 0
    BY <1>3, <1>6
  <2>2. verdicts'[m][i] = 1 \/ (verdicts'[m][i] = 0 /\ Expired(slots[m][i]))
    <3>1. \/ verdicts'[m] = verdicts[m] /\ Expired(slots[m][i])
          \/ verdicts'[m] = [verdicts[m] EXCEPT ![i] = verdicts[m][i] + 1]
      BY <1>8, <1>9
    <3>2. CASE verdicts'[m] = [verdicts[m] EXCEPT ![i] = verdicts[m][i] + 1]
      BY <1>8, <2>1, <3>2
    <3>3. CASE verdicts'[m] = verdicts[m] /\ Expired(slots[m][i])
      BY <2>1, <3>3, Zenon
    <3>4. QED
      BY <3>1, <3>2, <3>3
  <2>3. QED
    BY <1>2, <1>6, <2>2
<1>7. QED
  BY <1>4, <1>5, <1>6

(* What the steps of Resolve leave alone. *)
LEMMA ResolveKeeps ==
  ASSUME TypeOK, MatchesInv, NEW m \in Matches, outcome[m] # "open",
         UNCHANGED <<made, slots, timer, accJobs, accepted, outcome, conn>>,
         \A p \in Players : acceptRef'[p] \in {acceptRef[p], NoMatch},
         \/ verdicts' = verdicts
         \/ \E i \in 1 .. MatchSize : verdicts' = [verdicts EXCEPT ![m][i] = @ + 1]
  PROVE  (MadeInv /\ RefInv /\ AnswerInv /\ ConsentInv /\ FreshVerdicts)'
<1>1. \A k, q : InMatch(k, q)' <=> InMatch(k, q)
  BY DEF InMatch
<1>2. m <= made
  BY DEF MatchesInv, MadeInv
<1>3. RefInv'
  BY <1>1 DEF MatchesInv, RefInv
<1>4. MadeInv' /\ AnswerInv' /\ ConsentInv'
  BY <1>1 DEF MatchesInv, MadeInv, AnswerInv, ConsentInv
<1>5. \A k \in Matches : k # m => verdicts'[k] = verdicts[k]
  BY DEF TypeOK
<1>6. FreshVerdicts'
  <2>1. \A k \in Matches : k > made => k # m
    BY <1>2 DEF TypeOK, Matches
  <2>2. QED
    BY <1>5, <2>1 DEF MatchesInv, FreshVerdicts
<1>7. QED
  BY <1>3, <1>4, <1>6

LEMMA DisbandKeeps ==
  ASSUME TypeOK, MatchesInv, NEW m \in Matches, Disband(m)
  PROVE  MatchesInv'
<1> DEFINE i == settled[m] + 1
<1>1. /\ outcome[m] = "failed" /\ settled[m] < MatchSize
      /\ settled' = [settled EXCEPT ![m] = i]
      /\ UNCHANGED <<made, slots, timer, accJobs, accepted, outcome, conn>>
  BY DEF Disband, managerVars, Resolving, ResolveSteps
<1>2. /\ acceptRef' = acceptRef \/ acceptRef' = [acceptRef EXCEPT ![slots[m][i]] = NoMatch]
      /\ \/ verdicts' = verdicts /\ Expired(slots[m][i])
         \/ verdicts' = [verdicts EXCEPT ![m][i] = @ + 1]
  BY DEF Disband, Verdict, Current
<1>3. i \in 1 .. MatchSize /\ settled[m] \in Nat
  BY <1>1, SizeAssumption DEF TypeOK
<1>4. \A p \in Players : acceptRef'[p] \in {acceptRef[p], NoMatch}
  BY <1>2 DEF TypeOK
<1>5. (MadeInv /\ RefInv /\ AnswerInv /\ ConsentInv /\ FreshVerdicts)'
  BY <1>1, <1>2, <1>3, <1>4, ResolveKeeps
<1>6. settled'[m] = i /\ \A k \in Matches : k # m => settled'[k] = settled[k]
  BY <1>1 DEF TypeOK
<1>7. /\ ~Given(m, i)
      /\ \A j \in 1 .. MatchSize : Given(m, j)' <=> Given(m, j) \/ j = i
  BY <1>1, <1>3, <1>6 DEF Given
<1>8. VerdictInv'
  BY <1>1, <1>2, <1>3, <1>6, <1>7, VerdictGiven
<1>9. QED
  BY <1>5, <1>8 DEF MatchesInv

LEMMA GiveBackKeeps ==
  ASSUME TypeOK, MatchesInv, NEW m \in Matches, GiveBack(m)
  PROVE  MatchesInv'
<1>1. /\ outcome[m] = "failed"
      /\ UNCHANGED <<made, slots, timer, accJobs, accepted, outcome, settled, conn, verdicts>>
  BY DEF GiveBack, managerVars
<1>2. \A p \in Players : acceptRef'[p] \in {acceptRef[p], NoMatch}
  BY DEF GiveBack, TypeOK
<1>3. (MadeInv /\ RefInv /\ AnswerInv /\ ConsentInv /\ FreshVerdicts)'
  BY <1>1, <1>2, ResolveKeeps
<1>4. VerdictInv'
  BY <1>1 DEF MatchesInv, VerdictInv, Given, Expired
<1>5. QED
  BY <1>3, <1>4 DEF MatchesInv

LEMMA GiveBackFlagKeeps ==
  ASSUME TypeOK, MatchesInv, NEW m \in Matches, GiveBackFlag(m)
  PROVE  MatchesInv'
<1>1. UNCHANGED matchVars /\ \A q \in Players : Expired(q) => Expired(q)'
  BY DEF matchVars, managerVars, Expired, GiveBackFlag
<1>2. QED
  BY <1>1, QuietKeeps DEF MatchesInv

LEMMA GiveBackReplyKeeps ==
  ASSUME TypeOK, MatchesInv, GivingInv, NEW m \in Matches, GiveBackReply(m)
  PROVE  MatchesInv'
<1> DEFINE i == settled[m] + 1
<1>1. /\ outcome[m] = "failed" /\ settled[m] < MatchSize
      /\ settled' = [settled EXCEPT ![m] = i]
      /\ UNCHANGED <<made, slots, timer, accJobs, accepted, outcome, conn, acceptRef>>
      /\ verdicts' = [verdicts EXCEPT ![m][i] = @ + 1]
  BY DEF GiveBackReply, GivingInv, Verdict, managerVars
<1>2. i \in 1 .. MatchSize /\ settled[m] \in Nat
  BY <1>1, SizeAssumption DEF TypeOK
<1>3. (MadeInv /\ RefInv /\ AnswerInv /\ ConsentInv /\ FreshVerdicts)'
  BY <1>1, <1>2, ResolveKeeps
<1>4. settled'[m] = i /\ \A k \in Matches : k # m => settled'[k] = settled[k]
  BY <1>1 DEF TypeOK
<1>5. /\ ~Given(m, i)
      /\ \A j \in 1 .. MatchSize : Given(m, j)' <=> Given(m, j) \/ j = i
  BY <1>1, <1>2, <1>4 DEF Given
<1>6. VerdictInv'
  BY <1>1, <1>2, <1>4, <1>5, VerdictGiven
<1>7. QED
  BY <1>3, <1>6 DEF MatchesInv

LEMMA ReleaseRefKeeps ==
  ASSUME TypeOK, MatchesInv, NEW m \in Matches, ReleaseRef(m)
  PROVE  MatchesInv'
<1>1. /\ outcome[m] = "go" /\ settled[m] < MatchSize
      /\ settled' = [settled EXCEPT ![m] = @ + 1]
      /\ UNCHANGED <<made, slots, timer, accJobs, accepted, outcome, conn, verdicts>>
  BY DEF ReleaseRef, managerVars
<1>2. \A p \in Players : acceptRef'[p] \in {acceptRef[p], NoMatch}
  BY DEF ReleaseRef, TypeOK
<1>3. (MadeInv /\ RefInv /\ AnswerInv /\ ConsentInv /\ FreshVerdicts)'
  BY <1>1, <1>2, ResolveKeeps
<1>4. \A k \in Matches, j \in 1 .. MatchSize : Given(k, j)' <=> Given(k, j)
  <2>1. settled[m] \in Nat /\ settled'[m] = settled[m] + 1
        /\ \A k \in Matches : k # m => settled'[k] = settled[k]
    BY <1>1 DEF TypeOK
  <2>2. QED
    BY <1>1, <2>1, SizeAssumption DEF Given
<1>5. \A k \in 1 .. made : k \in Matches
  BY SlotPlayers DEF MatchesInv
<1>6. VerdictInv'
  BY <1>1, <1>4, <1>5 DEF MatchesInv, VerdictInv, Expired
<1>7. QED
  BY <1>3, <1>6 DEF MatchesInv

LEMMA EnterChampSelectKeeps ==
  ASSUME TypeOK, MatchesInv, NEW m \in Matches, EnterChampSelect(m)
  PROVE  MatchesInv'
<1> DEFINE i == settled[m] - MatchSize + 1
<1>1. /\ outcome[m] = "go" /\ settled[m] >= MatchSize /\ settled[m] < 2 * MatchSize
      /\ settled' = [settled EXCEPT ![m] = @ + 1]
      /\ UNCHANGED <<made, slots, timer, accJobs, accepted, outcome, conn, acceptRef>>
  BY DEF EnterChampSelect, managerVars, Resolving, ResolveSteps
<1>2. \/ verdicts' = verdicts /\ Expired(slots[m][i])
      \/ verdicts' = [verdicts EXCEPT ![m][i] = @ + 1]
  BY DEF EnterChampSelect, Verdict
<1>3. i \in 1 .. MatchSize /\ settled[m] \in Nat
  BY <1>1, SizeAssumption DEF TypeOK
<1>4. (MadeInv /\ RefInv /\ AnswerInv /\ ConsentInv /\ FreshVerdicts)'
  BY <1>1, <1>2, <1>3, ResolveKeeps
<1>5. settled'[m] = settled[m] + 1 /\ \A k \in Matches : k # m => settled'[k] = settled[k]
  BY <1>1 DEF TypeOK
<1>6. /\ ~Given(m, i)
      /\ \A j \in 1 .. MatchSize : Given(m, j)' <=> Given(m, j) \/ j = i
  BY <1>1, <1>3, <1>5, SizeAssumption DEF Given
<1>7. VerdictInv'
  BY <1>1, <1>2, <1>3, <1>5, <1>6, VerdictGiven
<1>8. QED
  BY <1>4, <1>7 DEF MatchesInv

-----------------------------------------------------------------------------
LEMMA GivingKeeps ==
  ASSUME TypeOK, GivingInv, Next
  PROVE  GivingInv'
<1> USE DEF clientVars, managerVars, acceptVars
<1>1. ASSUME UNCHANGED <<giving, outcome, settled>> PROVE GivingInv'
  BY <1>1 DEF GivingInv
<1>2. ASSUME NEW p \in Players,
             User(p) \/ ClientReceive(p) \/ Handler(p) \/ OnDisconnected(p)
               \/ SessionDestroyed(p)
      PROVE  UNCHANGED <<giving, outcome, settled>>
  <2>1. CASE User(p) \/ ClientReceive(p) \/ OnDisconnected(p) \/ SessionDestroyed(p)
    BY <2>1 DEF User, OpenMenu, ChooseStart, ChooseCancel, ChooseAnswer, LeaveMenu,
       ClientReceive, OnDisconnected, SessionDestroyed
  <2>2. CASE Handler(p)
    BY <2>2 DEF Handler, HandleStart, RefuseStart, HandleCancel, HandleAnswer,
       HandlerFlag, HandlerReply
  <2>3. QED
    BY <1>2, <2>1, <2>2
<1>3. ASSUME Manager PROVE UNCHANGED <<giving, outcome, settled>>
  BY <1>3 DEF Manager, ManagerJob, TickBegin, Purge, FormMatch, TickEnd
<1>4. ASSUME NEW m \in Matches, Start(m) \/ TimerFires(m)
      PROVE  UNCHANGED <<giving, outcome, settled>>
  BY <1>4 DEF Start, StartNotify, StartTimer, TimerFires
<1>5. ASSUME NEW m \in Matches, Session(m),
             NEW k \in Matches, giving'[k] # "no"
      PROVE  outcome'[k] = "failed" /\ settled'[k] < MatchSize
  <2>1. CASE AcceptJob(m)
    <3>1. giving[m] = "no"
      BY <2>1 DEF AcceptJob, Resolving, ResolveSteps, GivingInv
    <3>2. giving' = giving
          /\ (UNCHANGED <<outcome, settled>> \/ \E v \in Outcomes : Resolve(m, v))
      BY <2>1 DEF AcceptJob, Resolve, Outcomes
    <3>3. QED
      BY <1>5, <3>1, <3>2 DEF GivingInv, TypeOK, Resolve
  <2>2. CASE Disband(m)
    BY <1>5, <2>2 DEF Disband, GivingInv, TypeOK
  <2>3. CASE GiveBack(m)
    BY <1>5, <2>3 DEF GiveBack, Resolving, ResolveSteps, GivingInv, TypeOK
  <2>4. CASE GiveBackFlag(m)
    BY <1>5, <2>4 DEF GiveBackFlag, GivingInv, TypeOK
  <2>5. CASE GiveBackReply(m)
    BY <1>5, <2>5 DEF GiveBackReply, GivingInv, TypeOK
  <2>6. CASE ReleaseRef(m)
    BY <1>5, <2>6 DEF ReleaseRef, GivingInv, TypeOK
  <2>7. CASE EnterChampSelect(m)
    BY <1>5, <2>7 DEF EnterChampSelect, GivingInv, TypeOK
  <2>8. QED
    BY <1>5, <2>1, <2>2, <2>3, <2>4, <2>5, <2>6, <2>7 DEF Session
<1>6. ASSUME NEW m \in Matches, Session(m) PROVE GivingInv'
  BY <1>5, <1>6 DEF GivingInv
<1>7. QED
  BY <1>1, <1>2, <1>3, <1>4, <1>6 DEF Next

LEMMA StepIInv ==
  ASSUME IInv, [Next]_vars
  PROVE  IInv'
<1> USE DEF IInv
<1>1. CASE Next
  <2>1. TypeOK'
    BY <1>1, StepTypeOK
  <2>2. ASSUME NEW p \in Players,
               User(p) \/ ClientReceive(p) \/ Handler(p) \/ OnDisconnected(p)
                 \/ SessionDestroyed(p) \/ Purge(p)
        PROVE  MatchesInv'
    <3>1. CASE HandleAnswer(p)
      BY <3>1, HandleAnswerKeeps
    <3>2. CASE ~HandleAnswer(p)
      BY <2>2, <3>2, QuietSteps, QuietKeeps DEF Handler, MatchesInv
    <3>3. QED
      BY <3>1, <3>2
  <2>3. ASSUME ManagerJob \/ TickBegin \/ TickEnd PROVE MatchesInv'
    BY <2>3, QuietManager, QuietKeeps DEF MatchesInv
  <2>4. ASSUME NEW m \in Matches, Start(m) \/ TimerFires(m) \/ Session(m)
        PROVE  MatchesInv'
    BY <2>4, StartNotifyKeeps, StartTimerKeeps, TimerFiresKeeps, AcceptJobKeeps,
       DisbandKeeps, GiveBackKeeps, GiveBackFlagKeeps, GiveBackReplyKeeps,
       ReleaseRefKeeps, EnterChampSelectKeeps DEF Start, Session
  <2>5. GivingInv'
    BY <1>1, GivingKeeps
  <2>6. QED
    BY <1>1, <2>1, <2>2, <2>3, <2>4, <2>5, FormMatchKeeps DEF Next, Manager
<1>2. CASE UNCHANGED vars
  <2>1. UNCHANGED matchVars /\ \A q \in Players : Expired(q) => Expired(q)'
    BY <1>2 DEF vars, matchVars, Expired
  <2>2. MatchesInv'
    BY <2>1, QuietKeeps DEF MatchesInv
  <2>3. TypeOK' /\ GivingInv'
    BY <1>2 DEF vars, TypeOK, GivingInv
  <2>4. QED
    BY <2>2, <2>3
<1>3. QED
  BY <1>1, <1>2

(* MatchSize of the players of a match are all of them. *)
LEMMA AllAccepted ==
  ASSUME TypeOK, MatchesInv, NEW m \in 1 .. made, outcome[m] = "go",
         NEW p \in Players, InMatch(m, p)
  PROVE  p \in accepted[m]
<1> DEFINE team == {slots[m][i] : i \in 1 .. MatchSize}
<1>1. m \in Matches /\ slots[m] \in [1 .. MatchSize -> Players]
  BY SlotPlayers DEF MatchesInv
<1>2. slots[m] \in Surjection(1 .. MatchSize, team)
  BY <1>1 DEF Surjection
<1>3. IsFiniteSet(1 .. MatchSize) /\ Cardinality(1 .. MatchSize) = MatchSize
  BY SizeAssumption, FS_Interval
<1>4. IsFiniteSet(team) /\ Cardinality(team) <= MatchSize
  BY <1>2, <1>3, FS_Surjection
<1>5. accepted[m] \in SUBSET team /\ Cardinality(accepted[m]) = MatchSize
  BY <1>1 DEF MatchesInv, ConsentInv, InMatch
<1>6. Cardinality(accepted[m]) <= Cardinality(team)
  BY <1>4, <1>5, FS_Subset
<1>7. Cardinality(team) \in Nat
  BY <1>4, FS_CardinalityType
<1>8. Cardinality(team) = Cardinality(accepted[m])
  BY <1>4, <1>5, <1>6, <1>7, SizeAssumption
<1>9. team = accepted[m]
  BY <1>4, <1>5, <1>8, FS_Subset
<1>10. QED
  BY <1>9 DEF InMatch

LEMMA OutcomeFollows ==
  ASSUME IInv
  PROVE  OneOutcome
<1> SUFFICES ASSUME NEW m \in 1 .. made
             PROVE  /\ outcome[m] = "go" =>
                         /\ \A p \in Players : InMatch(m, p) => p \in accepted[m]
                         /\ Cardinality(accepted[m]) = MatchSize
                    /\ \A i \in 1 .. MatchSize :
                         /\ verdicts[m][i] <= 1
                         /\ Ended(m) /\ ~Expired(slots[m][i]) => verdicts[m][i] = 1
  BY DEF OneOutcome
<1> USE DEF IInv
<1>1. m \in Matches
  BY SlotPlayers DEF MatchesInv
<1>2. outcome[m] = "go" => Cardinality(accepted[m]) = MatchSize
  BY <1>1 DEF MatchesInv, ConsentInv
<1>3. outcome[m] = "go" => \A p \in Players : InMatch(m, p) => p \in accepted[m]
  BY AllAccepted
<1>4. ASSUME NEW i \in 1 .. MatchSize
      PROVE  /\ verdicts[m][i] <= 1
             /\ Ended(m) /\ ~Expired(slots[m][i]) => verdicts[m][i] = 1
  <2>1. IF Given(m, i)
        THEN verdicts[m][i] = 1 \/ (verdicts[m][i] = 0 /\ Expired(slots[m][i]))
        ELSE verdicts[m][i] = 0
    BY DEF MatchesInv, VerdictInv
  <2>2. verdicts[m][i] = 0 \/ verdicts[m][i] = 1
    BY <2>1
  <2>3. Ended(m) => Given(m, i)
    BY <1>1, SizeAssumption DEF Ended, Resolving, ResolveSteps, Given, TypeOK
  <2>4. Ended(m) /\ ~Expired(slots[m][i]) => verdicts[m][i] = 1
    BY <2>1, <2>3, Zenon
  <2>5. QED
    BY <2>2, <2>4
<1>5. QED
  BY <1>2, <1>3, <1>4

(* The invariant holds in every state of every behaviour. *)
THEOREM Invariance == Spec => []IInv
<1>1. Init => IInv
  BY InitIInv
<1>2. IInv /\ [Next]_vars => IInv'
  BY StepIInv
<1>3. QED
  BY <1>1, <1>2, PTL DEF Spec

(* MatchmakingManager.cpp, MatchAcceptSession.cpp: every variable stays in *)
(* its type; in particular no count of tickets goes below zero.            *)
THEOREM TypeCorrect == Spec => []TypeOK
BY Invariance, PTL DEF IInv

(* MatchAcceptSession.cpp:84-177: one resolution, one verdict for each,    *)
(* and champion select with the consent of all, for any number of players, *)
(* any size of a match and any order of accepts, declines and timeouts.    *)
THEOREM Outcome == Spec => []OneOutcome
<1>1. IInv => OneOutcome
  BY OutcomeFollows
<1>2. QED
  BY <1>1, Invariance, PTL

-----------------------------------------------------------------------------
(* Where e stands in s. *)
Places(s, e) == {i \in DOMAIN s : s[i] = e}

LEMMA PlacesFinite ==
  ASSUME NEW S, NEW s \in Seq(S), NEW e
  PROVE  IsFiniteSet(Places(s, e)) /\ Cardinality(Places(s, e)) \in Nat
<1>1. IsFiniteSet(1 .. Len(s))
  BY FS_Interval
<1>2. Places(s, e) \in SUBSET (1 .. Len(s))
  BY DEF Places
<1>3. QED
  BY <1>1, <1>2, FS_Subset, FS_CardinalityType

LEMMA CountAppend ==
  ASSUME NEW S, NEW s \in Seq(S), NEW x \in S, NEW e
  PROVE  Cardinality(Places(Append(s, x), e)) =
           Cardinality(Places(s, e)) + (IF x = e THEN 1 ELSE 0)
<1>1. Len(s) + 1 \notin Places(s, e)
  BY DEF Places
<1>2. CASE x = e
  <2>1. Places(Append(s, x), e) = Places(s, e) \cup {Len(s) + 1}
    BY <1>2, AppendPlaces DEF Places
  <2>2. QED
    BY <1>1, <1>2, <2>1, PlacesFinite, FS_AddElement
<1>3. CASE x # e
  <2>1. Places(Append(s, x), e) = Places(s, e)
    BY <1>3, AppendPlaces DEF Places
  <2>2. QED
    BY <1>3, <2>1, PlacesFinite
<1>4. QED
  BY <1>2, <1>3

LEMMA CountTail ==
  ASSUME NEW S, NEW s \in Seq(S), s # <<>>, NEW e
  PROVE  Cardinality(Places(s, e)) =
           Cardinality(Places(Tail(s), e)) + (IF Head(s) = e THEN 1 ELSE 0)
<1> DEFINE P == Places(Tail(s), e)
           Q == Places(s, e) \ {1}
           f == [i \in P |-> i + 1]
<1>1. Tail(s) \in Seq(S) /\ Len(Tail(s)) = Len(s) - 1 /\ Len(s) > 0
  OBVIOUS
<1>2. \A i \in DOMAIN Tail(s) : Tail(s)[i] = s[i + 1]
  OBVIOUS
<1>3. DOMAIN s = 1 .. Len(s) /\ DOMAIN Tail(s) = 1 .. Len(s) - 1
  BY <1>1
<1>4. f \in Bijection(P, Q)
  <2>1. f \in [P -> Q]
    BY <1>1, <1>2, <1>3 DEF Places
  <2>2. \A i, j \in P : f[i] = f[j] => i = j
    BY <1>3 DEF Places
  <2>3. \A k \in Q : \E i \in P : f[i] = k
    <3>1. ASSUME NEW k \in Q PROVE k - 1 \in P /\ f[k - 1] = k
      BY <1>1, <1>2, <1>3 DEF Places
    <3>2. QED
      BY <3>1
  <2>4. QED
    BY <2>1, <2>2, <2>3 DEF Bijection, Injection, IsInjective, Surjection
<1>5. IsFiniteSet(P)
  BY <1>1, PlacesFinite
<1>6. Cardinality(Q) = Cardinality(P)
  BY <1>4, <1>5, FS_Bijection DEF ExistsBijection
<1>7. IsFiniteSet(Places(s, e)) /\ Cardinality(Places(s, e)) \in Nat
  BY PlacesFinite
<1>8. 1 \in Places(s, e) <=> Head(s) = e
  BY <1>1 DEF Places
<1>9. Cardinality(Q) = IF 1 \in Places(s, e) THEN Cardinality(Places(s, e)) - 1
                       ELSE Cardinality(Places(s, e))
  BY <1>7, FS_RemoveElement
<1>10. QED
  BY <1>6, <1>7, <1>8, <1>9

-----------------------------------------------------------------------------
(* What the slots of p that OpenSlots counts are. *)
OpenPlaces(p) ==
  {x \in (1 .. made) \X (1 .. MatchSize) :
    /\ slots[x[1]][x[2]] = p
    /\ \/ outcome[x[1]] = "open"
       \/ outcome[x[1]] = "failed" /\ x[2] > DealtWith(x[1])}

LEMMA OpenPlacesFinite ==
  ASSUME TypeOK, NEW p
  PROVE  /\ IsFiniteSet(OpenPlaces(p))
         /\ OpenSlots(p) = Cardinality(OpenPlaces(p)) /\ OpenSlots(p) \in Nat
<1>1. made \in Int /\ MatchSize \in Int
  BY SizeAssumption, Bounds DEF TypeOK
<1>2. IsFiniteSet(1 .. made) /\ IsFiniteSet(1 .. MatchSize)
  BY <1>1, FS_Interval
<1>3. IsFiniteSet((1 .. made) \X (1 .. MatchSize))
  BY <1>2, FS_Product
<1>4. OpenPlaces(p) \in SUBSET ((1 .. made) \X (1 .. MatchSize))
  BY DEF OpenPlaces
<1>5. IsFiniteSet(OpenPlaces(p))
  BY <1>3, <1>4, FS_Subset
<1>6. QED
  BY <1>5, FS_CardinalityType DEF OpenSlots, OpenPlaces

LEMMA PendingTypes ==
  ASSUME TypeOK, NEW p \in Players
  PROVE  /\ PendingAdds(p) = Cardinality(Places(mgrJobs, <<"add", p>>))
         /\ PendingAdds(p) \in Nat
         /\ PendingStarts(p) = Cardinality(Places(toServer[p], "start"))
         /\ PendingStarts(p) \in Nat
<1>1. mgrJobs \in Seq(ManagerJobs) /\ toServer[p] \in Seq(Commands)
  BY DEF TypeOK
<1>2. QED
  BY <1>1, PlacesFinite DEF PendingAdds, PendingStarts, Places

(* The balance of a player: what is left of his starts. *)
Moved(p) == tickets[p] + PendingAdds(p) + OpenSlots(p) + PendingStarts(p)

LEMMA Balance ==
  ASSUME TypeOK
  PROVE  NoTicketForged <=> \A p \in Players : Moved(p) <= starts[p]
<1>1. \A p \in Players : /\ tickets[p] \in Nat /\ starts[p] \in Nat
                         /\ PendingAdds(p) \in Nat /\ PendingStarts(p) \in Nat
                         /\ OpenSlots(p) \in Nat
  BY PendingTypes, OpenPlacesFinite DEF TypeOK
<1>2. \A a, b, c, d, e \in Nat : a + b + c <= e - d <=> a + b + c + d <= e
  OBVIOUS
<1>3. QED
  BY <1>1, <1>2 DEF NoTicketForged, Moved

LEMMA SameOpen ==
  ASSUME UNCHANGED <<made, slots, outcome, settled, giving>>, NEW p
  PROVE  OpenSlots(p)' = OpenSlots(p)
BY DEF OpenSlots, DealtWith

LEMMA PostCounts ==
  ASSUME TypeOK, NEW p \in Players, NEW q \in Players, NEW k \in {"add", "remove"},
         Post(<<k, q>>)
  PROVE  PendingAdds(p)' = PendingAdds(p) + (IF k = "add" /\ p = q THEN 1 ELSE 0)
<1>1. mgrJobs \in Seq(ManagerJobs) /\ <<k, q>> \in ManagerJobs
  BY DEF TypeOK, ManagerJobs
<1>2. Cardinality(Places(Append(mgrJobs, <<k, q>>), <<"add", p>>)) =
        Cardinality(Places(mgrJobs, <<"add", p>>))
          + (IF <<k, q>> = <<"add", p>> THEN 1 ELSE 0)
  BY <1>1, CountAppend
<1>3. PendingAdds(p)' = Cardinality(Places(Append(mgrJobs, <<k, q>>), <<"add", p>>))
  BY DEF PendingAdds, Places, Post
<1>4. PendingAdds(p) = Cardinality(Places(mgrJobs, <<"add", p>>))
  BY DEF PendingAdds, Places
<1>5. QED
  BY <1>2, <1>3, <1>4

TicketInv == \A p \in Players : Moved(p) <= starts[p]

LEMMA Counts ==
  ASSUME TypeOK, NEW p \in Players
  PROVE  /\ tickets[p] \in Nat /\ starts[p] \in Nat
         /\ PendingAdds(p) \in Nat /\ PendingStarts(p) \in Nat /\ OpenSlots(p) \in Nat
BY PendingTypes, OpenPlacesFinite DEF TypeOK

LEMMA NothingMoves ==
  ASSUME TicketInv,
         UNCHANGED <<tickets, mgrJobs, starts, toServer, made, slots, outcome, settled, giving>>
  PROVE  TicketInv'
BY DEF TicketInv, Moved, PendingAdds, PendingStarts, OpenSlots, DealtWith

(* A client sends c; only a start is counted, on both sides. *)
LEMMA CommandSent ==
  ASSUME TypeOK, TicketInv, NEW p \in Players, NEW c \in Commands, SendCommand(p, c),
         \/ c = "start" /\ starts' = [starts EXCEPT ![p] = @ + 1]
         \/ c # "start" /\ UNCHANGED starts,
         UNCHANGED <<tickets, mgrJobs, made, slots, outcome, settled, giving>>
  PROVE  TicketInv'
<1> SUFFICES ASSUME NEW q \in Players PROVE Moved(q)' <= starts'[q]
  BY DEF TicketInv
<1>1. toServer[q] \in Seq(Commands) /\ toServer \in [Players -> Seq(Commands)]
  BY DEF TypeOK
<1>2. toServer'[q] = IF q = p THEN Append(toServer[q], c) ELSE toServer[q]
  BY <1>1 DEF SendCommand
<1>3. PendingStarts(q)' = PendingStarts(q) + (IF q = p /\ c = "start" THEN 1 ELSE 0)
  <2>1. Cardinality(Places(Append(toServer[q], c), "start")) =
          Cardinality(Places(toServer[q], "start")) + (IF c = "start" THEN 1 ELSE 0)
    BY <1>1, CountAppend
  <2>2. PendingStarts(q)' = Cardinality(Places(toServer'[q], "start"))
    BY DEF PendingStarts, Places
  <2>3. PendingStarts(q) = Cardinality(Places(toServer[q], "start"))
    BY DEF PendingStarts, Places
  <2>4. PendingStarts(q) \in Nat
    BY Counts
  <2>5. QED
    BY <1>2, <2>1, <2>2, <2>3, <2>4
<1>4. tickets'[q] = tickets[q] /\ PendingAdds(q)' = PendingAdds(q)
      /\ OpenSlots(q)' = OpenSlots(q)
  BY SameOpen DEF PendingAdds
<1>5. starts'[q] = starts[q] + (IF q = p /\ c = "start" THEN 1 ELSE 0)
  BY DEF TypeOK
<1>6. Moved(q) <= starts[q]
  BY DEF TicketInv
<1>7. QED
  BY <1>3, <1>4, <1>5, <1>6, Counts DEF Moved

(* A handler takes c from the stream; it posts a ticket for a start it     *)
(* does not refuse.                                                        *)
LEMMA CommandTaken ==
  ASSUME TypeOK, TicketInv, NEW p \in Players, NEW c \in Commands, NextCommand(p, c),
         \/ c = "start" /\ Post(<<"add", p>>)
         \/ c # "start" /\ Post(<<"remove", p>>)
         \/ UNCHANGED mgrJobs,
         UNCHANGED <<tickets, starts, made, slots, outcome, settled, giving>>
  PROVE  TicketInv'
<1> SUFFICES ASSUME NEW q \in Players PROVE Moved(q)' <= starts'[q]
  BY DEF TicketInv
<1>1. toServer[q] \in Seq(Commands) /\ toServer \in [Players -> Seq(Commands)]
  BY DEF TypeOK
<1>2. /\ toServer'[q] = IF q = p THEN Tail(toServer[q]) ELSE toServer[q]
      /\ q = p => toServer[q] # <<>> /\ Head(toServer[q]) = c
  BY <1>1 DEF NextCommand
<1>3. PendingStarts(q) = PendingStarts(q)' + (IF q = p /\ c = "start" THEN 1 ELSE 0)
      /\ PendingStarts(q)' \in Nat
  <2>1. PendingStarts(q)' = Cardinality(Places(toServer'[q], "start"))
    BY DEF PendingStarts, Places
  <2>2. PendingStarts(q) = Cardinality(Places(toServer[q], "start"))
    BY DEF PendingStarts, Places
  <2>3. PendingStarts(q) \in Nat
    BY Counts
  <2>4. CASE q = p
    <3>1. Cardinality(Places(toServer[q], "start")) =
            Cardinality(Places(Tail(toServer[q]), "start")) + (IF c = "start" THEN 1 ELSE 0)
      BY <1>1, <1>2, <2>4, CountTail
    <3>2. Tail(toServer[q]) \in Seq(Commands)
      BY <1>1, <1>2, <2>4
    <3>3. Cardinality(Places(Tail(toServer[q]), "start")) \in Nat
      BY <3>2, PlacesFinite
    <3>4. QED
      BY <1>2, <2>1, <2>2, <2>4, <3>1, <3>3
  <2>5. CASE q # p
    BY <1>2, <2>1, <2>2, <2>3, <2>5
  <2>6. QED
    BY <2>4, <2>5
<1>4. /\ PendingAdds(q)' \in Nat
      /\ PendingAdds(q)' <= PendingAdds(q) + (IF q = p /\ c = "start" THEN 1 ELSE 0)
  <2>1. CASE c = "start" /\ Post(<<"add", p>>)
    <3>1. PendingAdds(q)' = PendingAdds(q) + (IF q = p THEN 1 ELSE 0)
      BY <2>1, PostCounts
    <3>2. QED
      BY <2>1, <3>1, Counts
  <2>2. CASE c # "start" /\ Post(<<"remove", p>>)
    <3>1. PendingAdds(q)' = PendingAdds(q) + 0
      BY <2>2, PostCounts
    <3>2. QED
      BY <2>2, <3>1, Counts
  <2>3. CASE UNCHANGED mgrJobs
    <3>1. PendingAdds(q)' = PendingAdds(q) /\ PendingAdds(q) \in Nat
      BY <2>3, Counts DEF PendingAdds
    <3>2. QED
      BY <3>1
  <2>4. QED
    BY <2>1, <2>2, <2>3
<1>5. tickets'[q] = tickets[q] /\ starts'[q] = starts[q] /\ OpenSlots(q)' = OpenSlots(q)
  BY SameOpen
<1>6. Moved(q) <= starts[q]
  BY DEF TicketInv
<1>7. QED
  BY <1>3, <1>4, <1>5, <1>6, Counts DEF Moved

(* Removing jobs, tickets or open slots only lowers the balance. *)
LEMMA OnlyLess ==
  ASSUME TypeOK, TicketInv, UNCHANGED <<starts, toServer>>,
         \A q \in Players :
           /\ tickets'[q] \in Nat /\ PendingAdds(q)' \in Nat /\ OpenSlots(q)' \in Nat
           /\ tickets'[q] + PendingAdds(q)' + OpenSlots(q)'
                <= tickets[q] + PendingAdds(q) + OpenSlots(q)
  PROVE  TicketInv'
<1> SUFFICES ASSUME NEW q \in Players PROVE Moved(q)' <= starts'[q]
  BY DEF TicketInv
<1>1. PendingStarts(q)' = PendingStarts(q) /\ starts'[q] = starts[q]
  BY DEF PendingStarts
<1>2. Moved(q) <= starts[q]
  BY DEF TicketInv
<1>3. QED
  BY <1>1, <1>2, Counts DEF Moved

LEMMA ManagerJobMoves ==
  ASSUME TypeOK, TypeOK', TicketInv, ManagerJob
  PROVE  TicketInv'
<1> DEFINE j == Head(mgrJobs)
<1>1. /\ mgrJobs # <<>> /\ mgrJobs' = Tail(mgrJobs)
      /\ tickets' = [tickets EXCEPT ![j[2]] = IF j[1] = "add" THEN @ + 1 ELSE WithoutOne(j[2])]
      /\ UNCHANGED <<starts, toServer, made, slots, outcome, settled, giving>>
  BY DEF ManagerJob, clientVars, acceptVars
<1>2. mgrJobs \in Seq(ManagerJobs) /\ Tail(mgrJobs) \in Seq(ManagerJobs)
      /\ j \in ManagerJobs
  BY <1>1 DEF TypeOK
<1>3. ASSUME NEW q \in Players
      PROVE  /\ tickets'[q] \in Nat /\ PendingAdds(q)' \in Nat /\ OpenSlots(q)' \in Nat
             /\ tickets'[q] + PendingAdds(q)' + OpenSlots(q)'
                  <= tickets[q] + PendingAdds(q) + OpenSlots(q)
  <2> DEFINE c == IF j = <<"add", q>> THEN 1 ELSE 0
  <2>1. PendingAdds(q) = PendingAdds(q)' + c /\ PendingAdds(q)' \in Nat
    <3>1. Cardinality(Places(mgrJobs, <<"add", q>>)) =
            Cardinality(Places(Tail(mgrJobs), <<"add", q>>)) + c
      BY <1>1, <1>2, CountTail
    <3>2. Cardinality(Places(Tail(mgrJobs), <<"add", q>>)) \in Nat
      BY <1>2, PlacesFinite
    <3>3. PendingAdds(q)' = Cardinality(Places(Tail(mgrJobs), <<"add", q>>))
      BY <1>1 DEF PendingAdds, Places
    <3>4. PendingAdds(q) = Cardinality(Places(mgrJobs, <<"add", q>>))
      BY DEF PendingAdds, Places
    <3>5. QED
      BY <3>1, <3>2, <3>3, <3>4
  <2>2. tickets'[q] \in Nat /\ tickets'[q] <= tickets[q] + c
    <3>1. tickets[q] \in Nat /\ tickets'[q] \in Nat
      BY DEF TypeOK
    <3>2. CASE j[2] # q
      <4>1. tickets'[q] = tickets[q]
        BY <1>1, <3>2 DEF TypeOK
      <4>2. QED
        BY <3>1, <4>1
    <3>3. CASE j[2] = q /\ j[1] = "add"
      <4>1. j = <<"add", q>>
        BY <1>2, <3>3 DEF ManagerJobs
      <4>2. tickets'[q] = tickets[q] + 1
        BY <1>1, <3>3 DEF TypeOK
      <4>3. QED
        BY <3>1, <4>1, <4>2
    <3>4. CASE j[2] = q /\ j[1] # "add"
      <4>1. tickets'[q] = WithoutOne(q)
        BY <1>1, <3>4 DEF TypeOK
      <4>2. WithoutOne(q) <= tickets[q]
        BY <3>1 DEF WithoutOne
      <4>3. QED
        BY <3>1, <4>1, <4>2
    <3>5. QED
      BY <3>2, <3>3, <3>4
  <2>3. OpenSlots(q)' = OpenSlots(q)
    BY <1>1, SameOpen
  <2>4. QED
    BY <2>1, <2>2, <2>3, Counts
<1>4. QED
  BY <1>1, <1>3, OnlyLess

LEMMA PurgeMoves ==
  ASSUME TypeOK, TypeOK', TicketInv, TickBegin \/ \E p \in Players : Purge(p)
  PROVE  TicketInv'
<1>1. UNCHANGED <<mgrJobs, starts, toServer, made, slots, outcome, settled, giving>>
  BY DEF TickBegin, Purge, clientVars, acceptVars
<1>2. \A q \in Players : tickets'[q] \in Nat /\ tickets'[q] <= tickets[q]
  <2>1. CASE TickBegin
    BY <2>1 DEF TickBegin, AfterPurge, TypeOK
  <2>2. CASE \E p \in Players : Purge(p)
    BY <2>2 DEF Purge, TypeOK
  <2>3. QED
    BY <2>1, <2>2
<1>3. \A q \in Players : PendingAdds(q)' = PendingAdds(q) /\ OpenSlots(q)' = OpenSlots(q)
  BY <1>1, SameOpen DEF PendingAdds
<1>4. ASSUME NEW q \in Players
      PROVE  /\ tickets'[q] \in Nat /\ PendingAdds(q)' \in Nat /\ OpenSlots(q)' \in Nat
             /\ tickets'[q] + PendingAdds(q)' + OpenSlots(q)'
                  <= tickets[q] + PendingAdds(q) + OpenSlots(q)
  BY <1>2, <1>3, Counts
<1>5. QED
  BY <1>1, <1>4, OnlyLess

(* A match takes as many tickets of a player as it has slots for him. *)
LEMMA FormMatchMoves ==
  ASSUME TypeOK, TypeOK', MatchesInv, TicketInv, FormMatch
  PROVE  TicketInv'
<1>1. PICK team \in [1 .. MatchSize -> Players] :
        /\ \A p \in Players : Occurrences(team, p) <= tickets[p]
        /\ slots' = [slots EXCEPT ![made + 1] = team]
        /\ tickets' = [p \in Players |-> AfterMatch(team, p)]
  BY DEF FormMatch
<1>2. /\ made' = made + 1
      /\ UNCHANGED <<mgrJobs, starts, toServer, outcome, settled, giving>>
  BY DEF FormMatch, clientVars, acceptVars
<1>3. made \in Nat /\ made + 1 \in Matches /\ \A m \in 1 .. made : m \in Matches /\ m # made + 1
  <2>1. made \in Nat /\ made < MaxMatches
    BY DEF FormMatch, TypeOK
  <2>2. QED
    BY <2>1, Bounds DEF Matches
<1>4. slots'[made + 1] = team /\ \A m \in 1 .. made : slots'[m] = slots[m]
  BY <1>1, <1>3 DEF TypeOK
<1>5. outcome[made + 1] = "open"
  BY <1>3 DEF MatchesInv, MadeInv
<1>6. ASSUME NEW q \in Players
      PROVE  /\ tickets'[q] \in Nat /\ PendingAdds(q)' \in Nat /\ OpenSlots(q)' \in Nat
             /\ tickets'[q] + PendingAdds(q)' + OpenSlots(q)'
                  <= tickets[q] + PendingAdds(q) + OpenSlots(q)
  <2> DEFINE old == OpenPlaces(q)
             P   == {i \in DOMAIN team : team[i] = q}
             new == {<<made + 1, i>> : i \in P}
             f   == [i \in P |-> <<made + 1, i>>]
  <2>1. OpenPlaces(q)' = old \cup new
    <3>1. OpenPlaces(q)' = {x \in (1 .. made + 1) \X (1 .. MatchSize) :
              /\ slots'[x[1]][x[2]] = q
              /\ \/ outcome[x[1]] = "open"
                 \/ outcome[x[1]] = "failed" /\ x[2] > DealtWith(x[1])}
      BY <1>2 DEF OpenPlaces, DealtWith
    <3>2. ASSUME NEW m \in 1 .. made + 1, NEW i \in 1 .. MatchSize
          PROVE  <<m, i>> \in OpenPlaces(q)' <=> <<m, i>> \in old \cup new
      <4>1. CASE m = made + 1
        BY <1>3, <1>4, <1>5, <3>1, <4>1 DEF OpenPlaces
      <4>2. CASE m \in 1 .. made
        BY <1>3, <1>4, <3>1, <4>2 DEF OpenPlaces
      <4>3. QED
        BY <1>3, <4>1, <4>2
    <3>3. OpenPlaces(q)' \subseteq (1 .. made + 1) \X (1 .. MatchSize)
      BY <3>1
    <3>4. old \cup new \subseteq (1 .. made + 1) \X (1 .. MatchSize)
      BY <1>3 DEF OpenPlaces
    <3>5. QED
      BY <3>2, <3>3, <3>4
  <2>2. IsFiniteSet(old) /\ OpenSlots(q) = Cardinality(old) /\ OpenSlots(q) \in Nat
    BY OpenPlacesFinite
  <2>3. IsFiniteSet(P) /\ Cardinality(P) \in Nat /\ Cardinality(P) = Occurrences(team, q)
    <3>1. IsFiniteSet(1 .. MatchSize)
      BY SizeAssumption, FS_Interval
    <3>2. P \in SUBSET (1 .. MatchSize)
      OBVIOUS
    <3>3. QED
      BY <3>1, <3>2, FS_Subset, FS_CardinalityType DEF Occurrences
  <2>4. IsFiniteSet(new) /\ Cardinality(new) = Cardinality(P)
    <3>1. f \in Bijection(P, new)
      BY DEF Bijection, Injection, IsInjective, Surjection
    <3>2. QED
      BY <2>3, <3>1, FS_Bijection DEF ExistsBijection
  <2>5. old \cap new = {}
    BY <1>3 DEF OpenPlaces
  <2>6. Cardinality(old \cup new) = Cardinality(old) + Cardinality(P)
    <3>1. Cardinality(old \cup new) =
            Cardinality(old) + Cardinality(new) - Cardinality(old \cap new)
      BY <2>2, <2>4, FS_Union
    <3>2. Cardinality(old \cap new) = 0
      BY <2>5, FS_EmptySet
    <3>3. Cardinality(old) \in Nat /\ Cardinality(new) \in Nat
      BY <2>2, <2>3, <2>4
    <3>4. QED
      BY <2>4, <3>1, <3>2, <3>3
  <2>7. OpenSlots(q)' = Cardinality(OpenPlaces(q)')
    BY DEF OpenSlots, OpenPlaces
  <2>8. OpenSlots(q)' = OpenSlots(q) + Occurrences(team, q)
    BY <2>1, <2>2, <2>3, <2>6, <2>7
  <2>9. tickets'[q] = tickets[q] - Occurrences(team, q) /\ Occurrences(team, q) <= tickets[q]
    BY <1>1 DEF AfterMatch
  <2>10. PendingAdds(q)' = PendingAdds(q)
    BY <1>2 DEF PendingAdds
  <2>11. QED
    BY <2>3, <2>8, <2>9, <2>10, Counts
<1>7. QED
  BY <1>2, <1>6, OnlyLess

(* AcceptJob closes slots, or leaves them to Resolve. *)
LEMMA AcceptJobMoves ==
  ASSUME TypeOK, TypeOK', MatchesInv, TicketInv, NEW m \in Matches, AcceptJob(m)
  PROVE  TicketInv'
<1>1. UNCHANGED <<tickets, mgrJobs, starts, toServer, made, slots, giving>>
  BY DEF AcceptJob, clientVars, managerVars
<1>2. \/ UNCHANGED <<outcome, settled>>
      \/ /\ outcome[m] = "open"
         /\ \E v \in {"go", "failed"} : outcome' = [outcome EXCEPT ![m] = v]
         /\ settled' = [settled EXCEPT ![m] = 0]
  BY DEF AcceptJob, Open, Resolve
<1>3. ASSUME NEW k \in Matches, NEW i \in 1 .. MatchSize,
             outcome'[k] = "open" \/ (outcome'[k] = "failed" /\ i > DealtWith(k)')
      PROVE  outcome[k] = "open" \/ (outcome[k] = "failed" /\ i > DealtWith(k))
  <2>1. CASE UNCHANGED <<outcome, settled>> \/ k # m
    <3>1. k # m => outcome'[k] = outcome[k] /\ settled'[k] = settled[k]
      <4>1. outcome \in [Matches -> Outcomes] /\ settled \in [Matches -> 0 .. 2 * MatchSize]
        BY DEF TypeOK
      <4>2. outcome' = outcome \/ \E v \in {"go", "failed"} : outcome' = [outcome EXCEPT ![m] = v]
        BY <1>2
      <4>3. settled' = settled \/ settled' = [settled EXCEPT ![m] = 0]
        BY <1>2
      <4>4. QED
        BY <4>1, <4>2, <4>3
    <3>2. outcome'[k] = outcome[k] /\ settled'[k] = settled[k]
      BY <2>1, <3>1
    <3>3. QED
      BY <1>1, <1>3, <3>2 DEF DealtWith
  <2>2. CASE ~UNCHANGED <<outcome, settled>> /\ k = m
    BY <1>2, <2>2
  <2>3. QED
    BY <2>1, <2>2
<1>4. ASSUME NEW q \in Players
      PROVE  /\ tickets'[q] \in Nat /\ PendingAdds(q)' \in Nat /\ OpenSlots(q)' \in Nat
             /\ tickets'[q] + PendingAdds(q)' + OpenSlots(q)'
                  <= tickets[q] + PendingAdds(q) + OpenSlots(q)
  <2>1. \A k \in 1 .. made : k \in Matches
    BY SlotPlayers DEF MatchesInv
  <2>2. OpenPlaces(q)' \in SUBSET OpenPlaces(q)
    BY <1>1, <1>3, <2>1 DEF OpenPlaces
  <2>3. IsFiniteSet(OpenPlaces(q)) /\ OpenSlots(q) = Cardinality(OpenPlaces(q))
    BY OpenPlacesFinite
  <2>4. OpenSlots(q)' = Cardinality(OpenPlaces(q)')
    BY DEF OpenSlots, OpenPlaces
  <2>5. OpenSlots(q)' <= OpenSlots(q) /\ OpenSlots(q)' \in Nat
    BY <2>2, <2>3, <2>4, FS_Subset, FS_CardinalityType
  <2>6. tickets'[q] = tickets[q] /\ PendingAdds(q)' = PendingAdds(q)
    BY <1>1 DEF PendingAdds
  <2>7. QED
    BY <2>5, <2>6, Counts
<1>5. QED
  BY <1>1, <1>4, OnlyLess

(* Resolve closes the slot of one player and may post his ticket. *)
LEMMA SlotClosed ==
  ASSUME TypeOK, TypeOK', MatchesInv, TicketInv, NEW m \in Matches,
         outcome[m] = "failed", settled[m] < MatchSize, giving[m] = "no",
         UNCHANGED <<tickets, starts, toServer, made, slots, outcome>>,
         DealtWith(m)' = settled[m] + 1,
         \A k \in Matches : k # m => DealtWith(k)' = DealtWith(k),
         mgrJobs' = mgrJobs \/ Post(<<"add", Current(m)>>)
  PROVE  TicketInv'
<1> DEFINE i == settled[m] + 1
           p == slots[m][i]
<1>3. i \in 1 .. MatchSize /\ settled[m] \in Nat /\ DealtWith(m) = settled[m]
  <2>1. settled[m] \in 0 .. 2 * MatchSize
    BY DEF TypeOK
  <2>2. settled[m] \in Nat /\ MatchSize \in Nat
    BY <2>1, SizeAssumption
  <2>3. DealtWith(m) = settled[m]
    BY <2>2 DEF DealtWith
  <2>4. QED
    BY <2>2, <2>3
<1>4. m \in 1 .. made /\ \A k \in 1 .. made : k \in Matches
  <2>1. m <= made
    BY DEF MatchesInv, MadeInv
  <2>2. m \in 1 .. made
    BY <2>1 DEF Matches, TypeOK
  <2>3. QED
    BY <2>2, SlotPlayers DEF MatchesInv
<1>5. p \in Players
  BY <1>3, <1>4, SlotPlayers DEF MatchesInv
<1>6. ASSUME NEW q \in Players
      PROVE  /\ tickets'[q] \in Nat /\ PendingAdds(q)' \in Nat /\ OpenSlots(q)' \in Nat
             /\ tickets'[q] + PendingAdds(q)' + OpenSlots(q)'
                  <= tickets[q] + PendingAdds(q) + OpenSlots(q)
  <2>1. OpenPlaces(q)' = OpenPlaces(q) \ {<<m, i>>}
    <3>1. ASSUME NEW k \in 1 .. made, NEW j \in 1 .. MatchSize
          PROVE  <<k, j>> \in OpenPlaces(q)' <=> <<k, j>> \in OpenPlaces(q) /\ <<k, j>> # <<m, i>>
      <4>1. CASE k = m
        BY <1>3, <4>1 DEF OpenPlaces
      <4>2. CASE k # m
        BY <1>4, <4>2 DEF OpenPlaces
      <4>3. QED
        BY <4>1, <4>2
    <3>2. /\ OpenPlaces(q)' \subseteq (1 .. made) \X (1 .. MatchSize)
          /\ OpenPlaces(q) \subseteq (1 .. made) \X (1 .. MatchSize)
      BY DEF OpenPlaces
    <3>3. QED
      BY <3>1, <3>2
  <2>2. IsFiniteSet(OpenPlaces(q)) /\ OpenSlots(q) = Cardinality(OpenPlaces(q))
        /\ OpenSlots(q) \in Nat
    BY OpenPlacesFinite
  <2>3. OpenSlots(q)' = Cardinality(OpenPlaces(q)')
    BY DEF OpenSlots, OpenPlaces
  <2>4. q = p <=> <<m, i>> \in OpenPlaces(q)
    BY <1>3, <1>4 DEF OpenPlaces
  <2>5. OpenSlots(q)' \in Nat
    <3>1. IsFiniteSet(OpenPlaces(q) \ {<<m, i>>})
      BY <2>2, FS_RemoveElement
    <3>2. IsFiniteSet(OpenPlaces(q)')
      BY <2>1, <3>1
    <3>3. Cardinality(OpenPlaces(q)') \in Nat
      BY <3>2, FS_CardinalityType
    <3>4. QED
      BY <2>3, <3>3
  <2>6. OpenSlots(q)' = OpenSlots(q) - (IF q = p THEN 1 ELSE 0)
    <3>1. Cardinality(OpenPlaces(q) \ {<<m, i>>}) =
            IF <<m, i>> \in OpenPlaces(q) THEN Cardinality(OpenPlaces(q)) - 1
            ELSE Cardinality(OpenPlaces(q))
      BY <2>2, FS_RemoveElement
    <3>2. QED
      BY <2>1, <2>2, <2>3, <2>4, <3>1
  <2>7. PendingAdds(q)' = PendingAdds(q)
          \/ PendingAdds(q)' = PendingAdds(q) + (IF q = p THEN 1 ELSE 0)
    <3>1. CASE mgrJobs' = mgrJobs
      BY <3>1 DEF PendingAdds
    <3>2. CASE Post(<<"add", p>>)
      BY <1>5, <3>2, PostCounts
    <3>3. QED
      BY <3>1, <3>2 DEF Current
  <2>8. QED
    BY <2>5, <2>6, <2>7, Counts
<1>7. QED
  BY <1>6, OnlyLess

LEMMA DisbandMoves ==
  ASSUME TypeOK, TypeOK', MatchesInv, TicketInv, NEW m \in Matches, Disband(m)
  PROVE  TicketInv'
<1>1. /\ outcome[m] = "failed" /\ settled[m] < MatchSize /\ giving[m] = "no"
      /\ settled' = [settled EXCEPT ![m] = @ + 1]
      /\ UNCHANGED <<tickets, starts, toServer, made, slots, outcome, giving, mgrJobs>>
  BY DEF Disband, clientVars, managerVars, Resolving, ResolveSteps
<1>2. settled[m] + 1 \in Nat /\ DealtWith(m)' = settled[m] + 1
  BY <1>1 DEF TypeOK, DealtWith
<1>3. \A k \in Matches : k # m => DealtWith(k)' = DealtWith(k)
  BY <1>1 DEF TypeOK, DealtWith
<1>4. QED
  BY <1>1, <1>2, <1>3, SlotClosed

LEMMA GiveBackMoves ==
  ASSUME TypeOK, TypeOK', MatchesInv, TicketInv, NEW m \in Matches, GiveBack(m)
  PROVE  TicketInv'
<1>1. /\ outcome[m] = "failed" /\ settled[m] < MatchSize /\ giving[m] = "no"
      /\ giving' = [giving EXCEPT ![m] = "flag"] /\ Post(<<"add", Current(m)>>)
      /\ UNCHANGED <<tickets, starts, toServer, made, slots, outcome, settled>>
  BY DEF GiveBack, clientVars, managerVars, Resolving, ResolveSteps
<1>2. DealtWith(m)' = settled[m] + 1
  BY <1>1 DEF TypeOK, DealtWith
<1>3. \A k \in Matches : k # m => DealtWith(k)' = DealtWith(k)
  BY <1>1 DEF TypeOK, DealtWith
<1>4. QED
  BY <1>1, <1>2, <1>3, SlotClosed

(* The other steps of Resolve open and close no slot. *)
LEMMA ResolveMoves ==
  ASSUME TypeOK, TypeOK', MatchesInv, GivingInv, TicketInv, NEW m \in Matches,
         GiveBackFlag(m) \/ GiveBackReply(m) \/ ReleaseRef(m) \/ EnterChampSelect(m)
  PROVE  TicketInv'
<1>1. UNCHANGED <<tickets, mgrJobs, starts, toServer, made, slots, outcome>>
  BY DEF GiveBackFlag, GiveBackReply, ReleaseRef, EnterChampSelect, clientVars, managerVars
<1>2. \A k \in Matches : outcome[k] = "go" \/ DealtWith(k)' = DealtWith(k)
  <2>1. CASE GiveBackFlag(m)
    BY <2>1 DEF GiveBackFlag, DealtWith, TypeOK
  <2>2. CASE GiveBackReply(m)
    BY <2>2 DEF GiveBackReply, DealtWith, TypeOK
  <2>3. CASE ReleaseRef(m) \/ EnterChampSelect(m)
    BY <2>3 DEF ReleaseRef, EnterChampSelect, DealtWith, TypeOK
  <2>4. QED
    BY <2>1, <2>2, <2>3
<1>3. \A q \in Players : OpenSlots(q)' = OpenSlots(q) /\ PendingAdds(q)' = PendingAdds(q)
  <2>1. \A q \in Players : OpenPlaces(q)' = OpenPlaces(q)
    <3>1. \A k \in 1 .. made : k \in Matches
      BY SlotPlayers DEF MatchesInv
    <3>2. QED
      BY <1>1, <1>2, <3>1 DEF OpenPlaces
  <2>2. \A q \in Players : /\ OpenSlots(q)' = Cardinality(OpenPlaces(q)')
                          /\ OpenSlots(q) = Cardinality(OpenPlaces(q))
    BY DEF OpenSlots, OpenPlaces
  <2>3. \A q \in Players : PendingAdds(q)' = PendingAdds(q)
    BY <1>1 DEF PendingAdds
  <2>4. QED
    BY <2>1, <2>2, <2>3
<1>4. ASSUME NEW q \in Players
      PROVE  /\ tickets'[q] \in Nat /\ PendingAdds(q)' \in Nat /\ OpenSlots(q)' \in Nat
             /\ tickets'[q] + PendingAdds(q)' + OpenSlots(q)'
                  <= tickets[q] + PendingAdds(q) + OpenSlots(q)
  BY <1>1, <1>3, Counts
<1>5. QED
  BY <1>1, <1>4, OnlyLess

LEMMA InitTickets == Init => TicketInv
<1> SUFFICES ASSUME Init, NEW p \in Players PROVE Moved(p) <= starts[p]
  BY DEF TicketInv
<1>1. TypeOK
  BY InitIInv DEF IInv
<1>2. starts[p] = 0 /\ tickets[p] = 0 /\ made = 0
  BY DEF Init
<1>3. Places(<<>>, "start") = {} /\ Places(<<>>, <<"add", p>>) = {}
  BY DEF Places
<1>4. PendingAdds(p) = 0 /\ PendingStarts(p) = 0
  BY <1>1, <1>3, PendingTypes, FS_EmptySet DEF Init
<1>5. OpenPlaces(p) = {}
  BY <1>2 DEF OpenPlaces
<1>6. OpenSlots(p) = 0
  BY <1>1, <1>5, OpenPlacesFinite, FS_EmptySet
<1>7. QED
  BY <1>2, <1>4, <1>6 DEF Moved

LEMMA StepTickets ==
  ASSUME IInv, TicketInv, IInv', [Next]_vars
  PROVE  TicketInv'
<1> USE DEF IInv
<1>1. ASSUME NEW p \in Players, User(p) PROVE TicketInv'
  <2>1. CASE OpenMenu(p) \/ LeaveMenu(p)
    BY <2>1, NothingMoves DEF OpenMenu, LeaveMenu, managerVars, acceptVars
  <2>2. CASE ChooseStart(p)
    BY <2>2, CommandSent DEF ChooseStart, Commands, managerVars, acceptVars
  <2>3. CASE ChooseCancel(p)
    BY <2>3, CommandSent DEF ChooseCancel, Commands, managerVars, acceptVars
  <2>4. CASE ChooseAnswer(p)
    <3>1. PICK c \in {"accept", "decline"} : SendCommand(p, c)
      BY <2>4 DEF ChooseAnswer
    <3>2. UNCHANGED <<tickets, mgrJobs, made, slots, outcome, settled, giving, starts>>
      BY <2>4 DEF ChooseAnswer, managerVars, acceptVars
    <3>3. QED
      BY <3>1, <3>2, CommandSent DEF Commands
  <2>5. QED
    BY <1>1, <2>1, <2>2, <2>3, <2>4 DEF User
<1>2. ASSUME NEW p \in Players, Handler(p) PROVE TicketInv'
  <2>1. CASE HandleStart(p)
    BY <2>1, CommandTaken DEF HandleStart, Commands, clientVars, managerVars, acceptVars
  <2>2. CASE HandleCancel(p)
    BY <2>2, CommandTaken DEF HandleCancel, Commands, clientVars, managerVars, acceptVars
  <2>3. CASE HandleAnswer(p)
    <3>1. PICK c \in {"accept", "decline"} : NextCommand(p, c)
      BY <2>3 DEF HandleAnswer
    <3>2. UNCHANGED <<tickets, mgrJobs, made, slots, outcome, settled, giving, starts>>
      BY <2>3 DEF HandleAnswer, clientVars, managerVars, acceptVars
    <3>3. QED
      BY <3>1, <3>2, CommandTaken DEF Commands
  <2>4. CASE HandlerFlag(p) \/ HandlerReply(p)
    BY <2>4, NothingMoves DEF HandlerFlag, HandlerReply, clientVars, managerVars, acceptVars
  <2>5. CASE RefuseStart(p)
    BY <2>5, CommandTaken DEF RefuseStart, Commands, clientVars, managerVars, acceptVars
  <2>6. QED
    BY <1>2, <2>1, <2>2, <2>3, <2>4, <2>5 DEF Handler
<1>3. ASSUME NEW p \in Players, OnDisconnected(p) PROVE TicketInv'
  <2>1. UNCHANGED <<tickets, made, slots, outcome, settled, giving, starts, toServer>>
    BY <1>3 DEF OnDisconnected, clientVars, managerVars, acceptVars
  <2>2. mgrJobs' = mgrJobs \/ Post(<<"remove", p>>)
    BY <1>3 DEF OnDisconnected
  <2>3. ASSUME NEW q \in Players
        PROVE  /\ tickets'[q] \in Nat /\ PendingAdds(q)' \in Nat /\ OpenSlots(q)' \in Nat
               /\ tickets'[q] + PendingAdds(q)' + OpenSlots(q)'
                    <= tickets[q] + PendingAdds(q) + OpenSlots(q)
    <3>1. CASE mgrJobs' = mgrJobs
      <4>1. PendingAdds(q)' = PendingAdds(q)
        BY <3>1 DEF PendingAdds
      <4>2. OpenSlots(q)' = OpenSlots(q)
        BY <2>1, SameOpen
      <4>3. QED
        BY <2>1, <4>1, <4>2, Counts
    <3>2. CASE Post(<<"remove", p>>)
      <4>1. PendingAdds(q)' = PendingAdds(q) + 0
        BY <3>2, PostCounts
      <4>2. QED
        BY <2>1, <4>1, SameOpen, Counts
    <3>3. QED
      BY <2>2, <3>1, <3>2
  <2>4. QED
    BY <2>1, <2>3, OnlyLess
<1>4. ASSUME NEW p \in Players, ClientReceive(p) \/ SessionDestroyed(p) PROVE TicketInv'
  BY <1>4, NothingMoves DEF ClientReceive, SessionDestroyed, clientVars, managerVars, acceptVars
<1>5. ASSUME Manager PROVE TicketInv'
  <2>1. CASE TickEnd
    BY <2>1, NothingMoves DEF TickEnd, clientVars, acceptVars
  <2>2. QED
    BY <1>5, <2>1, ManagerJobMoves, PurgeMoves, FormMatchMoves DEF Manager
<1>6. ASSUME NEW m \in Matches, Start(m) \/ TimerFires(m) PROVE TicketInv'
  BY <1>6, NothingMoves DEF Start, StartNotify, StartTimer, TimerFires, clientVars, managerVars
<1>7. ASSUME NEW m \in Matches, Session(m) PROVE TicketInv'
  BY <1>7, AcceptJobMoves, DisbandMoves, GiveBackMoves, ResolveMoves DEF Session
<1>8. CASE UNCHANGED vars
  BY <1>8, NothingMoves DEF vars
<1>9. QED
  BY <1>1, <1>2, <1>3, <1>4, <1>5, <1>6, <1>7, <1>8 DEF Next

(* MatchmakingManager.cpp:158-182, 281-292, MatchAcceptSession.cpp:157: a  *)
(* ticket is moved, never copied, for any number of players, matches and   *)
(* commands and any interleaving of cancels, requeues and disconnects.     *)
THEOREM TicketsConserved == Spec => []NoTicketForged
<1>1. Init => IInv /\ TicketInv
  BY InitIInv, InitTickets
<1>2. (IInv /\ TicketInv) /\ [Next]_vars => (IInv /\ TicketInv)'
  BY StepIInv, StepTickets
<1>3. IInv /\ TicketInv => NoTicketForged
  BY Balance DEF IInv, TicketInv
<1>4. QED
  BY <1>1, <1>2, <1>3, PTL DEF Spec
=============================================================================
