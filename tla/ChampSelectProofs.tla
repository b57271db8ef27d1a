------------------------- MODULE ChampSelectProofs -------------------------
(***************************************************************************)
(* The safety of ChampSelect for any number of participants, champions and *)
(* tries.  One inductive invariant carries all of it: the types, where the *)
(* running job is, and how far Start must be for anybody to have picked.   *)
(***************************************************************************)
EXTENDS ChampSelect, TLAPS

(* The job that runs is a pick of a participant, stored before it is       *)
(* broadcast.                                                              *)
JobInv ==
  /\ phase # "idle" => job \in Players \X Champions
  /\ phase \in {"update", "gameStart"} => at >= 1 /\ picked[job[1]] = job[2]

(* Only participants Start has gone through hold a reference, so only they *)
(* can have picked.                                                        *)
TurnInv ==
  /\ \A p \in Players : ref[p] \/ picked[p] # Unset => p <= told
  /\ \A i \in DOMAIN jobs : jobs[i][1] <= told
  /\ phase # "idle" => job[1] <= told

(* The game starts in the job of the last pick and in no other.            *)
BegunInv ==
  /\ phase = "update" => \A p \in Players : begun[p] = 0
  /\ phase = "gameStart" => /\ AllPicked
                            /\ \A p \in Players : p >= at => begun[p] = 0
  /\ \A p \in Players : begun[p] <= 1
  /\ \A p \in Players : begun[p] = 1 => AllPicked /\ ~ref[p]

IInv ==
  TypeOK /\ JobInv /\ TurnInv /\ BegunInv /\ ChampionsDistinct /\ UpdatesStand

(* Nothing has been sent or picked before Start. *)
LEMMA InitIInv == Init => IInv
<1> SUFFICES ASSUME Init PROVE IInv
  OBVIOUS
<1> USE CountAssumption, ChampionsAssumption, BoundAssumption
<1>1. TypeOK
  <2>1. <<>> \in Seq(Champions) /\ <<>> \in Seq(Packets)
          /\ <<>> \in Seq(Players \X Champions)
    OBVIOUS
  <2>2. job \in (Players \cup {Nobody}) \X Pick /\ Unset \in Pick
    BY DEF Init, Nobody, Unset, Pick
  <2>3. at \in 0 .. N + 1 /\ told \in 0 .. N
    BY DEF Init, Nobody
  <2>4. tries \in [Players -> 0 .. MaxTries]
    BY DEF Init
  <2>5. QED
    BY <2>1, <2>2, <2>3, <2>4 DEF Init, TypeOK
<1>2. JobInv /\ BegunInv /\ ChampionsDistinct
  BY DEF Init, JobInv, BegunInv, ChampionsDistinct, Unset
<1>3. TurnInv
  BY DEF Init, TurnInv, Unset
<1>4. UpdatesStand
  <2>1. \A p \in Players : DOMAIN toClient[p] = {}
    BY DEF Init
  <2>2. QED
    BY <2>1 DEF UpdatesStand, Said
<1>5. QED
  BY <1>1, <1>2, <1>3, <1>4 DEF IInv

(* What Send does to the channels, and that it only sends packets. *)
LEMMA SendType ==
  ASSUME toClient \in [Players -> Seq(Packets)], NEW p \in Players,
         NEW k \in Packets, Send(p, k)
  PROVE  toClient' \in [Players -> Seq(Packets)]
<1>1. \A s \in Seq(Packets) : Append(s, k) \in Seq(Packets)
  OBVIOUS
<1>2. QED
  BY <1>1 DEF Send

LEMMA PacketKinds ==
  /\ <<"start">> \in Packets /\ <<"failed">> \in Packets
  /\ <<"gameStart">> \in Packets
  /\ \A p \in Players, c \in Champions : <<"update", p, c>> \in Packets
<1>1. \A p \in Players, c \in Champions :
        <<"update", p, c>> \in {"update"} \X Players \X Champions
  OBVIOUS
<1>2. QED
  BY <1>1, Zenon DEF Packets

LEMMA StepTypeOK == IInv /\ [Next]_vars => TypeOK'
<1> SUFFICES ASSUME IInv, [Next]_vars PROVE TypeOK'
  OBVIOUS
<1> USE CountAssumption, ChampionsAssumption, BoundAssumption DEF IInv, TypeOK
<1>1. ASSUME NEW p \in Players, ChoosePick(p) PROVE TypeOK'
  <2>1. \A s \in Seq(Champions), c \in Champions : Append(s, c) \in Seq(Champions)
    OBVIOUS
  <2>2. toServer' \in [Players -> Seq(Champions)]
    BY <1>1, <2>1 DEF ChoosePick, TypedIds
  <2>3. tries' \in [Players -> 0 .. MaxTries]
    BY <1>1 DEF ChoosePick
  <2>4. QED
    BY <1>1, <2>2, <2>3 DEF ChoosePick, jobVars
<1>2. ASSUME NEW p \in Players, ShowWaiting(p) PROVE TypeOK'
  BY <1>2 DEF ShowWaiting, jobVars
<1>3. ASSUME NEW p \in Players, ClientReceive(p) PROVE TypeOK'
  <2>1. toClient' \in [Players -> Seq(Packets)]
    BY <1>3 DEF ClientReceive
  <2>2. Head(toClient[p]) \in Packets
    BY <1>3 DEF ClientReceive
  <2>3. Head(toClient[p])[1] \in {"start", "failed", "update", "gameStart"}
    <3>1. \A k \in {"update"} \X Players \X Champions : k[1] = "update"
      OBVIOUS
    <3>2. QED
      BY <2>2, <3>1 DEF Packets
  <2>4. client' \in [Players -> {"waiting", "champSelect", "picked", "started"}]
    BY <1>3, <2>3 DEF ClientReceive
  <2>5. answer' \in [Players -> {"none", "failed", "done"}]
    BY <1>3 DEF ClientReceive
  <2>6. QED
    BY <1>3, <2>1, <2>4, <2>5 DEF ClientReceive, jobVars
<1>4. ASSUME NEW p \in Players, HandlePick(p) PROVE TypeOK'
  BY <1>4, SMTT(40) DEF HandlePick, clientVars, jobVars
<1>5. ASSUME NEW p \in Players, Disconnect(p) PROVE TypeOK'
  BY <1>5 DEF Disconnect, clientVars, jobVars
<1>6. ASSUME NEW p \in Players, SessionDestroyed(p) PROVE TypeOK'
  BY <1>6 DEF SessionDestroyed, clientVars, jobVars
<1>7. CASE StartNext
  <2>1. told + 1 \in Players
    BY <1>7 DEF StartNext, Players
  <2>2. toClient' \in [Players -> Seq(Packets)]
    BY <1>7, <2>1, SendType, PacketKinds DEF StartNext
  <2>3. ref' \in [Players -> BOOLEAN]
    BY <1>7 DEF StartNext
  <2>4. QED
    BY <1>7, <2>2, <2>3 DEF StartNext, clientVars, jobVars
<1>8. CASE ResolveReturns
  BY <1>8 DEF ResolveReturns, clientVars, jobVars
<1>9. CASE BeginJob
  <2>1. job' \in Players \X Champions /\ jobs' \in Seq(Players \X Champions)
    <3>1. \A s \in Seq(Players \X Champions) :
            s # <<>> => Head(s) \in Players \X Champions
                        /\ Tail(s) \in Seq(Players \X Champions)
      OBVIOUS
    <3>2. QED
      BY <1>9, <3>1 DEF BeginJob
  <2>2. job' \in (Players \cup {Nobody}) \X Pick
    BY <2>1 DEF Pick
  <2>3. QED
    BY <1>9, <2>1, <2>2 DEF BeginJob, clientVars
<1>10. CASE PickFails
  <2>1. job[1] \in Players
    BY <1>10 DEF PickFails, JobInv
  <2>2. toClient' \in [Players -> Seq(Packets)]
    BY <1>10, <2>1, SendType, PacketKinds DEF PickFails
  <2>3. QED
    BY <1>10, <2>2 DEF PickFails, EndJob, clientVars, Nobody, Unset, Pick
<1>11. CASE PickSucceeds
  <2>1. job \in Players \X Champions
    BY <1>11 DEF PickSucceeds, JobInv
  <2>2. QED
    BY <1>11, <2>1 DEF PickSucceeds, clientVars, Pick
<1>12. CASE BroadcastUpdate
  <2>1. at \in Players /\ job \in Players \X Champions
    BY <1>12 DEF BroadcastUpdate, JobInv, Players
  <2>2. toClient' \in [Players -> Seq(Packets)]
    <3>1. <<"update", job[1], job[2]>> \in Packets
      BY <2>1, PacketKinds
    <3>2. QED
      BY <1>12, <2>1, <3>1, SendType DEF BroadcastUpdate
  <2>3. at' \in 0 .. N + 1
    BY <1>12 DEF BroadcastUpdate
  <2>4. QED
    BY <1>12, <2>2, <2>3 DEF BroadcastUpdate, clientVars
<1>13. CASE CheckAllPicked
  BY <1>13 DEF CheckAllPicked, EndJob, clientVars, Nobody, Unset, Pick
<1>14. CASE StartGame
  <2>1. at \in Players
    BY <1>14 DEF StartGame, JobInv, Players
  <2>2. toClient' \in [Players -> Seq(Packets)]
    BY <1>14, <2>1, SendType, PacketKinds DEF StartGame
  <2>3. at' \in 0 .. N + 1
    BY <1>14 DEF StartGame
  <2>4. ref' \in [Players -> BOOLEAN]
    BY <1>14 DEF StartGame
  <2>5. begun' \in [Players -> Nat]
    <3>1. CASE Gone(at)
      BY <1>14, <3>1 DEF StartGame
    <3>2. CASE ~Gone(at)
      <4>1. begun' = begun \/ begun' = [begun EXCEPT ![at] = @ + 1]
        BY <1>14 DEF StartGame
      <4>2. begun[at] + 1 \in Nat
        BY <2>1
      <4>3. QED
        BY <4>1, <4>2
    <3>3. QED
      BY <3>1, <3>2
  <2>6. QED
    BY <1>14, <2>2, <2>3, <2>4, <2>5 DEF StartGame, clientVars
<1>15. CASE GameStarted
  BY <1>15 DEF GameStarted, EndJob, clientVars, Nobody, Unset, Pick
<1>16. CASE UNCHANGED vars
  BY <1>16 DEF vars
<1>17. QED
  BY <1>1, <1>2, <1>3, <1>4, <1>5, <1>6, <1>7, <1>8, <1>9, <1>10, <1>11,
     <1>12, <1>13, <1>14, <1>15, <1>16
  DEF Next, Client, Session

-----------------------------------------------------------------------------
(* The job and what it stored change together. *)
LEMMA StepJobInv == IInv /\ [Next]_vars => JobInv'
<1> SUFFICES ASSUME IInv, [Next]_vars PROVE JobInv'
  OBVIOUS
<1> USE CountAssumption DEF IInv, JobInv
<1>1. CASE UNCHANGED <<phase, at, job, picked>>
  BY <1>1
<1>2. CASE BeginJob
  <2>1. \A s \in Seq(Players \X Champions) :
          s # <<>> => Head(s) \in Players \X Champions
    OBVIOUS
  <2>2. QED
    BY <1>2, <2>1 DEF BeginJob, TypeOK
<1>3. CASE PickFails \/ GameStarted
  BY <1>3 DEF PickFails, GameStarted, EndJob
<1>4. CASE PickSucceeds
  <2>1. job[1] \in Players /\ job' = job
    BY <1>4 DEF PickSucceeds
  <2>2. picked'[job[1]] = job[2]
    BY <1>4, <2>1 DEF PickSucceeds, TypeOK
  <2>3. QED
    BY <1>4, <2>1, <2>2 DEF PickSucceeds
<1>5. CASE BroadcastUpdate \/ StartGame
  BY <1>5 DEF BroadcastUpdate, StartGame, TypeOK
<1>6. CASE CheckAllPicked
  BY <1>6 DEF CheckAllPicked, EndJob
<1>7. QED
  BY <1>1, <1>2, <1>3, <1>4, <1>5, <1>6
  DEF Next, Client, Session, vars, jobVars, ChoosePick, ShowWaiting,
      ClientReceive, HandlePick, Disconnect, SessionDestroyed, StartNext,
      ResolveReturns

(* HandlePick is the only way into the job queue, and it asks for the      *)
(* reference that Start gives.                                             *)
LEMMA StepTurnInv == IInv /\ [Next]_vars => TurnInv'
<1> SUFFICES ASSUME IInv, [Next]_vars PROVE TurnInv'
  OBVIOUS
<1> USE CountAssumption DEF IInv, TurnInv
<1>1. CASE UNCHANGED <<ref, told, jobs, phase, job, picked>>
  BY <1>1
<1>2. ASSUME NEW p \in Players, HandlePick(p) PROVE TurnInv'
  <2>1. CASE jobs' = jobs
    BY <1>2, <2>1 DEF HandlePick, jobVars
  <2>2. CASE ref[p] /\ jobs' = Append(jobs, <<p, Head(toServer[p])>>)
    <3>1. p <= told
      BY <2>2
    <3>2. \A i \in DOMAIN jobs' :
            jobs'[i] = IF i \in DOMAIN jobs THEN jobs[i]
                       ELSE <<p, Head(toServer[p])>>
      <4>1. \A s \in Seq(Players \X Champions), e \in Players \X Champions :
              \A i \in DOMAIN Append(s, e) :
                Append(s, e)[i] = IF i \in DOMAIN s THEN s[i] ELSE e
        OBVIOUS
      <4>2. jobs \in Seq(Players \X Champions)
            /\ <<p, Head(toServer[p])>> \in Players \X Champions
        BY <1>2 DEF HandlePick, TypeOK
      <4>3. QED
        BY <2>2, <4>1, <4>2
    <3>3. \A i \in DOMAIN jobs' : jobs'[i][1] <= told
      BY <3>1, <3>2
    <3>4. QED
      BY <1>2, <3>3 DEF HandlePick, jobVars
  <2>3. QED
    BY <1>2, <2>1, <2>2 DEF HandlePick
<1>3. CASE StartNext
  <2>1. told' = told + 1 /\ told \in Nat /\ UNCHANGED <<jobs, phase, job, picked>>
    BY <1>3 DEF StartNext, jobVars, TypeOK
  <2>2. \A p \in Players : ref'[p] => ref[p] \/ p = told + 1
    BY <1>3 DEF StartNext, TypeOK
  <2>3. \A p \in Players : ref'[p] \/ picked'[p] # Unset => p <= told'
    BY <2>1, <2>2 DEF Players
  <2>4. \A i \in DOMAIN jobs : jobs[i][1] \in Nat
    BY DEF TypeOK, Players
  <2>5. \A i \in DOMAIN jobs' : jobs'[i][1] <= told'
    BY <2>1, <2>4
  <2>6. phase # "idle" => job[1] \in Nat
    BY DEF JobInv, Players
  <2>7. phase' # "idle" => job'[1] <= told'
    BY <2>1, <2>6
  <2>8. QED
    BY <2>3, <2>5, <2>7
<1>4. CASE BeginJob
  <2>1. \A s \in Seq(Players \X Champions) : s # <<>> =>
          /\ 1 \in DOMAIN s /\ Head(s) = s[1]
          /\ \A i \in DOMAIN Tail(s) : i + 1 \in DOMAIN s /\ Tail(s)[i] = s[i + 1]
    OBVIOUS
  <2>2. /\ 1 \in DOMAIN jobs /\ job' = jobs[1]
        /\ \A i \in DOMAIN jobs' : i + 1 \in DOMAIN jobs /\ jobs'[i] = jobs[i + 1]
    BY <1>4, <2>1 DEF BeginJob, TypeOK
  <2>3. QED
    BY <1>4, <2>2 DEF BeginJob
<1>5. CASE PickFails \/ CheckAllPicked \/ GameStarted
  BY <1>5 DEF PickFails, CheckAllPicked, GameStarted, EndJob
<1>6. CASE PickSucceeds
  <2>1. \A p \in Players : picked'[p] # Unset => picked[p] # Unset \/ p = job[1]
    BY <1>6 DEF PickSucceeds, TypeOK
  <2>2. QED
    BY <1>6, <2>1 DEF PickSucceeds
<1>7. CASE BroadcastUpdate
  BY <1>7 DEF BroadcastUpdate
<1>8. CASE StartGame
  <2>1. \A p \in Players : ref'[p] => ref[p]
    BY <1>8 DEF StartGame, TypeOK
  <2>2. QED
    BY <1>8, <2>1 DEF StartGame
<1>9. QED
  BY <1>1, <1>2, <1>3, <1>4, <1>5, <1>6, <1>7, <1>8
  DEF Next, Client, Session, vars, jobVars, ChoosePick, ShowWaiting,
      ClientReceive, Disconnect, SessionDestroyed, ResolveReturns

-----------------------------------------------------------------------------
(* One step stores one pick, and one nobody has. *)
LEMMA StepChampionsDistinct == IInv /\ [Next]_vars => ChampionsDistinct'
<1> SUFFICES ASSUME IInv, [Next]_vars PROVE ChampionsDistinct'
  OBVIOUS
<1> USE DEF IInv, ChampionsDistinct
<1>1. CASE UNCHANGED picked
  BY <1>1
<1>2. CASE PickSucceeds
  <2>1. \A q \in Players : picked'[q] = IF q = job[1] THEN job[2] ELSE picked[q]
    BY <1>2 DEF PickSucceeds, TypeOK
  <2>2. \A q \in Players : picked[q] # job[2]
    BY <1>2 DEF PickSucceeds, IsChampionTaken
  <2>3. QED
    BY <2>1, <2>2
<1>3. QED
  BY <1>1, <1>2
  DEF Next, Client, Session, vars, jobVars, ChoosePick, ShowWaiting,
      ClientReceive, HandlePick, Disconnect, SessionDestroyed, StartNext,
      ResolveReturns, BeginJob, PickFails, BroadcastUpdate, CheckAllPicked,
      StartGame, GameStarted

(* A pick never changes once made: HasPicked refuses a second one. *)
LEMMA PickStands ==
  IInv /\ [Next]_vars =>
    \A p \in Players : picked[p] # Unset => picked'[p] = picked[p]
<1> SUFFICES ASSUME IInv, [Next]_vars, NEW p \in Players, picked[p] # Unset
             PROVE  picked'[p] = picked[p]
  OBVIOUS
<1>1. CASE UNCHANGED picked
  BY <1>1
<1>2. CASE PickSucceeds
  BY <1>2 DEF PickSucceeds, HasPicked, IInv, TypeOK
<1>3. QED
  BY <1>1, <1>2
  DEF Next, Client, Session, vars, jobVars, ChoosePick, ShowWaiting,
      ClientReceive, HandlePick, Disconnect, SessionDestroyed, StartNext,
      ResolveReturns, BeginJob, PickFails, BroadcastUpdate, CheckAllPicked,
      StartGame, GameStarted

(* The game starts in the job of the last pick: afterwards everybody has   *)
(* picked, so no job reaches "update" again.                               *)
LEMMA StepBegunInv == IInv /\ [Next]_vars => BegunInv'
<1> SUFFICES ASSUME IInv, [Next]_vars PROVE BegunInv'
  OBVIOUS
<1> USE CountAssumption DEF IInv, BegunInv
<1>1. AllPicked => AllPicked'
  BY PickStands DEF AllPicked, HasPicked
<1>2. CASE UNCHANGED <<phase, at, begun, ref>>
  BY <1>1, <1>2
<1>3. CASE StartNext
  <2>1. UNCHANGED <<phase, at, begun, picked>> /\ told + 1 \in Players
        /\ told + 1 > told
    BY <1>3 DEF StartNext, jobVars, TypeOK, Players
  <2>2. ~AllPicked
    <3>1. ~(told + 1 <= told)
      BY DEF TypeOK
    <3>2. picked[told + 1] = Unset
      BY <2>1, <3>1 DEF TurnInv
    <3>3. QED
      BY <2>1, <3>2 DEF AllPicked, HasPicked
  <2>3. QED
    BY <2>1, <2>2
<1>4. CASE BeginJob \/ PickFails \/ GameStarted
  BY <1>1, <1>4 DEF BeginJob, PickFails, GameStarted, EndJob
<1>5. CASE PickSucceeds
  <2>1. \A p \in Players : begun[p] = 0
    <3>1. ~AllPicked
      BY <1>5 DEF PickSucceeds, AllPicked, JobInv
    <3>2. \A p \in Players : begun[p] \in Nat
      BY DEF TypeOK
    <3>3. QED
      BY <3>1, <3>2
  <2>2. QED
    BY <1>5, <2>1 DEF PickSucceeds
<1>6. CASE BroadcastUpdate
  BY <1>1, <1>6 DEF BroadcastUpdate
<1>7. CASE CheckAllPicked
  BY <1>1, <1>7 DEF CheckAllPicked, EndJob
<1>8. CASE StartGame
  <2>1. at \in Players /\ phase = "gameStart" /\ phase' = phase
        /\ at' = at + 1 /\ AllPicked
    BY <1>8 DEF StartGame, TypeOK, JobInv, Players
  <2>2. begun[at] = 0
    BY <2>1 DEF Players
  <2>3. \A p \in Players : \/ begun'[p] = begun[p] /\ ref'[p] = ref[p]
                           \/ p = at /\ begun'[p] = 1 /\ ref'[p] = FALSE
    BY <1>8, <2>1, <2>2 DEF StartGame, TypeOK
  <2>4. \A p \in Players : p >= at' => begun'[p] = 0
    BY <2>1, <2>3 DEF Players
  <2>5. QED
    BY <1>1, <2>1, <2>3, <2>4
<1>9. QED
  BY <1>2, <1>3, <1>4, <1>5, <1>6, <1>7, <1>8
  DEF Next, Client, Session, vars, jobVars, ChoosePick, ShowWaiting,
      ClientReceive, HandlePick, Disconnect, SessionDestroyed, ResolveReturns

-----------------------------------------------------------------------------
(* A packet in a channel after a step was there before it, or the step     *)
(* sent it. *)
LEMMA SendSaid ==
  ASSUME toClient \in [Players -> Seq(Packets)], NEW p \in Players,
         NEW k \in Packets, Send(p, k)
  PROVE  \A r \in Players : \A m : Said(r, m)' => Said(r, m) \/ (r = p /\ m = k)
<1>1. \A s \in Seq(Packets) : \A i \in DOMAIN Append(s, k) :
        (i \in DOMAIN s /\ Append(s, k)[i] = s[i]) \/ Append(s, k)[i] = k
  OBVIOUS
<1>2. \A r \in Players :
        \/ toClient'[r] = toClient[r]
        \/ r = p /\ toClient'[r] = Append(toClient[r], k)
  BY DEF Send
<1>3. \A r \in Players : toClient[r] \in Seq(Packets)
  OBVIOUS
<1>4. QED
  BY <1>1, <1>2, <1>3, ZenonT(40) DEF Said

LEMMA StepUpdatesStand == IInv /\ [Next]_vars => UpdatesStand'
<1> SUFFICES ASSUME IInv, [Next]_vars,
                    NEW p \in Players, NEW q \in Players, NEW c \in Champions,
                    Said(p, <<"update", q, c>>)'
             PROVE  picked'[q] = c
  BY DEF UpdatesStand
<1> DEFINE packet == <<"update", q, c>>
<1>1. toClient \in [Players -> Seq(Packets)] /\ c # Unset
  BY ChampionsAssumption DEF IInv, TypeOK, Unset
<1>2. CASE Said(p, packet)
  <2>1. picked[q] = c
    BY <1>2 DEF IInv, UpdatesStand
  <2>2. QED
    BY <1>1, <2>1, PickStands
<1>3. CASE toClient' = toClient
  BY <1>2, <1>3 DEF Said
<1>4. ASSUME NEW r \in Players, ClientReceive(r) PROVE picked'[q] = c
  <2>1. \A s \in Seq(Packets) : s # <<>> =>
          \A i \in DOMAIN Tail(s) : i + 1 \in DOMAIN s /\ Tail(s)[i] = s[i + 1]
    OBVIOUS
  <2>2. \/ toClient'[p] = toClient[p]
        \/ toClient[p] # <<>> /\ toClient'[p] = Tail(toClient[p])
    BY <1>1, <1>4 DEF ClientReceive
  <2>3. Said(p, packet)
    BY <1>1, <2>1, <2>2 DEF Said
  <2>4. QED
    BY <1>2, <2>3
<1>5. ASSUME NEW r \in Players, NEW k \in Packets, Send(r, k),
             k = packet => picked[q] = c
      PROVE  picked'[q] = c
  <2>1. Said(p, packet) \/ packet = k
    BY <1>1, <1>5, SendSaid
  <2>2. QED
    BY <1>1, <1>2, <1>5, <2>1, PickStands
<1>6. /\ <<"start">> # packet /\ <<"failed">> # packet
      /\ <<"gameStart">> # packet
  OBVIOUS
<1>7. CASE StartNext
  <2>1. told + 1 \in Players
    BY <1>7, CountAssumption DEF StartNext, IInv, TypeOK, Players
  <2>2. QED
    BY <1>3, <1>5, <1>6, <1>7, <2>1, PacketKinds DEF StartNext
<1>8. CASE PickFails
  <2>1. job[1] \in Players
    BY <1>8 DEF PickFails, IInv, JobInv
  <2>2. QED
    BY <1>3, <1>5, <1>6, <1>8, <2>1, PacketKinds DEF PickFails
<1>9. CASE BroadcastUpdate
  <2>1. at \in Players /\ job \in Players \X Champions /\ picked[job[1]] = job[2]
    BY <1>9, CountAssumption DEF BroadcastUpdate, IInv, TypeOK, JobInv, Players
  <2>2. <<"update", job[1], job[2]>> \in Packets
    BY <2>1, PacketKinds
  <2>3. <<"update", job[1], job[2]>> = packet => picked[q] = c
    BY <2>1
  <2>4. QED
    BY <1>3, <1>5, <1>9, <2>1, <2>2, <2>3 DEF BroadcastUpdate
<1>10. CASE StartGame
  <2>1. at \in Players
    BY <1>10, CountAssumption DEF StartGame, IInv, TypeOK, JobInv, Players
  <2>2. QED
    BY <1>3, <1>5, <1>6, <1>10, <2>1, PacketKinds DEF StartGame
<1>11. QED
  BY <1>3, <1>4, <1>7, <1>8, <1>9, <1>10
  DEF Next, Client, Session, vars, jobVars, ChoosePick, ShowWaiting,
      HandlePick, Disconnect, SessionDestroyed, ResolveReturns, BeginJob,
      PickSucceeds, CheckAllPicked, GameStarted

-----------------------------------------------------------------------------
THEOREM Invariance == Spec => []IInv
<1>1. IInv /\ [Next]_vars => IInv'
  BY StepTypeOK, StepJobInv, StepTurnInv, StepBegunInv, StepChampionsDistinct,
     StepUpdatesStand
  DEF IInv
<1>2. QED
  BY InitIInv, <1>1, PTL DEF Spec

(* Every variable keeps its type, so every message sent is one the other   *)
(* side knows and Start and the broadcasts stay within _participants. *)
THEOREM TypeCorrect == Spec => []TypeOK
<1>1. IInv => TypeOK
  BY DEF IInv
<1>2. QED
  BY Invariance, <1>1, PTL

(* However the picks overlap, no champion goes to two participants. *)
THEOREM Distinct == Spec => []ChampionsDistinct
<1>1. IInv => ChampionsDistinct
  BY DEF IInv
<1>2. QED
  BY Invariance, <1>1, PTL

(* Nobody is sent S_GAME_START twice, before all have picked, or before    *)
(* Start has sent him S_CHAMPSELECT_START, though Start runs beside the    *)
(* jobs. *)
THEOREM StartsOnce == Spec => []GameStartsOnce
<1>1. IInv => GameStartsOnce
  <2> SUFFICES ASSUME IInv, NEW p \in Players, begun[p] = 1
               PROVE  (\A q \in Players : picked[q] # Unset) /\ told = N
    BY DEF IInv, BegunInv, GameStartsOnce
  <2>1. \A q \in Players : picked[q] # Unset
    BY DEF IInv, BegunInv, AllPicked, HasPicked
  <2>2. N \in Players
    BY CountAssumption DEF Players
  <2>3. N <= told
    BY <2>1, <2>2 DEF IInv, TurnInv
  <2>4. told = N
    BY <2>3, CountAssumption DEF IInv, TypeOK
  <2>5. QED
    BY <2>1, <2>4
<1>2. QED
  BY Invariance, <1>1, PTL

(* What a client is told of a pick is what the server holds, whatever      *)
(* other picks arrive after it. *)
THEOREM Announced == Spec => []UpdatesStand
<1>1. IInv => UpdatesStand
  BY DEF IInv
<1>2. QED
  BY Invariance, <1>1, PTL
=============================================================================
