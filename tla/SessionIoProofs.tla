--------------------------- MODULE SessionIoProofs ---------------------------
(***************************************************************************)
(* Proofs about SessionIo, for any number of workers, any sends, any cuts  *)
(* of the stream into packets and any size of the receive buffer.          *)
(*                                                                         *)
(* The properties of sending and receiving are about who is where.  A call *)
(* stack has few shapes (Callers): what a worker holds is told by the      *)
(* places on it (Has), and each step swaps, leaves or takes up one place.  *)
(* On that rest four invariants.  SendInv: between the gate and the end of *)
(* a send one worker, the kernel or one completion has _sendEvent, and who *)
(* is to fill it finds packets.  OrderInv: what is sent, in the batch and  *)
(* in the queue is in order.  RecvInv and BufferInv: one chain of receives,*)
(* and the buffer has the stream from handled on.  LifeInv and EarlyInv:   *)
(* one DisconnectEx, which comes after the session is in the service.      *)
(***************************************************************************)
EXTENDS SessionIo, FiniteSetTheorems, TLAPS

(* What may wait below the place a worker is at.                           *)
Sending == {"registerSend", "fill", "wsaSend", "sendLog", "sendFailed", "openGate"}
Ending  == {"disconnect", "disconnectEx"}

Callers(place) ==
  {<<>>} \cup (IF place \in Sending \cup {"push"} THEN {<<"handler">>} ELSE {})
         \cup (IF place \in Sending THEN {<<"unlock">>} ELSE {})
         \cup (IF place \in Ending
               THEN {<<"sendFailed">>, <<"sendFailed", "handler">>, <<"sendFailed", "unlock">>}
               ELSE {})

Shape(s) == s = <<>> \/ \E place \in Places : \E r \in Callers(place) : s = <<place>> \o r

Has(s, P) == \E i \in DOMAIN s : s[i] \in P

LEMMA Pushed ==
  ASSUME NEW x \in Places, NEW r \in Seq(Places)
  PROVE  LET s == <<x>> \o r IN
         /\ s \in Seq(Places) /\ s # <<>> /\ Len(s) = Len(r) + 1
         /\ Head(s) = x /\ Tail(s) = r
         /\ \A P : Has(s, P) <=> x \in P \/ Has(r, P)
<1> DEFINE s == <<x>> \o r
<1>1. s \in Seq(Places) /\ s # <<>> /\ Len(s) = Len(r) + 1
  OBVIOUS
<1>2. Head(s) = x /\ Tail(s) = r
  OBVIOUS
<1>3. ASSUME NEW P PROVE Has(s, P) <=> x \in P \/ Has(r, P)
  <2>1. s[1] = x /\ \A i \in 1 .. Len(r) : s[i + 1] = r[i]
    OBVIOUS
  <2>2. \A i \in 1 .. Len(s) : i = 1 \/ (i - 1 \in 1 .. Len(r) /\ s[i] = r[i - 1])
    BY <1>1, <2>1
  <2>3. DOMAIN s = 1 .. Len(s) /\ DOMAIN r = 1 .. Len(r)
    BY <1>1
  <2>4. ASSUME Has(s, P) PROVE x \in P \/ Has(r, P)
    <3>1. PICK i \in DOMAIN s : s[i] \in P
      BY <2>4 DEF Has
    <3>2. i = 1 \/ (i - 1 \in DOMAIN r /\ r[i - 1] \in P)
      BY <3>1, <2>2, <2>3
    <3> QED
      BY <3>1, <3>2, <2>1 DEF Has
  <2>5. ASSUME x \in P PROVE Has(s, P)
    <3>1. 1 \in DOMAIN s
      BY <1>1, <2>3
    <3> QED
      BY <2>5, <3>1, <2>1 DEF Has
  <2>6. ASSUME Has(r, P) PROVE Has(s, P)
    <3>1. PICK i \in DOMAIN r : r[i] \in P
      BY <2>6 DEF Has
    <3>2. i + 1 \in DOMAIN s /\ s[i + 1] \in P
      BY <3>1, <1>1, <2>1, <2>3
    <3> QED
      BY <3>2 DEF Has
  <2> QED
    BY <2>4, <2>5, <2>6
<1> QED
  BY <1>1, <1>2, <1>3

LEMMA Tuples ==
  /\ \A P : ~Has(<<>>, P)
  /\ \A x, P : Has(<<x>>, P) <=> x \in P
  /\ \A x, y, P : Has(<<x, y>>, P) <=> x \in P \/ y \in P
<1>1. \A P : ~Has(<<>>, P)
  BY DEF Has
<1>2. \A x, P : Has(<<x>>, P) <=> x \in P
  BY DEF Has
<1>3. \A x, y, P : Has(<<x, y>>, P) <=> x \in P \/ y \in P
  <2> TAKE x, y, P
  <2>1. DOMAIN <<x, y>> = {1, 2} /\ <<x, y>>[1] = x /\ <<x, y>>[2] = y
    OBVIOUS
  <2> QED
    BY <2>1 DEF Has
<1> QED
  BY <1>1, <1>2, <1>3

LEMMA CallersTyped ==
  ASSUME NEW x \in Places, NEW r \in Callers(x)
  PROVE  r \in Seq(Places) /\ Len(r) <= 2 /\ Shape(r)
<1>1. r \in {<<>>, <<"handler">>, <<"unlock">>, <<"sendFailed">>,
             <<"sendFailed", "handler">>, <<"sendFailed", "unlock">>}
  BY DEF Callers
<1>2. {"handler", "unlock", "sendFailed"} \subseteq Places
  BY DEF Places
<1>3. /\ <<>> \in Seq(Places) /\ Len(<<>>) = 0
      /\ \A y \in Places : <<y>> \in Seq(Places) /\ Len(<<y>>) = 1
      /\ \A y, z \in Places : <<y, z>> \in Seq(Places) /\ Len(<<y, z>>) = 2
  OBVIOUS
<1>7. r \in Seq(Places) /\ Len(r) <= 2
  <2>1. CASE r = <<>>
    BY <2>1, <1>3
  <2>2. CASE \E y \in Places : r = <<y>>
    BY <2>2, <1>3
  <2>3. CASE \E y, z \in Places : r = <<y, z>>
    BY <2>3, <1>3
  <2> QED
    BY <1>1, <1>2, <2>1, <2>2, <2>3
<1>4. Shape(<<>>)
  BY DEF Shape
<1>5. \A y \in {"handler", "unlock", "sendFailed"} : <<>> \in Callers(y) /\ <<y>> = <<y>> \o <<>>
  BY DEF Callers
<1>6. \A y \in {"handler", "unlock"} :
        <<y>> \in Callers("sendFailed") /\ <<"sendFailed", y>> = <<"sendFailed">> \o <<y>>
  BY DEF Callers, Sending
<1> QED
  BY <1>1, <1>2, <1>4, <1>5, <1>6, <1>7 DEF Shape

(* A worker that is at a place, and what is below it.                      *)
LEMMA Frame ==
  ASSUME NEW s, Shape(s), s # <<>>
  PROVE  /\ Head(s) \in Places /\ Tail(s) \in Callers(Head(s)) /\ Tail(s) \in Seq(Places)
         /\ s \in Seq(Places) /\ Len(s) <= 3
         /\ s = <<Head(s)>> \o Tail(s)
         /\ \A P : Has(s, P) <=> Head(s) \in P \/ Has(Tail(s), P)
<1>1. PICK place \in Places : \E r \in Callers(place) : s = <<place>> \o r
  BY DEF Shape
<1>2. PICK r \in Callers(place) : s = <<place>> \o r
  BY <1>1
<1>3. r \in Seq(Places) /\ Len(r) <= 2
  BY CallersTyped
<1>4. /\ s \in Seq(Places) /\ Len(s) = Len(r) + 1 /\ Head(s) = place /\ Tail(s) = r
      /\ \A P : Has(s, P) <=> place \in P \/ Has(r, P)
  BY <1>2, <1>3, Pushed
<1>5. Len(s) <= 3
  BY <1>3, <1>4
<1>6. Head(s) \in Places /\ Tail(s) \in Callers(Head(s)) /\ Tail(s) \in Seq(Places)
  BY <1>1, <1>2, <1>3, <1>4
<1>7. \A P : Has(s, P) <=> Head(s) \in P \/ Has(Tail(s), P)
  BY <1>4
<1> QED
  BY <1>4, <1>5, <1>6, <1>7

Stacks ==
  /\ stack \in [Workers -> Seq(Places)]
  /\ \A t \in Workers : Shape(stack[t])

Rest(t) == IF stack[t] = <<>> THEN <<>> ELSE Tail(stack[t])

(* A worker at p, and what is below p.                                     *)
Was(t, p) ==
  /\ \A P : Has(stack[t], P) <=> p \in P \/ Has(Rest(t), P)
  /\ \A P : Has(Rest(t), P) =>
       \/ p \in Sending \cup Ending \cup {"push"} /\ "handler" \in P
       \/ p \in Sending \cup Ending /\ "unlock" \in P
       \/ p \in Ending /\ "sendFailed" \in P

Others(t) == \A u \in Workers : u # t => stack'[u] = stack[u]

(* In a step p gives way to q, or to q and q2; or p is left; or a worker   *)
(* in its loop takes up q.                                                 *)
Swap(t, p, q)      == Was(t, p) /\ Others(t) /\ \A P : Has(stack'[t], P) <=> q \in P \/ Has(Rest(t), P)
Split(t, p, q, q2) == Was(t, p) /\ Others(t) /\ \A P : Has(stack'[t], P) <=> q \in P \/ q2 \in P \/ Has(Rest(t), P)
Leave(t, p)        == Was(t, p) /\ Others(t) /\ \A P : Has(stack'[t], P) <=> Has(Rest(t), P)
Begin(t, q)        == Others(t) /\ \A P : ~Has(stack[t], P) /\ (Has(stack'[t], P) <=> q \in P)

LEMMA Below ==
  ASSUME NEW p \in Places, NEW r \in Callers(p), NEW P, Has(r, P)
  PROVE  \/ p \in Sending \cup Ending \cup {"push"} /\ "handler" \in P
         \/ p \in Sending \cup Ending /\ "unlock" \in P
         \/ p \in Ending /\ "sendFailed" \in P
<1>1. r # <<>>
  BY Tuples
<1>2. r = <<"handler">> => "handler" \in P
  BY Tuples
<1>3. r = <<"unlock">> => "unlock" \in P
  BY Tuples
<1>4. r = <<"sendFailed">> => "sendFailed" \in P
  BY Tuples
<1>5. r = <<"sendFailed", "handler">> => "sendFailed" \in P \/ "handler" \in P
  BY Tuples
<1>6. r = <<"sendFailed", "unlock">> => "sendFailed" \in P \/ "unlock" \in P
  BY Tuples
<1> QED
  BY <1>1, <1>2, <1>3, <1>4, <1>5, <1>6 DEF Callers

LEMMA BecomeStacks ==
  ASSUME Stacks, NEW t \in Workers, NEW s \in Seq(Places), Shape(s), Become(t, s)
  PROVE  Stacks' /\ stack'[t] = s /\ \A u \in Workers : u # t => stack'[u] = stack[u]
BY DEF Stacks, Become

LEMMA Standing ==
  ASSUME Stacks, NEW t \in Workers, NEW p \in Places, At(t, p)
  PROVE  /\ Was(t, p) /\ stack[t] # <<>> /\ Rest(t) = Tail(stack[t])
         /\ Rest(t) \in Callers(p) /\ Rest(t) \in Seq(Places) /\ stack[t] = <<p>> \o Rest(t)
<1>1. stack[t] # <<>> /\ Head(stack[t]) = p /\ Shape(stack[t]) /\ Rest(t) = Tail(stack[t])
  BY DEF At, Stacks, Rest
<1>2. /\ Rest(t) \in Callers(p) /\ Rest(t) \in Seq(Places) /\ stack[t] = <<p>> \o Rest(t)
      /\ \A P : Has(stack[t], P) <=> p \in P \/ Has(Rest(t), P)
  BY <1>1, Frame
<1>3. \A P : Has(Rest(t), P) =>
        \/ p \in Sending \cup Ending \cup {"push"} /\ "handler" \in P
        \/ p \in Sending \cup Ending /\ "unlock" \in P
        \/ p \in Ending /\ "sendFailed" \in P
  BY <1>2, Below
<1> QED
  BY <1>1, <1>2, <1>3 DEF Was

LEMMA GotoSwap ==
  ASSUME Stacks, NEW t \in Workers, NEW p \in Places, NEW q \in Places, At(t, p), Goto(t, q),
         Callers(p) \subseteq Callers(q)
  PROVE  Stacks' /\ Swap(t, p, q)
<1>1. Was(t, p) /\ Rest(t) = Tail(stack[t]) /\ Rest(t) \in Callers(q) /\ Rest(t) \in Seq(Places)
  BY Standing
<1>2. /\ <<q>> \o Rest(t) \in Seq(Places)
      /\ \A P : Has(<<q>> \o Rest(t), P) <=> q \in P \/ Has(Rest(t), P)
  BY <1>1, Pushed
<1>3. Shape(<<q>> \o Rest(t))
  BY <1>1 DEF Shape
<1>4. Stacks' /\ stack'[t] = <<q>> \o Rest(t) /\ Others(t)
  BY <1>1, <1>2, <1>3, BecomeStacks DEF Goto, Others
<1> QED
  BY <1>1, <1>2, <1>4 DEF Swap

LEMMA ReturnLeave ==
  ASSUME Stacks, NEW t \in Workers, NEW p \in Places, At(t, p), Return(t)
  PROVE  Stacks' /\ Leave(t, p)
<1>1. Was(t, p) /\ Rest(t) = Tail(stack[t]) /\ Rest(t) \in Callers(p) /\ Rest(t) \in Seq(Places)
  BY Standing
<1>2. Shape(Rest(t))
  BY <1>1, CallersTyped
<1>3. Stacks' /\ stack'[t] = Rest(t) /\ Others(t)
  BY <1>1, <1>2, BecomeStacks DEF Return, Others
<1> QED
  BY <1>1, <1>3 DEF Leave

LEMMA IdleBegin ==
  ASSUME Stacks, NEW t \in Workers, NEW q \in Places, Idle(t), Become(t, <<q>>)
  PROVE  Stacks' /\ Begin(t, q)
<1>1. <<q>> \in Seq(Places) /\ <<q>> = <<q>> \o <<>>
  OBVIOUS
<1>2. Shape(<<q>>)
  BY <1>1 DEF Shape, Callers
<1>3. Stacks' /\ stack'[t] = <<q>> /\ Others(t)
  BY <1>1, <1>2, BecomeStacks DEF Others
<1>4. stack[t] = <<>>
  BY DEF Idle
<1> QED
  BY <1>3, <1>4, Tuples DEF Begin

(* The three steps that put two places on the stack, or one more.          *)
LEMMA CallSendStack ==
  ASSUME Stacks, NEW t \in Workers, CallSend(t)
  PROVE  /\ Stacks' /\ Others(t)
         /\ \A P : Has(stack'[t], P) <=> "push" \in P \/ Has(stack[t], P)
         /\ \A P : Has(stack[t], P) => "handler" \in P
<1>1. stack[t] \in {<<>>, <<"handler">>}
  <2>1. CASE At(t, "handler")
    <3>1. Rest(t) \in Callers("handler") /\ stack[t] = <<"handler">> \o Rest(t)
      BY <2>1, Standing DEF Places
    <3>2. Rest(t) = <<>>
      BY <3>1 DEF Callers, Sending, Ending
    <3>3. <<"handler">> \o <<>> = <<"handler">>
      OBVIOUS
    <3> QED
      BY <3>1, <3>2, <3>3
  <2>2. CASE Idle(t)
    BY <2>2 DEF Idle
  <2> QED
    BY <2>1, <2>2 DEF CallSend
<1>2. stack[t] \in Callers("push") /\ stack[t] \in Seq(Places) /\ "push" \in Places
  BY <1>1 DEF Callers, Stacks, Places
<1>3. /\ <<"push">> \o stack[t] \in Seq(Places)
      /\ \A P : Has(<<"push">> \o stack[t], P) <=> "push" \in P \/ Has(stack[t], P)
  BY <1>2, Pushed
<1>4. Shape(<<"push">> \o stack[t])
  BY <1>2 DEF Shape
<1>5. Stacks' /\ stack'[t] = <<"push">> \o stack[t] /\ Others(t)
  BY <1>3, <1>4, BecomeStacks DEF CallSend, Others
<1>6. \A P : Has(stack[t], P) => "handler" \in P
  BY <1>1, Tuples
<1> QED
  BY <1>3, <1>5, <1>6

LEMMA FailsSplit ==
  ASSUME Stacks, NEW t \in Workers, At(t, "wsaSend"),
         Become(t, <<"disconnect", "sendFailed">> \o Tail(stack[t]))
  PROVE  Stacks' /\ Split(t, "wsaSend", "disconnect", "sendFailed")
<1> DEFINE r == Rest(t)
           s == <<"sendFailed">> \o r
<1>1. {"wsaSend", "disconnect", "sendFailed"} \subseteq Places
  BY DEF Places
<1>2. /\ Was(t, "wsaSend") /\ r = Tail(stack[t])
      /\ r \in Callers("wsaSend") /\ r \in Seq(Places)
  BY <1>1, Standing
<1>3. r \in {<<>>, <<"handler">>, <<"unlock">>}
  BY <1>2 DEF Callers, Ending
<1>4. s \in Callers("disconnect")
  <2>1. <<"sendFailed">> = <<"sendFailed">> \o <<>>
    OBVIOUS
  <2>2. \A y \in {"handler", "unlock"} : <<"sendFailed", y>> = <<"sendFailed">> \o <<y>>
    OBVIOUS
  <2> QED
    BY <1>3, <2>1, <2>2 DEF Callers, Ending
<1>5. s \in Seq(Places) /\ \A P : Has(s, P) <=> "sendFailed" \in P \/ Has(r, P)
  BY <1>1, <1>2, Pushed
<1>6. /\ <<"disconnect">> \o s \in Seq(Places)
      /\ \A P : Has(<<"disconnect">> \o s, P) <=> "disconnect" \in P \/ Has(s, P)
  BY <1>1, <1>5, Pushed
<1>7. Shape(<<"disconnect">> \o s)
  BY <1>1, <1>4 DEF Shape
<1>8. <<"disconnect">> \o s = <<"disconnect", "sendFailed">> \o Tail(stack[t])
  BY <1>2
<1>9. Stacks' /\ stack'[t] = <<"disconnect">> \o s /\ Others(t)
  BY <1>6, <1>7, <1>8, BecomeStacks DEF Others
<1> QED
  BY <1>2, <1>5, <1>6, <1>9 DEF Split

LEMMA NextSplit ==
  ASSUME Stacks, NEW t \in Workers, At(t, "sendNext"), Become(t, <<"registerSend", "unlock">>)
  PROVE  Stacks' /\ Split(t, "sendNext", "registerSend", "unlock") /\ \A P : ~Has(Rest(t), P)
<1>1. {"registerSend", "unlock", "sendNext"} \subseteq Places
  BY DEF Places
<1>2. Was(t, "sendNext") /\ Rest(t) \in Callers("sendNext")
  BY <1>1, Standing
<1>3. Rest(t) = <<>>
  BY <1>2 DEF Callers, Sending, Ending
<1>4. <<"registerSend", "unlock">> = <<"registerSend">> \o <<"unlock">> /\ <<"unlock">> \in Callers("registerSend")
  BY DEF Callers, Sending
<1>5. <<"registerSend", "unlock">> \in Seq(Places) /\ Shape(<<"registerSend", "unlock">>)
  <2>1. Shape(<<"registerSend", "unlock">>)
    BY <1>1, <1>4 DEF Shape
  <2> QED
    BY <1>1, <2>1
<1>6. Stacks' /\ stack'[t] = <<"registerSend", "unlock">> /\ Others(t)
  BY <1>5, BecomeStacks DEF Others
<1> QED
  BY <1>2, <1>3, <1>6, Tuples DEF Split

(* What each step does to the stack of its worker.                         *)
LEMMA CallersFit ==
  /\ Callers("push") \subseteq Callers("registerSend")
  /\ Callers("registerSend") \subseteq Callers("fill")
  /\ Callers("fill") \subseteq Callers("wsaSend")
  /\ Callers("wsaSend") \subseteq Callers("sendLog")
  /\ Callers("wsaSend") \subseteq Callers("sendFailed")
  /\ Callers("sendFailed") \subseteq Callers("openGate")
  /\ Callers("addSession") \subseteq Callers("registerRecv")
  /\ Callers("registerRecv") \subseteq Callers("wsaRecv")
  /\ Callers("wsaRecv") \subseteq Callers("disconnect")
  /\ Callers("parse") \subseteq Callers("handler")
  /\ Callers("handler") \subseteq Callers("parse")
  /\ Callers("parse") \subseteq Callers("disconnect")
  /\ Callers("parse") \subseteq Callers("registerRecv")
  /\ Callers("disconnect") \subseteq Callers("disconnectEx")
BY DEF Callers, Sending, Ending

LEMMA PushStack ==
  ASSUME Stacks, NEW t \in Workers, Push(t)
  PROVE  Stacks' /\ (IF sendRegistered THEN Leave(t, "push") ELSE Swap(t, "push", "registerSend"))
BY GotoSwap, CallersFit, ReturnLeave DEF Push, Places

LEMMA RegisterSendStack ==
  ASSUME Stacks, NEW t \in Workers, RegisterSend(t)
  PROVE  Stacks' /\ (IF connected THEN Swap(t, "registerSend", "fill") ELSE Leave(t, "registerSend"))
BY GotoSwap, CallersFit, ReturnLeave DEF RegisterSend, Places

LEMMA FillStack ==
  ASSUME Stacks, NEW t \in Workers, Fill(t)
  PROVE  Stacks' /\ Swap(t, "fill", "wsaSend")
BY GotoSwap, CallersFit DEF Fill, Places

LEMMA WsaSendStack ==
  ASSUME Stacks, NEW t \in Workers, WsaSend(t)
  PROVE  Stacks' /\ Swap(t, "wsaSend", "sendLog")
BY GotoSwap, CallersFit DEF WsaSend, Places

LEMMA SendLogStack ==
  ASSUME Stacks, NEW t \in Workers, SendLog(t)
  PROVE  Stacks' /\ Leave(t, "sendLog")
BY ReturnLeave DEF SendLog, Places

LEMMA WsaSendFailsStack ==
  ASSUME Stacks, NEW t \in Workers, WsaSendFails(t)
  PROVE  Stacks' /\ (Split(t, "wsaSend", "disconnect", "sendFailed") \/ Swap(t, "wsaSend", "sendFailed"))
BY GotoSwap, CallersFit, FailsSplit DEF WsaSendFails, Places

LEMMA SendFailedStack ==
  ASSUME Stacks, NEW t \in Workers, SendFailed(t)
  PROVE  Stacks' /\ Swap(t, "sendFailed", "openGate")
BY GotoSwap, CallersFit DEF SendFailed, Places

LEMMA OpenGateStack ==
  ASSUME Stacks, NEW t \in Workers, OpenGate(t)
  PROVE  Stacks' /\ Leave(t, "openGate")
BY ReturnLeave DEF OpenGate, Places

LEMMA TakeSendStack ==
  ASSUME Stacks, NEW t \in Workers, TakeSend(t)
  PROVE  Stacks' /\ (IF Head(sendDone) THEN Begin(t, "sendNext") ELSE Begin(t, "disconnect"))
BY IdleBegin DEF TakeSend, Places

LEMMA SendNextStack ==
  ASSUME Stacks, NEW t \in Workers, SendNext(t)
  PROVE  Stacks' /\ (IF sendQueue = <<>> THEN Leave(t, "sendNext")
                   ELSE Split(t, "sendNext", "registerSend", "unlock"))
BY ReturnLeave, NextSplit DEF SendNext, Places

LEMMA UnlockStack ==
  ASSUME Stacks, NEW t \in Workers, Unlock(t)
  PROVE  Stacks' /\ Leave(t, "unlock")
BY ReturnLeave DEF Unlock, Places

LEMMA TakeConnectStack ==
  ASSUME Stacks, NEW t \in Workers, TakeConnect(t)
  PROVE  Stacks' /\ Begin(t, "addSession")
BY IdleBegin DEF TakeConnect, Places

LEMMA AddSessionStack ==
  ASSUME Stacks, NEW t \in Workers, AddSession(t)
  PROVE  Stacks' /\ Swap(t, "addSession", "registerRecv")
BY GotoSwap, CallersFit DEF AddSession, Places

LEMMA RegisterRecvStack ==
  ASSUME Stacks, NEW t \in Workers, RegisterRecv(t)
  PROVE  Stacks' /\ (IF connected THEN Swap(t, "registerRecv", "wsaRecv") ELSE Leave(t, "registerRecv"))
BY GotoSwap, CallersFit, ReturnLeave DEF RegisterRecv, Places

LEMMA WsaRecvStack ==
  ASSUME Stacks, NEW t \in Workers, WsaRecv(t)
  PROVE  Stacks' /\ Leave(t, "wsaRecv")
BY ReturnLeave DEF WsaRecv, Places

LEMMA WsaRecvFailsStack ==
  ASSUME Stacks, NEW t \in Workers, WsaRecvFails(t)
  PROVE  Stacks' /\ (Leave(t, "wsaRecv") \/ Swap(t, "wsaRecv", "disconnect"))
BY GotoSwap, CallersFit, ReturnLeave DEF WsaRecvFails, Places

LEMMA TakeRecvStack ==
  ASSUME Stacks, NEW t \in Workers, TakeRecv(t)
  PROVE  Stacks' /\ (IF recvBytes = 0 \/ recvBytes > FreeSize THEN Begin(t, "disconnect") ELSE Begin(t, "parse"))
BY IdleBegin DEF TakeRecv, Places

LEMMA ParsePacketStack ==
  ASSUME Stacks, NEW t \in Workers, ParsePacket(t)
  PROVE  Stacks' /\ Swap(t, "parse", "handler")
BY GotoSwap, CallersFit DEF ParsePacket, Places

LEMMA HandlerReturnsStack ==
  ASSUME Stacks, NEW t \in Workers, HandlerReturns(t)
  PROVE  Stacks' /\ Swap(t, "handler", "parse")
BY GotoSwap, CallersFit DEF HandlerReturns, Places

LEMMA EndRecvStack ==
  ASSUME Stacks, NEW t \in Workers, EndRecv(t)
  PROVE  Stacks' /\ (IF processLen > DataSize THEN Swap(t, "parse", "disconnect") ELSE Swap(t, "parse", "registerRecv"))
BY GotoSwap, CallersFit DEF EndRecv, Places

LEMMA DisconnectStack ==
  ASSUME Stacks, NEW t \in Workers, Disconnect(t)
  PROVE  Stacks' /\ (IF connected THEN Swap(t, "disconnect", "disconnectEx") ELSE Leave(t, "disconnect"))
BY GotoSwap, CallersFit, ReturnLeave DEF Disconnect, Places

LEMMA DisconnectExStack ==
  ASSUME Stacks, NEW t \in Workers, DisconnectEx(t)
  PROVE  Stacks' /\ Leave(t, "disconnectEx")
BY ReturnLeave DEF DisconnectEx, Places

LEMMA TakeDisconnectStack ==
  ASSUME Stacks, NEW t \in Workers, TakeDisconnect(t)
  PROVE  Stacks' /\ Begin(t, "release")
BY IdleBegin DEF TakeDisconnect, Places

LEMMA ReleaseSessionStack ==
  ASSUME Stacks, NEW t \in Workers, ReleaseSession(t)
  PROVE  Stacks' /\ Leave(t, "release")
BY ReturnLeave DEF ReleaseSession, Places

LEMMA StepStacks ==
  ASSUME Stacks, [Next]_vars
  PROVE  Stacks'
<1>1. ASSUME NEW t \in Workers, Push(t) PROVE Stacks'
  BY <1>1, PushStack
<1>2. ASSUME NEW t \in Workers, RegisterSend(t) PROVE Stacks'
  BY <1>2, RegisterSendStack
<1>3. ASSUME NEW t \in Workers, Fill(t) PROVE Stacks'
  BY <1>3, FillStack
<1>4. ASSUME NEW t \in Workers, WsaSend(t) PROVE Stacks'
  BY <1>4, WsaSendStack
<1>5. ASSUME NEW t \in Workers, SendLog(t) PROVE Stacks'
  BY <1>5, SendLogStack
<1>6. ASSUME NEW t \in Workers, WsaSendFails(t) PROVE Stacks'
  BY <1>6, WsaSendFailsStack
<1>7. ASSUME NEW t \in Workers, SendFailed(t) PROVE Stacks'
  BY <1>7, SendFailedStack
<1>8. ASSUME NEW t \in Workers, OpenGate(t) PROVE Stacks'
  BY <1>8, OpenGateStack
<1>9. ASSUME NEW t \in Workers, TakeSend(t) PROVE Stacks'
  BY <1>9, TakeSendStack
<1>10. ASSUME NEW t \in Workers, SendNext(t) PROVE Stacks'
  BY <1>10, SendNextStack
<1>11. ASSUME NEW t \in Workers, Unlock(t) PROVE Stacks'
  BY <1>11, UnlockStack
<1>12. ASSUME NEW t \in Workers, TakeConnect(t) PROVE Stacks'
  BY <1>12, TakeConnectStack
<1>13. ASSUME NEW t \in Workers, AddSession(t) PROVE Stacks'
  BY <1>13, AddSessionStack
<1>14. ASSUME NEW t \in Workers, RegisterRecv(t) PROVE Stacks'
  BY <1>14, RegisterRecvStack
<1>15. ASSUME NEW t \in Workers, WsaRecv(t) PROVE Stacks'
  BY <1>15, WsaRecvStack
<1>16. ASSUME NEW t \in Workers, WsaRecvFails(t) PROVE Stacks'
  BY <1>16, WsaRecvFailsStack
<1>17. ASSUME NEW t \in Workers, TakeRecv(t) PROVE Stacks'
  BY <1>17, TakeRecvStack
<1>18. ASSUME NEW t \in Workers, ParsePacket(t) PROVE Stacks'
  BY <1>18, ParsePacketStack
<1>19. ASSUME NEW t \in Workers, HandlerReturns(t) PROVE Stacks'
  BY <1>19, HandlerReturnsStack
<1>20. ASSUME NEW t \in Workers, EndRecv(t) PROVE Stacks'
  BY <1>20, EndRecvStack
<1>21. ASSUME NEW t \in Workers, Disconnect(t) PROVE Stacks'
  BY <1>21, DisconnectStack
<1>22. ASSUME NEW t \in Workers, DisconnectEx(t) PROVE Stacks'
  BY <1>22, DisconnectExStack
<1>23. ASSUME NEW t \in Workers, TakeDisconnect(t) PROVE Stacks'
  BY <1>23, TakeDisconnectStack
<1>24. ASSUME NEW t \in Workers, ReleaseSession(t) PROVE Stacks'
  BY <1>24, ReleaseSessionStack
<1>25. ASSUME NEW t \in Workers, CallSend(t) PROVE Stacks'
  BY <1>25, CallSendStack
<1>26. CASE KernelSends
  BY <1>26 DEF KernelSends, Stacks
<1>27. CASE KernelReceives
  BY <1>27 DEF KernelReceives, Stacks
<1>28. CASE UNCHANGED vars
  BY <1>28 DEF vars, Stacks
<1>29. QED
  BY <1>1, <1>2, <1>3, <1>4, <1>5, <1>6, <1>7, <1>8, <1>9, <1>10, <1>11, <1>12, <1>13,
     <1>14, <1>15, <1>16, <1>17, <1>18, <1>19, <1>20, <1>21, <1>22, <1>23, <1>24, <1>25,
     <1>26, <1>27, <1>28 DEF Next, Step, SendStep, RecvStep, LifeStep

-----------------------------------------------------------------------------
(* The beginning: before the session is in the service, nothing of it has  *)
(* begun but that.                                                         *)
Early == connectOp = "posted" \/ \E t \in Workers : Has(stack[t], {"addSession"})

EarlyInv ==
  /\ connectOp = "posted" => ~connected /\ \A t \in Workers : ~Has(stack[t], Places)
  /\ Early => /\ ~sendRegistered /\ posted = {} /\ sendDone = <<>>
              /\ recvOp = "none" /\ recvBytes = 0 /\ disconnectOp = "none"
              /\ arrived = 0 /\ handled = 0 /\ readPos = 0 /\ writePos = 0
              /\ \A t \in Workers : ~Has(stack[t], Places \ {"addSession"})

LEMMA Wider ==
  ASSUME NEW s, NEW P, NEW Q, P \subseteq Q, Has(s, P)
  PROVE  Has(s, Q)
BY DEF Has

LEMMA Filed ==
  ASSUME NEW S, NEW s \in Seq(S), NEW r \in Seq(S), NEW x \in S
  PROVE  /\ Append(s, x) # <<>>
         /\ s # <<>> => r \o s # <<>>
         /\ Len(s) = 1 => Tail(s) = <<>>
<1>1. Append(s, x) # <<>>
  OBVIOUS
<1>2. s # <<>> => r \o s # <<>>
  OBVIOUS
<1>3. ASSUME Len(s) = 1 PROVE Tail(s) = <<>>
  <2>1. s # <<>>
    BY <1>3
  <2>2. Tail(s) \in Seq(S) /\ Len(Tail(s)) = 0
    BY <1>3, <2>1
  <2>3. \A q \in Seq(S) : Len(q) = 0 => q = <<>>
    OBVIOUS
  <2> QED
    BY <2>2, <2>3
<1> QED
  BY <1>1, <1>2, <1>3

-----------------------------------------------------------------------------
(* The gate.                                                               *)
Using == {"registerSend", "fill", "wsaSend", "sendFailed", "openGate", "sendNext"}

(* Who has the use of _sendEvent is alone with it, and the gate is closed; *)
(* whoever is about to fill the buffers finds packets to fill them with.   *)
SendInv ==
  /\ \A t, u \in Workers : Has(stack[t], Using) /\ Has(stack[u], Using) => t = u
  /\ \A t \in Workers : Has(stack[t], Using) => sendRegistered /\ posted = {} /\ sendDone = <<>>
  /\ \A b, c \in posted : b = c
  /\ posted # {} => sendRegistered /\ sendDone = <<>> /\ <<>> \notin posted
  /\ sendDone # <<>> => sendRegistered /\ Len(sendDone) = 1
  /\ \A t \in Workers : Has(stack[t], {"registerSend", "fill"}) => sendQueue # <<>>
  /\ \A t \in Workers : Has(stack[t], {"wsaSend"}) => sendBuffers # <<>>
  /\ sendRegistered /\ connected =>
       \/ \E t \in Workers : Has(stack[t], Using) \/ Has(stack[t], {"disconnect"})
       \/ posted # {} \/ sendDone # <<>>

Types ==
  /\ connected \in BOOLEAN /\ inService \in BOOLEAN
  /\ sendQueue \in Seq(Packets) /\ sendBuffers \in Seq(Packets)
  /\ sendRegistered \in BOOLEAN
  /\ lock \in Workers \cup {Nobody}
  /\ posted \subseteq Seq(Packets) /\ sendDone \in Seq(BOOLEAN)
  /\ recvOp \in {"none", "posted", "done"} /\ recvBytes \in 0 .. StreamLength
  /\ connectOp \in {"posted", "done"}
  /\ disconnectOp \in {"none", "posted", "done", "failed"}
  /\ arrived \in 0 .. StreamLength
  /\ pushed \in Nat /\ wire \in Seq(Packets) /\ lost \subseteq Packets

LEMMA SendersOnly ==
  ASSUME SendInv, NEW t \in Workers,
         Has(stack[t], {"registerSend", "fill"}) \/ Has(stack[t], {"wsaSend"})
  PROVE  Has(stack[t], Using)
BY Wider DEF Using

LEMMA StepSendInv ==
  ASSUME Stacks, Types, EarlyInv, SendInv, [Next]_vars
  PROVE  SendInv'
<1>1. ASSUME NEW t \in Workers, Push(t) PROVE SendInv'
  <2>1. sendQueue' # <<>>
    BY <1>1, Filed DEF Push, Types
  <2>2. CASE sendRegistered
    BY <1>1, <2>1, <2>2, PushStack DEF Push, Gate, SendInv, Types, Swap, Leave, Was,
       Sending, Ending, Others, Using, sendVars, lifeVars
  <2>3. CASE ~sendRegistered
    <3>1. \A u \in Workers : ~Has(stack[u], Using)
      BY <2>3 DEF SendInv
    <3>2. posted = {} /\ sendDone = <<>>
      BY <2>3 DEF SendInv
    <3>3. \A u \in Workers : ~Has(stack[u], {"wsaSend"})
      BY <3>1, SendersOnly
    <3>4. /\ sendRegistered' /\ posted' = posted /\ sendDone' = sendDone
          /\ Swap(t, "push", "registerSend")
      BY <1>1, <2>3, PushStack DEF Push, Gate
    <3>5. Has(stack'[t], Using) /\ ~Has(stack'[t], {"wsaSend"})
      BY <3>4 DEF Swap, Was, Using, Sending, Ending
    <3>6. \A u \in Workers : u # t => stack'[u] = stack[u]
      BY <3>4 DEF Swap, Others
    <3> QED
      BY <2>1, <3>1, <3>2, <3>3, <3>4, <3>5, <3>6 DEF SendInv
  <2> QED
    BY <2>2, <2>3
<1>2. ASSUME NEW t \in Workers, RegisterSend(t) PROVE SendInv'
  BY <1>2, RegisterSendStack DEF RegisterSend, SendInv, Types, Swap, Leave, Was,
     Sending, Ending, Others, Using, sendVars, lifeVars
<1>3. ASSUME NEW t \in Workers, Fill(t) PROVE SendInv'
  <2>1. \A u \in Workers : u # t => ~Has(stack[u], Using)
    BY <1>3, FillStack DEF Fill, SendInv, Types, Swap, Was, Sending, Ending, Others,
       Using, sendVars, lifeVars
  <2>2. \A u \in Workers : u # t => ~Has(stack[u], {"registerSend", "fill"}) /\ ~Has(stack[u], {"wsaSend"})
    BY <2>1, SendersOnly
  <2>7. Has(stack[t], {"registerSend", "fill"}) /\ Has(stack[t], Using) /\ Has(stack'[t], Using)
    BY <1>3, FillStack DEF Swap, Was, Sending, Ending, Using
  <2>8. sendQueue # <<>>
    BY <2>7 DEF SendInv
  <2>9. sendBuffers' # <<>>
    BY <1>3, <2>8, Filed DEF Fill, Types
  <2>3. sendBuffers' # <<>> /\ Has(stack[t], Using) /\ Has(stack'[t], Using)
    BY <2>7, <2>9
  <2>4. ~Has(stack'[t], {"registerSend", "fill"})
    BY <1>3, FillStack DEF Fill, Swap, Was, Sending, Ending
  <2>5. \A u \in Workers : u # t => stack'[u] = stack[u]
    BY <1>3, FillStack DEF Swap, Others
  <2>6. UNCHANGED <<sendRegistered, posted, sendDone, connected>>
    BY <1>3 DEF Fill, lifeVars
  <2> QED
    BY <2>1, <2>2, <2>3, <2>4, <2>5, <2>6 DEF SendInv
<1>4. ASSUME NEW t \in Workers, WsaSend(t) PROVE SendInv'
  <2>1. \A u \in Workers : u # t => ~Has(stack[u], Using)
    BY <1>4, WsaSendStack DEF WsaSend, SendInv, Types, Swap, Was, Sending, Ending,
       Others, Using, sendVars, lifeVars
  <2>2. \A u \in Workers : u # t => ~Has(stack[u], {"registerSend", "fill"}) /\ ~Has(stack[u], {"wsaSend"})
    BY <2>1, SendersOnly
  <2>3. Has(stack[t], Using) /\ ~Has(stack'[t], Using) /\ sendBuffers # <<>>
    BY <1>4, WsaSendStack DEF WsaSend, SendInv, Swap, Was, Sending, Ending, Using
  <2>4. posted = {} /\ posted' = {sendBuffers} /\ sendRegistered /\ sendDone = <<>>
    BY <1>4, <2>3 DEF WsaSend, SendInv
  <2>5. \A u \in Workers : u # t => stack'[u] = stack[u]
    BY <1>4, WsaSendStack DEF Swap, Others
  <2>6. UNCHANGED <<sendRegistered, sendDone, connected, sendQueue, sendBuffers>>
    BY <1>4 DEF WsaSend, lifeVars
  <2>7. ~Has(stack'[t], {"registerSend", "fill"}) /\ ~Has(stack'[t], {"wsaSend"})
    BY <2>3, Wider DEF Using
  <2> QED
    BY <2>1, <2>2, <2>3, <2>4, <2>5, <2>6, <2>7 DEF SendInv
<1>5. ASSUME NEW t \in Workers, SendLog(t) PROVE SendInv'
  BY <1>5, SendLogStack, ZenonT(40) DEF SendLog, SendInv, Types, Leave, Was, Sending, Ending,
     Others, Using, sendVars, lifeVars
<1>6. ASSUME NEW t \in Workers, WsaSendFails(t) PROVE SendInv'
  BY <1>6, WsaSendFailsStack, SMTT(40) DEF WsaSendFails, SendInv, Types, Split, Swap, Was,
     Sending, Ending, Others, Using, sendVars, lifeVars
<1>7. ASSUME NEW t \in Workers, SendFailed(t) PROVE SendInv'
  <2>1. \A u \in Workers : u # t => ~Has(stack[u], Using)
    BY <1>7, SendFailedStack DEF SendFailed, SendInv, Types, Swap, Was, Sending, Ending,
       Others, Using, sendVars, lifeVars
  <2>2. \A u \in Workers : u # t => ~Has(stack[u], {"registerSend", "fill"}) /\ ~Has(stack[u], {"wsaSend"})
    BY <2>1, SendersOnly
  <2>3. Has(stack[t], Using) /\ Has(stack'[t], Using)
    BY <1>7, SendFailedStack DEF Swap, Was, Sending, Ending, Using
  <2>4. ~Has(stack'[t], {"registerSend", "fill"}) /\ ~Has(stack'[t], {"wsaSend"})
    BY <1>7, SendFailedStack DEF Swap, Was, Sending, Ending
  <2>5. \A u \in Workers : u # t => stack'[u] = stack[u]
    BY <1>7, SendFailedStack DEF Swap, Others
  <2> QED
    BY <1>7, <2>1, <2>2, <2>3, <2>4, <2>5 DEF SendFailed, SendInv, lifeVars
<1>8. ASSUME NEW t \in Workers, OpenGate(t) PROVE SendInv'
  <2>1. \A u \in Workers : u # t => ~Has(stack[u], Using)
    BY <1>8, OpenGateStack DEF OpenGate, SendInv, Types, Leave, Was, Sending, Ending,
       Others, Using, sendVars, lifeVars
  <2>2. \A u \in Workers : u # t => ~Has(stack[u], {"registerSend", "fill"}) /\ ~Has(stack[u], {"wsaSend"})
    BY <2>1, SendersOnly
  <2>3. Has(stack[t], Using) /\ ~Has(stack'[t], Using)
    BY <1>8, OpenGateStack DEF Leave, Was, Sending, Ending, Using
  <2>4. ~Has(stack'[t], {"registerSend", "fill"}) /\ ~Has(stack'[t], {"wsaSend"})
    BY <1>8, OpenGateStack DEF Leave, Was, Sending, Ending
  <2>5. \A u \in Workers : u # t => stack'[u] = stack[u]
    BY <1>8, OpenGateStack DEF Leave, Others
  <2> QED
    BY <1>8, <2>1, <2>2, <2>3, <2>4, <2>5 DEF OpenGate, SendInv, lifeVars
<1>9. ASSUME NEW t \in Workers, TakeSend(t) PROVE SendInv'
  <2>1. \A u \in Workers : ~Has(stack[u], Using)
    BY <1>9 DEF TakeSend, SendInv
  <2>2. sendDone' = <<>> /\ posted' = {} /\ sendRegistered' /\ connected' = connected
    BY <1>9, Filed DEF TakeSend, SendInv, Types, lifeVars
  <2>3. \A u \in Workers : ~Has(stack[u], {"registerSend", "fill"}) /\ ~Has(stack[u], {"wsaSend"})
    BY <2>1, SendersOnly
  <2>4. /\ ~Has(stack'[t], {"registerSend", "fill"}) /\ ~Has(stack'[t], {"wsaSend"})
        /\ Has(stack'[t], Using) \/ Has(stack'[t], {"disconnect"})
    BY <1>9, TakeSendStack DEF Begin, Using
  <2>5. \A u \in Workers : u # t => stack'[u] = stack[u]
    BY <1>9, TakeSendStack DEF Begin, Others
  <2> QED
    BY <2>1, <2>2, <2>3, <2>4, <2>5 DEF SendInv
<1>10. ASSUME NEW t \in Workers, SendNext(t) PROVE SendInv'
  BY <1>10, SendNextStack, ZenonT(40) DEF SendNext, SendInv, Types, Leave, Split, Was, Sending,
     Ending, Others, Using, sendVars, lifeVars
<1>11. ASSUME NEW t \in Workers, Unlock(t) PROVE SendInv'
  BY <1>11, UnlockStack, ZenonT(40) DEF Unlock, SendInv, Types, Leave, Was, Sending, Ending, Others,
     Using, sendVars, lifeVars
<1>12. ASSUME NEW t \in Workers, TakeConnect(t) PROVE SendInv'
  <2>1. ~sendRegistered
    BY <1>12 DEF TakeConnect, EarlyInv, Early
  <2> QED
    BY <1>12, <2>1, TakeConnectStack DEF TakeConnect, SendInv, Types, Begin, Others,
       Using, sendVars, lifeVars
<1>13. ASSUME NEW t \in Workers, AddSession(t) PROVE SendInv'
  BY <1>13, AddSessionStack DEF AddSession, SendInv, Types, Swap, Was, Sending, Ending,
     Others, Using, sendVars, lifeVars
<1>14. ASSUME NEW t \in Workers, RegisterRecv(t) PROVE SendInv'
  BY <1>14, RegisterRecvStack DEF RegisterRecv, SendInv, Types, Swap, Leave, Was,
     Sending, Ending, Others, Using, sendVars, lifeVars
<1>15. ASSUME NEW t \in Workers, WsaRecv(t) PROVE SendInv'
  BY <1>15, WsaRecvStack DEF WsaRecv, SendInv, Types, Leave, Was, Sending, Ending,
     Others, Using, sendVars, lifeVars
<1>16. ASSUME NEW t \in Workers, WsaRecvFails(t) PROVE SendInv'
  BY <1>16, WsaRecvFailsStack, ZenonT(40) DEF WsaRecvFails, SendInv, Types, Leave, Swap, Was,
     Sending, Ending, Others, Using, sendVars, lifeVars
<1>17. ASSUME NEW t \in Workers, TakeRecv(t) PROVE SendInv'
  BY <1>17, TakeRecvStack DEF TakeRecv, SendInv, Types, Begin, Others, Using, sendVars,
     lifeVars
<1>18. ASSUME NEW t \in Workers, ParsePacket(t) PROVE SendInv'
  BY <1>18, ParsePacketStack DEF ParsePacket, SendInv, Types, Swap, Was, Sending,
     Ending, Others, Using, sendVars, lifeVars
<1>19. ASSUME NEW t \in Workers, HandlerReturns(t) PROVE SendInv'
  BY <1>19, HandlerReturnsStack DEF HandlerReturns, SendInv, Types, Swap, Was, Sending,
     Ending, Others, Using, sendVars, lifeVars
<1>20. ASSUME NEW t \in Workers, EndRecv(t) PROVE SendInv'
  BY <1>20, EndRecvStack DEF EndRecv, SendInv, Types, Swap, Was, Sending, Ending,
     Others, Using, sendVars, lifeVars
<1>21. ASSUME NEW t \in Workers, Disconnect(t) PROVE SendInv'
  BY <1>21, DisconnectStack DEF Disconnect, SendInv, Types, Swap, Leave, Was, Sending,
     Ending, Others, Using, sendVars, lifeVars
<1>22. ASSUME NEW t \in Workers, DisconnectEx(t) PROVE SendInv'
  BY <1>22, DisconnectExStack DEF DisconnectEx, SendInv, Types, Leave, Was, Sending,
     Ending, Others, Using, sendVars, lifeVars
<1>23. ASSUME NEW t \in Workers, TakeDisconnect(t) PROVE SendInv'
  BY <1>23, TakeDisconnectStack DEF TakeDisconnect, SendInv, Types, Begin, Others,
     Using, sendVars, lifeVars
<1>24. ASSUME NEW t \in Workers, ReleaseSession(t) PROVE SendInv'
  BY <1>24, ReleaseSessionStack DEF ReleaseSession, SendInv, Types, Leave, Was, Sending,
     Ending, Others, Using, sendVars, lifeVars
<1>25. ASSUME NEW t \in Workers, CallSend(t) PROVE SendInv'
  BY <1>25, CallSendStack DEF CallSend, SendInv, Others, Using, sendVars, lifeVars
<1>26. CASE KernelSends
  BY <1>26 DEF KernelSends, SendInv, Types, recvVars, sendVars, lifeVars
<1>27. CASE KernelReceives
  BY <1>27 DEF KernelReceives, SendInv, Types, recvVars, sendVars, lifeVars
<1>28. CASE UNCHANGED vars
  BY <1>28 DEF vars, SendInv, recvVars, sendVars, lifeVars
<1>29. QED
  BY <1>1, <1>2, <1>3, <1>4, <1>5, <1>6, <1>7, <1>8, <1>9, <1>10, <1>11, <1>12, <1>13,
     <1>14, <1>15, <1>16, <1>17, <1>18, <1>19, <1>20, <1>21, <1>22, <1>23, <1>24, <1>25,
     <1>26, <1>27, <1>28 DEF Next, Step, SendStep, RecvStep, LifeStep

-----------------------------------------------------------------------------
(* What has begun stays begun.                                             *)
LEMMA Begun ==
  ASSUME EarlyInv, ~Early, connectOp' = connectOp, connectOp \in {"posted", "done"},
         \A u \in Workers : Has(stack'[u], {"addSession"}) => Has(stack[u], {"addSession"})
  PROVE  EarlyInv'
BY DEF EarlyInv, Early

LEMMA Busy ==
  ASSUME EarlyInv, NEW t \in Workers, NEW p \in Places \ {"addSession"}, Was(t, p)
  PROVE  ~Early
<1>1. Has(stack[t], {p})
  BY DEF Was
<1>2. Has(stack[t], Places \ {"addSession"})
  BY <1>1, Wider
<1> QED
  BY <1>2 DEF EarlyInv

Receiving == {"addSession", "registerRecv", "wsaRecv", "parse", "handler"}

(* One chain of receives: a worker is alone with it while none is posted   *)
(* or done.                                                                *)
RecvInv ==
  /\ \A t, u \in Workers : Has(stack[t], Receiving) /\ Has(stack[u], Receiving) => t = u
  /\ \A t \in Workers : Has(stack[t], Receiving) => recvOp = "none" /\ connectOp = "done"
  /\ recvOp # "none" => connectOp = "done"

LEMMA StepEarlyInv ==
  ASSUME Stacks, Types, RecvInv, EarlyInv, [Next]_vars
  PROVE  EarlyInv'
<1>1. ASSUME NEW t \in Workers, Push(t) PROVE EarlyInv'
  <2>1. /\ Was(t, "push")
        /\ ~Has(stack'[t], {"addSession"})
        /\ \A u \in Workers : u # t => stack'[u] = stack[u]
    BY <1>1, PushStack DEF Swap, Leave, Was, Sending, Ending, Others
  <2>2. ~Early
    BY <2>1, Busy DEF Places
  <2> QED
    BY <1>1, <2>1, <2>2, Begun DEF Push, Types, lifeVars
<1>2. ASSUME NEW t \in Workers, RegisterSend(t) PROVE EarlyInv'
  <2>1. /\ Was(t, "registerSend")
        /\ ~Has(stack'[t], {"addSession"})
        /\ \A u \in Workers : u # t => stack'[u] = stack[u]
    BY <1>2, RegisterSendStack DEF Swap, Leave, Was, Sending, Ending, Others
  <2>2. ~Early
    BY <2>1, Busy DEF Places
  <2> QED
    BY <1>2, <2>1, <2>2, Begun DEF RegisterSend, Types, lifeVars
<1>3. ASSUME NEW t \in Workers, Fill(t) PROVE EarlyInv'
  <2>1. /\ Was(t, "fill")
        /\ ~Has(stack'[t], {"addSession"})
        /\ \A u \in Workers : u # t => stack'[u] = stack[u]
    BY <1>3, FillStack DEF Swap, Was, Sending, Ending, Others
  <2>2. ~Early
    BY <2>1, Busy DEF Places
  <2> QED
    BY <1>3, <2>1, <2>2, Begun DEF Fill, Types, lifeVars
<1>4. ASSUME NEW t \in Workers, WsaSend(t) PROVE EarlyInv'
  <2>1. /\ Was(t, "wsaSend")
        /\ ~Has(stack'[t], {"addSession"})
        /\ \A u \in Workers : u # t => stack'[u] = stack[u]
    BY <1>4, WsaSendStack DEF Swap, Was, Sending, Ending, Others
  <2>2. ~Early
    BY <2>1, Busy DEF Places
  <2> QED
    BY <1>4, <2>1, <2>2, Begun DEF WsaSend, Types, lifeVars
<1>5. ASSUME NEW t \in Workers, SendLog(t) PROVE EarlyInv'
  <2>1. /\ Was(t, "sendLog")
        /\ ~Has(stack'[t], {"addSession"})
        /\ \A u \in Workers : u # t => stack'[u] = stack[u]
    BY <1>5, SendLogStack DEF Leave, Was, Sending, Ending, Others
  <2>2. ~Early
    BY <2>1, Busy DEF Places
  <2> QED
    BY <1>5, <2>1, <2>2, Begun DEF SendLog, Types, lifeVars
<1>6. ASSUME NEW t \in Workers, WsaSendFails(t) PROVE EarlyInv'
  <2>1. /\ Was(t, "wsaSend")
        /\ ~Has(stack'[t], {"addSession"})
        /\ \A u \in Workers : u # t => stack'[u] = stack[u]
    BY <1>6, WsaSendFailsStack DEF Split, Swap, Was, Sending, Ending, Others
  <2>2. ~Early
    BY <2>1, Busy DEF Places
  <2> QED
    BY <1>6, <2>1, <2>2, Begun DEF WsaSendFails, Types, lifeVars
<1>7. ASSUME NEW t \in Workers, SendFailed(t) PROVE EarlyInv'
  <2>1. /\ Was(t, "sendFailed")
        /\ ~Has(stack'[t], {"addSession"})
        /\ \A u \in Workers : u # t => stack'[u] = stack[u]
    BY <1>7, SendFailedStack DEF Swap, Was, Sending, Ending, Others
  <2>2. ~Early
    BY <2>1, Busy DEF Places
  <2> QED
    BY <1>7, <2>1, <2>2, Begun DEF SendFailed, Types, lifeVars
<1>8. ASSUME NEW t \in Workers, OpenGate(t) PROVE EarlyInv'
  <2>1. /\ Was(t, "openGate")
        /\ ~Has(stack'[t], {"addSession"})
        /\ \A u \in Workers : u # t => stack'[u] = stack[u]
    BY <1>8, OpenGateStack DEF Leave, Was, Sending, Ending, Others
  <2>2. ~Early
    BY <2>1, Busy DEF Places
  <2> QED
    BY <1>8, <2>1, <2>2, Begun DEF OpenGate, Types, lifeVars
<1>9. ASSUME NEW t \in Workers, TakeSend(t) PROVE EarlyInv'
  <2>1. ~Has(stack'[t], {"addSession"}) /\ \A u \in Workers : u # t => stack'[u] = stack[u]
    BY <1>9, TakeSendStack DEF Begin, Others
  <2>2. ~Early
    BY <1>9 DEF TakeSend, EarlyInv
  <2> QED
    BY <1>9, <2>1, <2>2, Begun DEF TakeSend, Types, lifeVars
<1>10. ASSUME NEW t \in Workers, SendNext(t) PROVE EarlyInv'
  <2>1. /\ Was(t, "sendNext")
        /\ ~Has(stack'[t], {"addSession"})
        /\ \A u \in Workers : u # t => stack'[u] = stack[u]
    BY <1>10, SendNextStack DEF Leave, Split, Was, Sending, Ending, Others
  <2>2. ~Early
    BY <2>1, Busy DEF Places
  <2> QED
    BY <1>10, <2>1, <2>2, Begun DEF SendNext, Types, lifeVars
<1>11. ASSUME NEW t \in Workers, Unlock(t) PROVE EarlyInv'
  <2>1. /\ Was(t, "unlock")
        /\ ~Has(stack'[t], {"addSession"})
        /\ \A u \in Workers : u # t => stack'[u] = stack[u]
    BY <1>11, UnlockStack DEF Leave, Was, Sending, Ending, Others
  <2>2. ~Early
    BY <2>1, Busy DEF Places
  <2> QED
    BY <1>11, <2>1, <2>2, Begun DEF Unlock, Types, lifeVars
<1>12. ASSUME NEW t \in Workers, TakeConnect(t) PROVE EarlyInv'
  <2>1. Early /\ connectOp' = "done" /\ connectOp = "posted"
    BY <1>12 DEF TakeConnect, Early
  <2>2. \A u \in Workers : ~Has(stack[u], Places)
    BY <2>1 DEF EarlyInv
  <2>3. \A u \in Workers : ~Has(stack[u], Places \ {"addSession"})
    BY <2>2, Wider
  <2>4. /\ ~Has(stack'[t], Places \ {"addSession"})
        /\ \A u \in Workers : u # t => stack'[u] = stack[u]
    BY <1>12, TakeConnectStack DEF Begin, Others
  <2>5. \A u \in Workers : ~Has(stack'[u], Places \ {"addSession"})
    BY <2>3, <2>4
  <2> QED
    BY <1>12, <2>1, <2>5 DEF TakeConnect, EarlyInv, sendVars, recvVars
<1>13. ASSUME NEW t \in Workers, AddSession(t) PROVE EarlyInv'
  <2>1. Has(stack[t], {"addSession"}) /\ ~Has(stack'[t], {"addSession"})
    BY <1>13, AddSessionStack DEF Swap, Was, Sending, Ending
  <2>2. \A u \in Workers : u # t => stack'[u] = stack[u]
    BY <1>13, AddSessionStack DEF Swap, Others
  <2>3. \A u \in Workers : Has(stack[u], {"addSession"}) => u = t
    <3>1. \A u \in Workers : Has(stack[u], {"addSession"}) => Has(stack[u], Receiving)
      BY Wider DEF Receiving
    <3> QED
      BY <2>1, <3>1 DEF RecvInv
  <2>4. connectOp' = "done"
    <3>1. Has(stack[t], Receiving)
      BY <2>1, Wider DEF Receiving
    <3> QED
      BY <1>13, <3>1 DEF AddSession, RecvInv
  <2> QED
    BY <2>1, <2>2, <2>3, <2>4 DEF EarlyInv, Early
<1>14. ASSUME NEW t \in Workers, RegisterRecv(t) PROVE EarlyInv'
  <2>1. /\ Was(t, "registerRecv")
        /\ ~Has(stack'[t], {"addSession"})
        /\ \A u \in Workers : u # t => stack'[u] = stack[u]
    BY <1>14, RegisterRecvStack DEF Swap, Leave, Was, Sending, Ending, Others
  <2>2. ~Early
    BY <2>1, Busy DEF Places
  <2> QED
    BY <1>14, <2>1, <2>2, Begun DEF RegisterRecv, Types, lifeVars
<1>15. ASSUME NEW t \in Workers, WsaRecv(t) PROVE EarlyInv'
  <2>1. /\ Was(t, "wsaRecv")
        /\ ~Has(stack'[t], {"addSession"})
        /\ \A u \in Workers : u # t => stack'[u] = stack[u]
    BY <1>15, WsaRecvStack DEF Leave, Was, Sending, Ending, Others
  <2>2. ~Early
    BY <2>1, Busy DEF Places
  <2> QED
    BY <1>15, <2>1, <2>2, Begun DEF WsaRecv, Types, lifeVars
<1>16. ASSUME NEW t \in Workers, WsaRecvFails(t) PROVE EarlyInv'
  <2>1. /\ Was(t, "wsaRecv")
        /\ ~Has(stack'[t], {"addSession"})
        /\ \A u \in Workers : u # t => stack'[u] = stack[u]
    BY <1>16, WsaRecvFailsStack DEF Leave, Swap, Was, Sending, Ending, Others
  <2>2. ~Early
    BY <2>1, Busy DEF Places
  <2> QED
    BY <1>16, <2>1, <2>2, Begun DEF WsaRecvFails, Types, lifeVars
<1>17. ASSUME NEW t \in Workers, TakeRecv(t) PROVE EarlyInv'
  <2>1. ~Has(stack'[t], {"addSession"}) /\ \A u \in Workers : u # t => stack'[u] = stack[u]
    BY <1>17, TakeRecvStack DEF Begin, Others
  <2>2. ~Early
    BY <1>17 DEF TakeRecv, EarlyInv
  <2> QED
    BY <1>17, <2>1, <2>2, Begun DEF TakeRecv, Types, lifeVars
<1>18. ASSUME NEW t \in Workers, ParsePacket(t) PROVE EarlyInv'
  <2>1. /\ Was(t, "parse")
        /\ ~Has(stack'[t], {"addSession"})
        /\ \A u \in Workers : u # t => stack'[u] = stack[u]
    BY <1>18, ParsePacketStack DEF Swap, Was, Sending, Ending, Others
  <2>2. ~Early
    BY <2>1, Busy DEF Places
  <2> QED
    BY <1>18, <2>1, <2>2, Begun DEF ParsePacket, Types, lifeVars
<1>19. ASSUME NEW t \in Workers, HandlerReturns(t) PROVE EarlyInv'
  <2>1. /\ Was(t, "handler")
        /\ ~Has(stack'[t], {"addSession"})
        /\ \A u \in Workers : u # t => stack'[u] = stack[u]
    BY <1>19, HandlerReturnsStack DEF Swap, Was, Sending, Ending, Others
  <2>2. ~Early
    BY <2>1, Busy DEF Places
  <2> QED
    BY <1>19, <2>1, <2>2, Begun DEF HandlerReturns, Types, lifeVars
<1>20. ASSUME NEW t \in Workers, EndRecv(t) PROVE EarlyInv'
  <2>1. /\ Was(t, "parse")
        /\ ~Has(stack'[t], {"addSession"})
        /\ \A u \in Workers : u # t => stack'[u] = stack[u]
    BY <1>20, EndRecvStack DEF Swap, Was, Sending, Ending, Others
  <2>2. ~Early
    BY <2>1, Busy DEF Places
  <2> QED
    BY <1>20, <2>1, <2>2, Begun DEF EndRecv, Types, lifeVars
<1>21. ASSUME NEW t \in Workers, Disconnect(t) PROVE EarlyInv'
  <2>1. /\ Was(t, "disconnect")
        /\ ~Has(stack'[t], {"addSession"})
        /\ \A u \in Workers : u # t => stack'[u] = stack[u]
    BY <1>21, DisconnectStack DEF Swap, Leave, Was, Sending, Ending, Others
  <2>2. ~Early
    BY <2>1, Busy DEF Places
  <2> QED
    BY <1>21, <2>1, <2>2, Begun DEF Disconnect, Types, lifeVars
<1>22. ASSUME NEW t \in Workers, DisconnectEx(t) PROVE EarlyInv'
  <2>1. /\ Was(t, "disconnectEx")
        /\ ~Has(stack'[t], {"addSession"})
        /\ \A u \in Workers : u # t => stack'[u] = stack[u]
    BY <1>22, DisconnectExStack DEF Leave, Was, Sending, Ending, Others
  <2>2. ~Early
    BY <2>1, Busy DEF Places
  <2> QED
    BY <1>22, <2>1, <2>2, Begun DEF DisconnectEx, Types, lifeVars
<1>23. ASSUME NEW t \in Workers, TakeDisconnect(t) PROVE EarlyInv'
  <2>1. ~Has(stack'[t], {"addSession"}) /\ \A u \in Workers : u # t => stack'[u] = stack[u]
    BY <1>23, TakeDisconnectStack DEF Begin, Others
  <2>2. ~Early
    BY <1>23 DEF TakeDisconnect, EarlyInv
  <2> QED
    BY <1>23, <2>1, <2>2, Begun DEF TakeDisconnect, Types, lifeVars
<1>24. ASSUME NEW t \in Workers, ReleaseSession(t) PROVE EarlyInv'
  <2>1. /\ Was(t, "release")
        /\ ~Has(stack'[t], {"addSession"})
        /\ \A u \in Workers : u # t => stack'[u] = stack[u]
    BY <1>24, ReleaseSessionStack DEF Leave, Was, Sending, Ending, Others
  <2>2. ~Early
    BY <2>1, Busy DEF Places
  <2> QED
    BY <1>24, <2>1, <2>2, Begun DEF ReleaseSession, Types, lifeVars
<1>25. ASSUME NEW t \in Workers, CallSend(t) PROVE EarlyInv'
  <2>1. ~Has(stack'[t], {"addSession"}) /\ \A u \in Workers : u # t => stack'[u] = stack[u]
    BY <1>25, CallSendStack DEF Others
  <2>2. ~Early
    <3>1. CASE At(t, "handler")
      BY <3>1, Standing, Busy DEF Places
    <3>2. CASE handled > 0
      BY <3>2 DEF EarlyInv
    <3> QED
      BY <1>25, <3>1, <3>2 DEF CallSend
  <2> QED
    BY <1>25, <2>1, <2>2, Begun DEF CallSend, Types, lifeVars
<1>26. CASE KernelSends
  BY <1>26 DEF KernelSends, EarlyInv, Early, recvVars, lifeVars
<1>27. CASE KernelReceives
  BY <1>27 DEF KernelReceives, EarlyInv, Early, sendVars, lifeVars
<1>28. CASE UNCHANGED vars
  BY <1>28 DEF vars, EarlyInv, Early, recvVars, sendVars, lifeVars, bufferVars
<1>29. QED
  BY <1>1, <1>2, <1>3, <1>4, <1>5, <1>6, <1>7, <1>8, <1>9, <1>10, <1>11, <1>12, <1>13,
     <1>14, <1>15, <1>16, <1>17, <1>18, <1>19, <1>20, <1>21, <1>22, <1>23, <1>24, <1>25,
     <1>26, <1>27, <1>28 DEF Next, Step, SendStep, RecvStep, LifeStep

LEMMA StepRecvInv ==
  ASSUME Stacks, Types, EarlyInv, RecvInv, [Next]_vars
  PROVE  RecvInv'
<1>1. ASSUME NEW t \in Workers, Push(t) PROVE RecvInv'
  BY <1>1, PushStack DEF Push, RecvInv, Types, Swap, Leave, Was, Sending, Ending,
     Others, Receiving, recvVars, lifeVars
<1>2. ASSUME NEW t \in Workers, RegisterSend(t) PROVE RecvInv'
  BY <1>2, RegisterSendStack DEF RegisterSend, RecvInv, Types, Swap, Leave, Was,
     Sending, Ending, Others, Receiving, recvVars, lifeVars
<1>3. ASSUME NEW t \in Workers, Fill(t) PROVE RecvInv'
  BY <1>3, FillStack DEF Fill, RecvInv, Types, Swap, Was, Sending, Ending, Others,
     Receiving, recvVars, lifeVars
<1>4. ASSUME NEW t \in Workers, WsaSend(t) PROVE RecvInv'
  BY <1>4, WsaSendStack DEF WsaSend, RecvInv, Types, Swap, Was, Sending, Ending, Others,
     Receiving, recvVars, lifeVars
<1>5. ASSUME NEW t \in Workers, SendLog(t) PROVE RecvInv'
  BY <1>5, SendLogStack DEF SendLog, RecvInv, Types, Leave, Was, Sending, Ending,
     Others, Receiving, recvVars, lifeVars
<1>6. ASSUME NEW t \in Workers, WsaSendFails(t) PROVE RecvInv'
  BY <1>6, WsaSendFailsStack DEF WsaSendFails, RecvInv, Types, Split, Swap, Was,
     Sending, Ending, Others, Receiving, recvVars, lifeVars
<1>7. ASSUME NEW t \in Workers, SendFailed(t) PROVE RecvInv'
  BY <1>7, SendFailedStack DEF SendFailed, RecvInv, Types, Swap, Was, Sending, Ending,
     Others, Receiving, recvVars, lifeVars
<1>8. ASSUME NEW t \in Workers, OpenGate(t) PROVE RecvInv'
  BY <1>8, OpenGateStack DEF OpenGate, RecvInv, Types, Leave, Was, Sending, Ending,
     Others, Receiving, recvVars, lifeVars
<1>9. ASSUME NEW t \in Workers, TakeSend(t) PROVE RecvInv'
  BY <1>9, TakeSendStack DEF TakeSend, RecvInv, Types, Begin, Others, Receiving,
     recvVars, lifeVars
<1>10. ASSUME NEW t \in Workers, SendNext(t) PROVE RecvInv'
  BY <1>10, SendNextStack DEF SendNext, RecvInv, Types, Leave, Split, Was, Sending,
     Ending, Others, Receiving, recvVars, lifeVars
<1>11. ASSUME NEW t \in Workers, Unlock(t) PROVE RecvInv'
  BY <1>11, UnlockStack DEF Unlock, RecvInv, Types, Leave, Was, Sending, Ending, Others,
     Receiving, recvVars, lifeVars
<1>12. ASSUME NEW t \in Workers, TakeConnect(t) PROVE RecvInv'
  <2>1. \A u \in Workers : ~Has(stack[u], Receiving)
    BY <1>12 DEF TakeConnect, RecvInv
  <2> QED
    BY <1>12, <2>1, TakeConnectStack DEF TakeConnect, RecvInv, Begin, Others, recvVars
<1>13. ASSUME NEW t \in Workers, AddSession(t) PROVE RecvInv'
  BY <1>13, AddSessionStack DEF AddSession, RecvInv, Types, Swap, Was, Sending, Ending,
     Others, Receiving, recvVars, lifeVars
<1>14. ASSUME NEW t \in Workers, RegisterRecv(t) PROVE RecvInv'
  BY <1>14, RegisterRecvStack DEF RegisterRecv, RecvInv, Types, Swap, Leave, Was,
     Sending, Ending, Others, Receiving, recvVars, lifeVars
<1>15. ASSUME NEW t \in Workers, WsaRecv(t) PROVE RecvInv'
  BY <1>15, WsaRecvStack DEF WsaRecv, RecvInv, Types, Leave, Was, Sending, Ending,
     Others, Receiving, recvVars, lifeVars
<1>16. ASSUME NEW t \in Workers, WsaRecvFails(t) PROVE RecvInv'
  BY <1>16, WsaRecvFailsStack DEF WsaRecvFails, RecvInv, Types, Leave, Swap, Was,
     Sending, Ending, Others, Receiving, recvVars, lifeVars
<1>17. ASSUME NEW t \in Workers, TakeRecv(t) PROVE RecvInv'
  BY <1>17, TakeRecvStack DEF TakeRecv, RecvInv, Types, Begin, Others, Receiving,
     recvVars, lifeVars
<1>18. ASSUME NEW t \in Workers, ParsePacket(t) PROVE RecvInv'
  BY <1>18, ParsePacketStack DEF ParsePacket, RecvInv, Types, Swap, Was, Sending,
     Ending, Others, Receiving, recvVars, lifeVars
<1>19. ASSUME NEW t \in Workers, HandlerReturns(t) PROVE RecvInv'
  BY <1>19, HandlerReturnsStack DEF HandlerReturns, RecvInv, Types, Swap, Was, Sending,
     Ending, Others, Receiving, recvVars, lifeVars
<1>20. ASSUME NEW t \in Workers, EndRecv(t) PROVE RecvInv'
  BY <1>20, EndRecvStack DEF EndRecv, RecvInv, Types, Swap, Was, Sending, Ending,
     Others, Receiving, recvVars, lifeVars
<1>21. ASSUME NEW t \in Workers, Disconnect(t) PROVE RecvInv'
  BY <1>21, DisconnectStack DEF Disconnect, RecvInv, Types, Swap, Leave, Was, Sending,
     Ending, Others, Receiving, recvVars, lifeVars
<1>22. ASSUME NEW t \in Workers, DisconnectEx(t) PROVE RecvInv'
  BY <1>22, DisconnectExStack DEF DisconnectEx, RecvInv, Types, Leave, Was, Sending,
     Ending, Others, Receiving, recvVars, lifeVars
<1>23. ASSUME NEW t \in Workers, TakeDisconnect(t) PROVE RecvInv'
  BY <1>23, TakeDisconnectStack DEF TakeDisconnect, RecvInv, Types, Begin, Others,
     Receiving, recvVars, lifeVars
<1>24. ASSUME NEW t \in Workers, ReleaseSession(t) PROVE RecvInv'
  BY <1>24, ReleaseSessionStack DEF ReleaseSession, RecvInv, Types, Leave, Was, Sending,
     Ending, Others, Receiving, recvVars, lifeVars
<1>25. ASSUME NEW t \in Workers, CallSend(t) PROVE RecvInv'
  BY <1>25, CallSendStack, Wider DEF CallSend, RecvInv, Others, Receiving, recvVars,
     lifeVars
<1>26. CASE KernelSends
  BY <1>26 DEF KernelSends, RecvInv, Types, recvVars, sendVars, lifeVars
<1>27. CASE KernelReceives
  BY <1>27 DEF KernelReceives, RecvInv, Types, recvVars, sendVars, lifeVars
<1>28. CASE UNCHANGED vars
  BY <1>28 DEF vars, RecvInv, recvVars, sendVars, lifeVars
<1>29. QED
  BY <1>1, <1>2, <1>3, <1>4, <1>5, <1>6, <1>7, <1>8, <1>9, <1>10, <1>11, <1>12, <1>13,
     <1>14, <1>15, <1>16, <1>17, <1>18, <1>19, <1>20, <1>21, <1>22, <1>23, <1>24, <1>25,
     <1>26, <1>27, <1>28 DEF Next, Step, SendStep, RecvStep, LifeStep

-----------------------------------------------------------------------------
(* The end: who has taken _connected away is alone with DisconnectEx.      *)
LifeInv ==
  /\ \A t, u \in Workers : Has(stack[t], {"disconnectEx"}) /\ Has(stack[u], {"disconnectEx"}) => t = u
  /\ \A t \in Workers : Has(stack[t], {"disconnectEx"}) => ~connected /\ disconnectOp = "none"
  /\ disconnectOp # "none" => ~connected /\ connectOp = "done"
  /\ disconnects = IF disconnectOp = "done" THEN 1 ELSE 0
  /\ \A t \in Workers : Has(stack[t], {"release"}) => disconnectOp = "done"
  /\ connectOp = "done" /\ disconnectOp # "done" =>
       inService \/ \E t \in Workers : Has(stack[t], {"addSession"})

LEMMA StepLifeInv ==
  ASSUME Stacks, Types, EarlyInv, LifeInv, [Next]_vars
  PROVE  LifeInv'
<1>1. ASSUME NEW t \in Workers, Push(t) PROVE LifeInv'
  BY <1>1, PushStack DEF Push, LifeInv, Types, Swap, Leave, Was, Sending, Ending,
     Others, lifeVars
<1>2. ASSUME NEW t \in Workers, RegisterSend(t) PROVE LifeInv'
  BY <1>2, RegisterSendStack DEF RegisterSend, LifeInv, Types, Swap, Leave, Was,
     Sending, Ending, Others, lifeVars
<1>3. ASSUME NEW t \in Workers, Fill(t) PROVE LifeInv'
  BY <1>3, FillStack DEF Fill, LifeInv, Types, Swap, Was, Sending, Ending, Others, lifeVars
<1>4. ASSUME NEW t \in Workers, WsaSend(t) PROVE LifeInv'
  BY <1>4, WsaSendStack DEF WsaSend, LifeInv, Types, Swap, Was, Sending, Ending, Others,
     lifeVars
<1>5. ASSUME NEW t \in Workers, SendLog(t) PROVE LifeInv'
  BY <1>5, SendLogStack DEF SendLog, LifeInv, Types, Leave, Was, Sending, Ending,
     Others, lifeVars
<1>6. ASSUME NEW t \in Workers, WsaSendFails(t) PROVE LifeInv'
  BY <1>6, WsaSendFailsStack DEF WsaSendFails, LifeInv, Types, Split, Swap, Was,
     Sending, Ending, Others, lifeVars
<1>7. ASSUME NEW t \in Workers, SendFailed(t) PROVE LifeInv'
  BY <1>7, SendFailedStack DEF SendFailed, LifeInv, Types, Swap, Was, Sending, Ending,
     Others, lifeVars
<1>8. ASSUME NEW t \in Workers, OpenGate(t) PROVE LifeInv'
  BY <1>8, OpenGateStack DEF OpenGate, LifeInv, Types, Leave, Was, Sending, Ending,
     Others, lifeVars
<1>9. ASSUME NEW t \in Workers, TakeSend(t) PROVE LifeInv'
  BY <1>9, TakeSendStack DEF TakeSend, LifeInv, Types, Begin, Others, lifeVars
<1>10. ASSUME NEW t \in Workers, SendNext(t) PROVE LifeInv'
  BY <1>10, SendNextStack DEF SendNext, LifeInv, Types, Leave, Split, Was, Sending,
     Ending, Others, lifeVars
<1>11. ASSUME NEW t \in Workers, Unlock(t) PROVE LifeInv'
  BY <1>11, UnlockStack DEF Unlock, LifeInv, Types, Leave, Was, Sending, Ending, Others,
     lifeVars
<1>12. ASSUME NEW t \in Workers, TakeConnect(t) PROVE LifeInv'
  <2>1. disconnectOp = "none" /\ \A u \in Workers : ~Has(stack[u], Places)
    BY <1>12 DEF TakeConnect, EarlyInv, Early
  <2>2. \A u \in Workers : ~Has(stack[u], {"disconnectEx"}) /\ ~Has(stack[u], {"release"})
    BY <2>1, Wider DEF Places
  <2> QED
    BY <1>12, <2>1, <2>2, TakeConnectStack DEF TakeConnect, LifeInv, Begin, Others
<1>13. ASSUME NEW t \in Workers, AddSession(t) PROVE LifeInv'
  BY <1>13, AddSessionStack DEF AddSession, LifeInv, Types, Swap, Was, Sending, Ending,
     Others, lifeVars
<1>14. ASSUME NEW t \in Workers, RegisterRecv(t) PROVE LifeInv'
  BY <1>14, RegisterRecvStack DEF RegisterRecv, LifeInv, Types, Swap, Leave, Was,
     Sending, Ending, Others, lifeVars
<1>15. ASSUME NEW t \in Workers, WsaRecv(t) PROVE LifeInv'
  BY <1>15, WsaRecvStack DEF WsaRecv, LifeInv, Types, Leave, Was, Sending, Ending,
     Others, lifeVars
<1>16. ASSUME NEW t \in Workers, WsaRecvFails(t) PROVE LifeInv'
  BY <1>16, WsaRecvFailsStack DEF WsaRecvFails, LifeInv, Types, Leave, Swap, Was,
     Sending, Ending, Others, lifeVars
<1>17. ASSUME NEW t \in Workers, TakeRecv(t) PROVE LifeInv'
  BY <1>17, TakeRecvStack DEF TakeRecv, LifeInv, Types, Begin, Others, lifeVars
<1>18. ASSUME NEW t \in Workers, ParsePacket(t) PROVE LifeInv'
  BY <1>18, ParsePacketStack DEF ParsePacket, LifeInv, Types, Swap, Was, Sending,
     Ending, Others, lifeVars
<1>19. ASSUME NEW t \in Workers, HandlerReturns(t) PROVE LifeInv'
  BY <1>19, HandlerReturnsStack DEF HandlerReturns, LifeInv, Types, Swap, Was, Sending,
     Ending, Others, lifeVars
<1>20. ASSUME NEW t \in Workers, EndRecv(t) PROVE LifeInv'
  BY <1>20, EndRecvStack DEF EndRecv, LifeInv, Types, Swap, Was, Sending, Ending,
     Others, lifeVars
<1>21. ASSUME NEW t \in Workers, Disconnect(t) PROVE LifeInv'
  <2>1. connectOp = "done"
    <3>1. ~Early
      BY <1>21, DisconnectStack, Busy DEF Swap, Leave, Places
    <3> QED
      BY <3>1 DEF Early, Types
  <2> QED
    BY <1>21, <2>1, DisconnectStack DEF Disconnect, LifeInv, Types, Swap, Leave, Was,
       Sending, Ending, Others
<1>22. ASSUME NEW t \in Workers, DisconnectEx(t) PROVE LifeInv'
  <2>1. connectOp = "done"
    <3>1. ~Early
      BY <1>22, DisconnectExStack, Busy DEF Leave, Places
    <3> QED
      BY <3>1 DEF Early, Types
  <2> QED
    BY <1>22, <2>1, DisconnectExStack DEF DisconnectEx, LifeInv, Types, Leave, Was,
       Sending, Ending, Others
<1>23. ASSUME NEW t \in Workers, TakeDisconnect(t) PROVE LifeInv'
  <2>1. disconnectOp = "posted" /\ disconnectOp' = "done" /\ disconnects' = disconnects + 1
        /\ UNCHANGED <<connected, inService, connectOp>>
    BY <1>23 DEF TakeDisconnect
  <2>2. disconnects' = 1
    BY <2>1 DEF LifeInv
  <2>3. \A u \in Workers : ~Has(stack[u], {"disconnectEx"})
    BY <2>1 DEF LifeInv
  <2>4. ~Has(stack'[t], {"disconnectEx"}) /\ \A u \in Workers : u # t => stack'[u] = stack[u]
    BY <1>23, TakeDisconnectStack DEF Begin, Others
  <2> QED
    BY <2>1, <2>2, <2>3, <2>4 DEF LifeInv
<1>24. ASSUME NEW t \in Workers, ReleaseSession(t) PROVE LifeInv'
  BY <1>24, ReleaseSessionStack DEF ReleaseSession, LifeInv, Types, Leave, Was, Sending,
     Ending, Others, lifeVars
<1>25. ASSUME NEW t \in Workers, CallSend(t) PROVE LifeInv'
  BY <1>25, CallSendStack DEF CallSend, LifeInv, Others, lifeVars
<1>26. CASE KernelSends
  BY <1>26 DEF KernelSends, LifeInv, recvVars, sendVars, lifeVars
<1>27. CASE KernelReceives
  BY <1>27 DEF KernelReceives, LifeInv, recvVars, sendVars, lifeVars
<1>28. CASE UNCHANGED vars
  BY <1>28 DEF vars, LifeInv, recvVars, sendVars, lifeVars
<1>29. QED
  BY <1>1, <1>2, <1>3, <1>4, <1>5, <1>6, <1>7, <1>8, <1>9, <1>10, <1>11, <1>12, <1>13,
     <1>14, <1>15, <1>16, <1>17, <1>18, <1>19, <1>20, <1>21, <1>22, <1>23, <1>24, <1>25,
     <1>26, <1>27, <1>28 DEF Next, Step, SendStep, RecvStep, LifeStep

-----------------------------------------------------------------------------
(* The receive buffer.                                                     *)
Parsing == \E t \in Workers : Has(stack[t], {"parse", "handler"})
AtRoom  == \/ connectOp = "posted"
           \/ \E t \in Workers : Has(stack[t], {"addSession", "registerRecv", "wsaRecv"})

(* Where the bytes not yet handled begin and end in the buffer.            *)
First == readPos + (IF Parsing THEN processLen ELSE 0)
Limit == writePos + (IF recvOp = "done" THEN recvBytes ELSE 0)

(* Between First and Limit the buffer has the stream from handled on, and  *)
(* handled is where a packet starts; a handler runs on a packet that is    *)
(* there whole; and before a receive there is room for a packet.           *)
BufferInv ==
  /\ readPos \in Nat /\ writePos \in Nat /\ processLen \in Nat /\ handled \in Nat
  /\ buffer \in [Cells -> 0 .. StreamLength]
  /\ First <= writePos /\ Limit <= Capacity
  /\ arrived = handled + (Limit - First)
  /\ \A i \in First .. Limit - 1 : buffer[i] = handled + (i - First)
  /\ handled \in DOMAIN Sizes \cup {StreamLength}
  /\ processLen <= handled
  /\ \A t \in Workers : Has(stack[t], {"handler"}) => PacketHere
  /\ AtRoom => FreeSize >= BufferSize

LEMMA CapacityRoom ==
  /\ Capacity \in Nat /\ BufferSize \in Nat /\ BufferSize > 0
  /\ Capacity >= 2 * BufferSize
  /\ BufferCount >= 3 => Capacity >= 3 * BufferSize
<1>1. BufferSize \in Nat /\ BufferSize > 0 /\ BufferCount \in Nat /\ BufferCount >= 2
  BY BufferSizeAssumption, BufferCountAssumption
<1>2. \A b \in Nat, c \in Nat : c >= 2 => b * c >= 2 * b
  OBVIOUS
<1>3. \A b \in Nat, c \in Nat : c >= 3 => b * c >= 3 * b
  OBVIOUS
<1>4. \A b \in Nat, c \in Nat : b * c \in Nat
  OBVIOUS
<1> QED
  BY <1>1, <1>2, <1>3, <1>4 DEF Capacity

LEMMA SizesFit ==
  ASSUME NEW h \in DOMAIN Sizes
  PROVE  /\ h \in Nat /\ Sizes[h] \in Nat /\ HeaderSize \in Nat /\ HeaderSize > 0
         /\ HeaderSize <= Sizes[h] /\ Sizes[h] <= BufferSize - 1
         /\ h + Sizes[h] \in DOMAIN Sizes \cup {StreamLength}
BY SizesAssumption, BufferSizeAssumption

(* A whole header, or packet, where parsing has come to.                   *)
LEMMA HeaderThere ==
  ASSUME Types, BufferInv, Parsing, recvOp = "none", Unparsed >= HeaderSize
  PROVE  /\ handled \in DOMAIN Sizes
         /\ HeaderAt(readPos + processLen) = Sizes[handled]
<1>1. HeaderSize \in Nat /\ HeaderSize > 0 /\ StreamLength \in Nat
  BY SizesAssumption
<1>2. First = readPos + processLen /\ Limit = writePos
  BY DEF First, Limit, BufferInv
<1>3. First < Limit
  BY <1>1, <1>2 DEF BufferInv, Unparsed, DataSize
<1>4. buffer[First] = handled
  BY <1>2, <1>3 DEF BufferInv
<1>5. handled < StreamLength
  BY <1>1, <1>2, <1>3 DEF BufferInv, Types
<1>6. handled \in DOMAIN Sizes
  BY <1>5 DEF BufferInv
<1> QED
  BY <1>2, <1>4, <1>6 DEF HeaderAt

LEMMA BufferKept ==
  ASSUME BufferInv, UNCHANGED <<recvVars, connectOp>>,
         \A u \in Workers :
           /\ Has(stack'[u], {"parse", "handler"}) <=> Has(stack[u], {"parse", "handler"})
           /\ Has(stack'[u], {"handler"}) => Has(stack[u], {"handler"})
           /\ Has(stack'[u], {"addSession", "registerRecv", "wsaRecv"})
                => Has(stack[u], {"addSession", "registerRecv", "wsaRecv"})
  PROVE  BufferInv'
<1>1. Parsing' <=> Parsing
  BY DEF Parsing
<1>2. First' = First /\ Limit' = Limit
  BY <1>1 DEF First, Limit, recvVars
<1>3. PacketHere' <=> PacketHere
  BY DEF PacketHere, Unparsed, DataSize, HeaderAt, recvVars
<1>4. AtRoom' => AtRoom
  BY DEF AtRoom
<1>5. FreeSize' = FreeSize
  BY DEF FreeSize, recvVars
<1> QED
  BY <1>2, <1>3, <1>4, <1>5 DEF BufferInv, recvVars

LEMMA ReceivingOnly ==
  ASSUME NEW u,
         \/ Has(stack[u], {"parse", "handler"}) \/ Has(stack[u], {"handler"})
         \/ Has(stack[u], {"addSession", "registerRecv", "wsaRecv"})
  PROVE  Has(stack[u], Receiving)
BY Wider DEF Receiving

(* The step of a worker that is not receiving and does not begin to.       *)
LEMMA ReceiverAlone ==
  ASSUME RecvInv, NEW t \in Workers, Has(stack[t], Receiving)
  PROVE  /\ recvOp = "none" /\ connectOp = "done"
         /\ \A u \in Workers : u # t =>
              /\ ~Has(stack[u], {"parse", "handler"}) /\ ~Has(stack[u], {"handler"})
              /\ ~Has(stack[u], {"addSession", "registerRecv", "wsaRecv"})
BY ReceivingOnly DEF RecvInv

LEMMA NoReceiver ==
  ASSUME RecvInv, recvOp # "none"
  PROVE  /\ connectOp = "done"
         /\ \A u \in Workers :
              /\ ~Has(stack[u], {"parse", "handler"}) /\ ~Has(stack[u], {"handler"})
              /\ ~Has(stack[u], {"addSession", "registerRecv", "wsaRecv"})
BY ReceivingOnly DEF RecvInv

(* What is left of the stream when parsing ends is less than a packet.     *)
LEMMA EndLeft ==
  ASSUME Types, BufferInv, Parsing, recvOp = "none", ~PacketHere
  PROVE  /\ Unparsed = writePos - First /\ Unparsed \in Nat
         /\ Unparsed <= BufferSize - 2
<1>1. First = readPos + processLen
  BY DEF First
<1>2. Unparsed = writePos - First /\ Unparsed \in Nat
  BY <1>1 DEF BufferInv, Unparsed, DataSize
<1>3. /\ HeaderSize \in Nat /\ HeaderSize <= BufferSize - 1 /\ BufferSize \in Nat
  <2>1. 0 \in DOMAIN Sizes
    BY SizesAssumption
  <2> QED
    BY <2>1, SizesFit, BufferSizeAssumption
<1>4. CASE Unparsed < HeaderSize
  BY <1>2, <1>3, <1>4
<1>5. CASE Unparsed >= HeaderSize
  <2>1. handled \in DOMAIN Sizes /\ HeaderAt(readPos + processLen) = Sizes[handled]
    BY <1>5, HeaderThere
  <2>2. ~(Unparsed >= Sizes[handled])
    BY <1>5, <2>1 DEF PacketHere
  <2> QED
    BY <1>2, <1>3, <2>1, <2>2, SizesFit
<1> QED
  BY <1>2, <1>3, <1>4, <1>5

LEMMA StepBufferInv ==
  ASSUME Stacks, Types, EarlyInv, RecvInv, BufferInv, [Next]_vars
  PROVE  BufferInv'
<1>1. ASSUME NEW t \in Workers, Push(t) PROVE BufferInv'
  <2>1. \A u \in Workers :
          /\ Has(stack'[u], {"parse", "handler"}) <=> Has(stack[u], {"parse", "handler"})
          /\ Has(stack'[u], {"handler"}) => Has(stack[u], {"handler"})
          /\ Has(stack'[u], {"addSession", "registerRecv", "wsaRecv"})
                 => Has(stack[u], {"addSession", "registerRecv", "wsaRecv"})
    BY <1>1, PushStack DEF Swap, Leave, Was, Sending, Ending, Others
  <2> QED
    BY <1>1, <2>1, BufferKept DEF Push, lifeVars
<1>2. ASSUME NEW t \in Workers, RegisterSend(t) PROVE BufferInv'
  <2>1. \A u \in Workers :
          /\ Has(stack'[u], {"parse", "handler"}) <=> Has(stack[u], {"parse", "handler"})
          /\ Has(stack'[u], {"handler"}) => Has(stack[u], {"handler"})
          /\ Has(stack'[u], {"addSession", "registerRecv", "wsaRecv"})
                 => Has(stack[u], {"addSession", "registerRecv", "wsaRecv"})
    BY <1>2, RegisterSendStack DEF Swap, Leave, Was, Sending, Ending, Others
  <2> QED
    BY <1>2, <2>1, BufferKept DEF RegisterSend, lifeVars
<1>3. ASSUME NEW t \in Workers, Fill(t) PROVE BufferInv'
  <2>1. \A u \in Workers :
          /\ Has(stack'[u], {"parse", "handler"}) <=> Has(stack[u], {"parse", "handler"})
          /\ Has(stack'[u], {"handler"}) => Has(stack[u], {"handler"})
          /\ Has(stack'[u], {"addSession", "registerRecv", "wsaRecv"})
                 => Has(stack[u], {"addSession", "registerRecv", "wsaRecv"})
    BY <1>3, FillStack DEF Swap, Was, Sending, Ending, Others
  <2> QED
    BY <1>3, <2>1, BufferKept DEF Fill, lifeVars
<1>4. ASSUME NEW t \in Workers, WsaSend(t) PROVE BufferInv'
  <2>1. \A u \in Workers :
          /\ Has(stack'[u], {"parse", "handler"}) <=> Has(stack[u], {"parse", "handler"})
          /\ Has(stack'[u], {"handler"}) => Has(stack[u], {"handler"})
          /\ Has(stack'[u], {"addSession", "registerRecv", "wsaRecv"})
                 => Has(stack[u], {"addSession", "registerRecv", "wsaRecv"})
    BY <1>4, WsaSendStack DEF Swap, Was, Sending, Ending, Others
  <2> QED
    BY <1>4, <2>1, BufferKept DEF WsaSend, lifeVars
<1>5. ASSUME NEW t \in Workers, SendLog(t) PROVE BufferInv'
  <2>1. \A u \in Workers :
          /\ Has(stack'[u], {"parse", "handler"}) <=> Has(stack[u], {"parse", "handler"})
          /\ Has(stack'[u], {"handler"}) => Has(stack[u], {"handler"})
          /\ Has(stack'[u], {"addSession", "registerRecv", "wsaRecv"})
                 => Has(stack[u], {"addSession", "registerRecv", "wsaRecv"})
    BY <1>5, SendLogStack DEF Leave, Was, Sending, Ending, Others
  <2> QED
    BY <1>5, <2>1, BufferKept DEF SendLog, lifeVars
<1>6. ASSUME NEW t \in Workers, WsaSendFails(t) PROVE BufferInv'
  <2>1. \A u \in Workers :
          /\ Has(stack'[u], {"parse", "handler"}) <=> Has(stack[u], {"parse", "handler"})
          /\ Has(stack'[u], {"handler"}) => Has(stack[u], {"handler"})
          /\ Has(stack'[u], {"addSession", "registerRecv", "wsaRecv"})
                 => Has(stack[u], {"addSession", "registerRecv", "wsaRecv"})
    BY <1>6, WsaSendFailsStack DEF Split, Swap, Was, Sending, Ending, Others
  <2> QED
    BY <1>6, <2>1, BufferKept DEF WsaSendFails, lifeVars
<1>7. ASSUME NEW t \in Workers, SendFailed(t) PROVE BufferInv'
  <2>1. \A u \in Workers :
          /\ Has(stack'[u], {"parse", "handler"}) <=> Has(stack[u], {"parse", "handler"})
          /\ Has(stack'[u], {"handler"}) => Has(stack[u], {"handler"})
          /\ Has(stack'[u], {"addSession", "registerRecv", "wsaRecv"})
                 => Has(stack[u], {"addSession", "registerRecv", "wsaRecv"})
    BY <1>7, SendFailedStack DEF Swap, Was, Sending, Ending, Others
  <2> QED
    BY <1>7, <2>1, BufferKept DEF SendFailed, lifeVars
<1>8. ASSUME NEW t \in Workers, OpenGate(t) PROVE BufferInv'
  <2>1. \A u \in Workers :
          /\ Has(stack'[u], {"parse", "handler"}) <=> Has(stack[u], {"parse", "handler"})
          /\ Has(stack'[u], {"handler"}) => Has(stack[u], {"handler"})
          /\ Has(stack'[u], {"addSession", "registerRecv", "wsaRecv"})
                 => Has(stack[u], {"addSession", "registerRecv", "wsaRecv"})
    BY <1>8, OpenGateStack DEF Leave, Was, Sending, Ending, Others
  <2> QED
    BY <1>8, <2>1, BufferKept DEF OpenGate, lifeVars
<1>9. ASSUME NEW t \in Workers, TakeSend(t) PROVE BufferInv'
  <2>1. \A u \in Workers :
          /\ Has(stack'[u], {"parse", "handler"}) <=> Has(stack[u], {"parse", "handler"})
          /\ Has(stack'[u], {"handler"}) => Has(stack[u], {"handler"})
          /\ Has(stack'[u], {"addSession", "registerRecv", "wsaRecv"})
                 => Has(stack[u], {"addSession", "registerRecv", "wsaRecv"})
    BY <1>9, TakeSendStack DEF Begin, Others
  <2> QED
    BY <1>9, <2>1, BufferKept DEF TakeSend, lifeVars
<1>10. ASSUME NEW t \in Workers, SendNext(t) PROVE BufferInv'
  <2>1. \A u \in Workers :
          /\ Has(stack'[u], {"parse", "handler"}) <=> Has(stack[u], {"parse", "handler"})
          /\ Has(stack'[u], {"handler"}) => Has(stack[u], {"handler"})
          /\ Has(stack'[u], {"addSession", "registerRecv", "wsaRecv"})
                 => Has(stack[u], {"addSession", "registerRecv", "wsaRecv"})
    BY <1>10, SendNextStack DEF Leave, Split, Was, Sending, Ending, Others
  <2> QED
    BY <1>10, <2>1, BufferKept DEF SendNext, lifeVars
<1>11. ASSUME NEW t \in Workers, Unlock(t) PROVE BufferInv'
  <2>1. \A u \in Workers :
          /\ Has(stack'[u], {"parse", "handler"}) <=> Has(stack[u], {"parse", "handler"})
          /\ Has(stack'[u], {"handler"}) => Has(stack[u], {"handler"})
          /\ Has(stack'[u], {"addSession", "registerRecv", "wsaRecv"})
                 => Has(stack[u], {"addSession", "registerRecv", "wsaRecv"})
    BY <1>11, UnlockStack DEF Leave, Was, Sending, Ending, Others
  <2> QED
    BY <1>11, <2>1, BufferKept DEF Unlock, lifeVars
<1>12. ASSUME NEW t \in Workers, TakeConnect(t) PROVE BufferInv'
  <2>1. /\ \A u \in Workers : ~Has(stack[u], Receiving)
        /\ FreeSize >= BufferSize
    BY <1>12 DEF TakeConnect, RecvInv, BufferInv, AtRoom
  <2>2. \A u \in Workers : ~Has(stack[u], {"parse", "handler"}) /\ ~Has(stack[u], {"handler"})
    BY <2>1, ReceivingOnly
  <2>3. \A u \in Workers : ~Has(stack'[u], {"parse", "handler"}) /\ ~Has(stack'[u], {"handler"})
    BY <1>12, <2>2, TakeConnectStack DEF Begin, Others
  <2>4. First' = First /\ Limit' = Limit /\ FreeSize' = FreeSize
    BY <1>12, <2>2, <2>3 DEF TakeConnect, recvVars, First, Limit, FreeSize, Parsing
  <2> QED
    BY <1>12, <2>1, <2>3, <2>4 DEF TakeConnect, recvVars, BufferInv
<1>13. ASSUME NEW t \in Workers, AddSession(t) PROVE BufferInv'
  <2>1. \A u \in Workers :
          /\ Has(stack'[u], {"parse", "handler"}) <=> Has(stack[u], {"parse", "handler"})
          /\ Has(stack'[u], {"handler"}) => Has(stack[u], {"handler"})
          /\ Has(stack'[u], {"addSession", "registerRecv", "wsaRecv"})
                 => Has(stack[u], {"addSession", "registerRecv", "wsaRecv"})
    BY <1>13, AddSessionStack DEF Swap, Was, Sending, Ending, Others
  <2> QED
    BY <1>13, <2>1, BufferKept DEF AddSession, lifeVars
<1>14. ASSUME NEW t \in Workers, RegisterRecv(t) PROVE BufferInv'
  <2>1. \A u \in Workers :
          /\ Has(stack'[u], {"parse", "handler"}) <=> Has(stack[u], {"parse", "handler"})
          /\ Has(stack'[u], {"handler"}) => Has(stack[u], {"handler"})
          /\ Has(stack'[u], {"addSession", "registerRecv", "wsaRecv"})
                 => Has(stack[u], {"addSession", "registerRecv", "wsaRecv"})
    BY <1>14, RegisterRecvStack DEF Swap, Leave, Was, Sending, Ending, Others
  <2> QED
    BY <1>14, <2>1, BufferKept DEF RegisterRecv, lifeVars
<1>15. ASSUME NEW t \in Workers, WsaRecv(t) PROVE BufferInv'
  <2>1. /\ Has(stack[t], {"addSession", "registerRecv", "wsaRecv"}) /\ \A P : ~Has(stack'[t], P)
        /\ \A u \in Workers : u # t => stack'[u] = stack[u]
    BY <1>15, WsaRecvStack DEF Leave, Was, Sending, Ending, Others
  <2>2. recvOp = "none" /\ connectOp = "done"
    BY <2>1, ReceivingOnly, ReceiverAlone
  <2>3. ~Has(stack[t], {"parse", "handler"}) /\ ~Has(stack[t], {"handler"})
    BY <1>15, WsaRecvStack DEF Leave, Was, Sending, Ending
  <2>4. First' = First /\ Limit' = Limit /\ (PacketHere' <=> PacketHere)
    BY <1>15, <2>1, <2>2, <2>3 DEF WsaRecv, First, Limit, Parsing, PacketHere, Unparsed,
       DataSize, HeaderAt
  <2>5. FreeSize' = FreeSize /\ connectOp' = connectOp /\ (AtRoom' => AtRoom)
    BY <1>15, <2>1 DEF WsaRecv, FreeSize, AtRoom, lifeVars
  <2> QED
    BY <1>15, <2>1, <2>4, <2>5 DEF WsaRecv, BufferInv
<1>16. ASSUME NEW t \in Workers, WsaRecvFails(t) PROVE BufferInv'
  <2>1. \A u \in Workers :
          /\ Has(stack'[u], {"parse", "handler"}) <=> Has(stack[u], {"parse", "handler"})
          /\ Has(stack'[u], {"handler"}) => Has(stack[u], {"handler"})
          /\ Has(stack'[u], {"addSession", "registerRecv", "wsaRecv"})
                 => Has(stack[u], {"addSession", "registerRecv", "wsaRecv"})
    BY <1>16, WsaRecvFailsStack DEF Leave, Swap, Was, Sending, Ending, Others
  <2> QED
    BY <1>16, <2>1, BufferKept DEF WsaRecvFails, lifeVars
<1>17. ASSUME NEW t \in Workers, TakeRecv(t) PROVE BufferInv'
  <2>1. recvOp = "done" /\ recvOp' = "none" /\ connectOp = "done" /\ connectOp' = "done"
    BY <1>17, NoReceiver DEF TakeRecv, lifeVars
  <2>2. \A u \in Workers : /\ ~Has(stack[u], {"parse", "handler"}) /\ ~Has(stack[u], {"handler"})
                         /\ ~Has(stack[u], {"addSession", "registerRecv", "wsaRecv"})
    BY <2>1, NoReceiver
  <2>3. \A u \in Workers : ~Has(stack'[u], {"handler"}) /\ ~Has(stack'[u], {"addSession", "registerRecv", "wsaRecv"})
    BY <1>17, <2>2, TakeRecvStack DEF Begin, Others
  <2>4. ~AtRoom'
    BY <2>1, <2>3 DEF AtRoom
  <2>5. /\ First = readPos /\ Limit = writePos + recvBytes /\ recvBytes \in Nat
        /\ ~(recvBytes > FreeSize)
    BY <2>1, <2>2, CapacityRoom, SizesAssumption DEF First, Limit, Parsing, BufferInv,
       FreeSize, Types
  <2>6. CASE recvBytes = 0
    <3>1. \A u \in Workers : ~Has(stack'[u], {"parse", "handler"})
      BY <1>17, <2>2, <2>6, TakeRecvStack DEF Begin, Others
    <3>2. UNCHANGED <<readPos, writePos, processLen, buffer, arrived, handled>>
      BY <1>17, <2>6 DEF TakeRecv
    <3>3. First' = First /\ Limit' = Limit
      BY <2>1, <2>5, <2>6, <3>1, <3>2 DEF First, Limit, Parsing, BufferInv
    <3> QED
      BY <2>3, <2>4, <3>2, <3>3 DEF BufferInv
  <2>7. CASE recvBytes # 0
    <3>1. /\ writePos' = writePos + recvBytes /\ processLen' = 0
          /\ UNCHANGED <<readPos, buffer, arrived, handled>>
      BY <1>17, <2>5, <2>7 DEF TakeRecv, OnWrite
    <3>2. First' = First /\ Limit' = Limit
      BY <2>1, <2>5, <3>1 DEF First, Limit, BufferInv
    <3> QED
      BY <2>3, <2>4, <2>5, <3>1, <3>2 DEF BufferInv
  <2> QED
    BY <2>6, <2>7
<1>18. ASSUME NEW t \in Workers, ParsePacket(t) PROVE BufferInv'
  <2>1. \A u \in Workers :
          /\ Has(stack'[u], {"parse", "handler"}) <=> Has(stack[u], {"parse", "handler"})
          /\ Has(stack'[u], {"addSession", "registerRecv", "wsaRecv"})
                 => Has(stack[u], {"addSession", "registerRecv", "wsaRecv"})
    BY <1>18, ParsePacketStack DEF Swap, Was, Sending, Ending, Others
  <2>2. First' = First /\ Limit' = Limit /\ (PacketHere' <=> PacketHere)
    BY <1>18, <2>1 DEF ParsePacket, recvVars, First, Limit, Parsing, PacketHere,
       Unparsed, DataSize, HeaderAt
  <2>3. FreeSize' = FreeSize /\ (AtRoom' => AtRoom)
    BY <1>18, <2>1 DEF ParsePacket, recvVars, lifeVars, FreeSize, AtRoom
  <2> QED
    BY <1>18, <2>2, <2>3 DEF ParsePacket, recvVars, BufferInv
<1>19. ASSUME NEW t \in Workers, HandlerReturns(t) PROVE BufferInv'
  <2>1. Has(stack[t], {"handler"}) /\ Has(stack[t], {"parse", "handler"}) /\ Has(stack'[t], {"parse", "handler"})
    BY <1>19, HandlerReturnsStack DEF Swap, Was, Sending, Ending
  <2>2. /\ ~Has(stack'[t], {"handler"})
        /\ ~Has(stack'[t], {"addSession", "registerRecv", "wsaRecv"})
        /\ \A u \in Workers : u # t => stack'[u] = stack[u]
    BY <1>19, HandlerReturnsStack DEF Swap, Was, Sending, Ending, Others
  <2>3. /\ recvOp = "none" /\ connectOp = "done"
        /\ \A u \in Workers : u # t => ~Has(stack[u], {"handler"}) /\ ~Has(stack[u], {"addSession", "registerRecv", "wsaRecv"})
    BY <2>1, ReceivingOnly, ReceiverAlone
  <2>4. \A u \in Workers : ~Has(stack'[u], {"handler"}) /\ ~Has(stack'[u], {"addSession", "registerRecv", "wsaRecv"})
    BY <2>2, <2>3
  <2>5. Parsing /\ Parsing' /\ ~AtRoom'
    BY <1>19, <2>1, <2>3, <2>4 DEF HandlerReturns, lifeVars, Parsing, AtRoom
  <2>6. PacketHere
    BY <2>1 DEF BufferInv
  <2> DEFINE h == Sizes[handled]
  <2>7. /\ handled \in DOMAIN Sizes /\ HeaderAt(readPos + processLen) = h /\ Unparsed >= h
    BY <2>3, <2>5, <2>6, HeaderThere DEF PacketHere
  <2>8. h \in Nat /\ handled + h \in DOMAIN Sizes \cup {StreamLength}
    BY <2>7, SizesFit
  <2>9. /\ processLen' = processLen + h /\ handled' = handled + h
        /\ UNCHANGED <<readPos, writePos, buffer, recvOp, recvBytes, arrived>>
    BY <1>19, <2>7 DEF HandlerReturns
  <2>10. /\ First = readPos + processLen /\ Limit = writePos
         /\ First' = readPos + processLen' /\ Limit' = writePos
    BY <2>3, <2>5, <2>9 DEF First, Limit, BufferInv
  <2> HIDE DEF h
  <2>11. First' = First + h /\ Limit' = Limit
    BY <2>8, <2>9, <2>10 DEF BufferInv
  <2>12. First' <= writePos'
    BY <2>7, <2>8, <2>9, <2>10 DEF BufferInv, Unparsed, DataSize
  <2>13. arrived' = handled' + (Limit' - First')
    BY <2>8, <2>9, <2>10, <2>11 DEF BufferInv
  <2>14. \A i \in First' .. Limit' - 1 : buffer'[i] = handled' + (i - First')
    BY <2>8, <2>9, <2>10, <2>11 DEF BufferInv
  <2>15. processLen' \in Nat /\ handled' \in Nat /\ processLen' <= handled'
    BY <2>8, <2>9 DEF BufferInv
  <2> QED
    BY <2>4, <2>5, <2>8, <2>9, <2>11, <2>12, <2>13, <2>14, <2>15 DEF BufferInv
<1>20. ASSUME NEW t \in Workers, EndRecv(t) PROVE BufferInv'
  <2>1. Has(stack[t], {"parse", "handler"}) /\ Parsing
    BY <1>20, EndRecvStack DEF Swap, Was, Sending, Ending, Parsing
  <2>2. /\ recvOp = "none" /\ connectOp = "done"
        /\ \A u \in Workers : u # t => /\ ~Has(stack[u], {"parse", "handler"}) /\ ~Has(stack[u], {"handler"})
                                    /\ ~Has(stack[u], {"addSession", "registerRecv", "wsaRecv"})
    BY <2>1, ReceivingOnly, ReceiverAlone
  <2>3. First = readPos + processLen /\ Limit = writePos
    BY <2>1, <2>2 DEF First, Limit, BufferInv
  <2>4. ~(processLen > DataSize)
    BY <2>3 DEF BufferInv, DataSize
  <2>5. /\ OnReadAndClean(First) /\ ~PacketHere
        /\ UNCHANGED <<processLen, recvOp, recvBytes, arrived, handled>>
    BY <1>20, <2>3, <2>4 DEF EndRecv
  <2>6. \A u \in Workers : ~Has(stack'[u], {"parse", "handler"}) /\ ~Has(stack'[u], {"handler"})
    BY <1>20, <2>2, <2>4, EndRecvStack DEF Swap, Was, Sending, Ending, Others
  <2>7. First' = readPos' /\ Limit' = writePos'
    <3>1. ~Parsing'
      BY <2>6 DEF Parsing
    <3>2. recvOp' = "none"
      BY <2>2, <2>5
    <3>3. readPos' \in Nat /\ writePos' \in Nat
      BY <2>3, <2>5 DEF OnReadAndClean, BufferInv
    <3>4. First' = readPos' + 0
      BY <3>1 DEF First
    <3>5. Limit' = writePos' + 0
      BY <3>2 DEF Limit
    <3>6. \A x \in Nat : x + 0 = x
      OBVIOUS
    <3> QED
      BY <3>3, <3>4, <3>5, <3>6
  <2>8. writePos - First <= BufferSize
    BY <2>1, <2>2, <2>3, <2>5, EndLeft, CapacityRoom
  <2>9. CASE writePos = First
    <3>1. readPos' = 0 /\ writePos' = 0 /\ buffer' = buffer
      BY <2>5, <2>9 DEF OnReadAndClean
    <3>2. FreeSize' >= BufferSize
      BY <3>1, CapacityRoom DEF FreeSize
    <3> QED
      BY <2>3, <2>5, <2>6, <2>7, <2>9, <3>1, <3>2, CapacityRoom DEF BufferInv
  <2>10. CASE writePos # First /\ MoveDue
    <3>1. readPos' = 0 /\ writePos' = writePos - First /\ buffer' = Moved(First)
      BY <2>5, <2>10 DEF OnReadAndClean
    <3>2. FreeSize' >= BufferSize /\ writePos' <= Capacity
      BY <2>3, <2>8, <3>1, CapacityRoom DEF FreeSize, BufferInv
    <3>3. \A i \in 0 .. writePos' - 1 : buffer'[i] = buffer[First + i]
      <4>1. \A i \in 0 .. writePos' - 1 : i \in Cells
        BY <2>3, <3>1, <3>2, CapacityRoom DEF Cells, BufferInv
      <4> QED
        BY <2>3, <3>1, <4>1 DEF Moved, BufferInv
    <3>4. \A i \in 0 .. writePos' - 1 : buffer'[i] = handled + i
      <4> TAKE i \in 0 .. writePos' - 1
      <4>1. First + i \in First .. Limit - 1 /\ (First + i) - First = i
        BY <2>3, <3>1 DEF BufferInv
      <4> QED
        BY <3>3, <4>1 DEF BufferInv
    <3>5. buffer' \in [Cells -> 0 .. StreamLength]
      <4>1. \A i \in Cells : i < writePos - First => First + i \in Cells
        BY <2>3, CapacityRoom DEF Cells, BufferInv
      <4> QED
        BY <3>1, <4>1 DEF Moved, BufferInv
    <3>6. readPos' \in Nat /\ writePos' \in Nat /\ First' = 0 /\ Limit' = writePos - First
      BY <2>3, <2>7, <3>1 DEF BufferInv
    <3>7. \A i \in First' .. Limit' - 1 : buffer'[i] = handled' + (i - First')
      BY <2>5, <3>1, <3>4, <3>6 DEF BufferInv
    <3>8. First' <= writePos' /\ Limit' <= Capacity /\ arrived' = handled' + (Limit' - First')
      BY <2>3, <2>5, <3>1, <3>2, <3>6 DEF BufferInv
    <3> QED
      BY <2>5, <2>6, <3>2, <3>5, <3>6, <3>7, <3>8 DEF BufferInv
  <2>11. CASE writePos # First /\ ~MoveDue
    <3>1. readPos' = First /\ writePos' = writePos /\ buffer' = buffer
      BY <2>5, <2>11 DEF OnReadAndClean
    <3>2. FreeSize' >= BufferSize
      BY <2>11, <3>1, CapacityRoom DEF FreeSize, MoveDue, BufferInv
    <3> QED
      BY <2>3, <2>5, <2>6, <2>7, <3>1, <3>2 DEF BufferInv
  <2> QED
    BY <2>9, <2>10, <2>11
<1>21. ASSUME NEW t \in Workers, Disconnect(t) PROVE BufferInv'
  <2>1. \A u \in Workers :
          /\ Has(stack'[u], {"parse", "handler"}) <=> Has(stack[u], {"parse", "handler"})
          /\ Has(stack'[u], {"handler"}) => Has(stack[u], {"handler"})
          /\ Has(stack'[u], {"addSession", "registerRecv", "wsaRecv"})
                 => Has(stack[u], {"addSession", "registerRecv", "wsaRecv"})
    BY <1>21, DisconnectStack DEF Swap, Leave, Was, Sending, Ending, Others
  <2> QED
    BY <1>21, <2>1, BufferKept DEF Disconnect, lifeVars
<1>22. ASSUME NEW t \in Workers, DisconnectEx(t) PROVE BufferInv'
  <2>1. \A u \in Workers :
          /\ Has(stack'[u], {"parse", "handler"}) <=> Has(stack[u], {"parse", "handler"})
          /\ Has(stack'[u], {"handler"}) => Has(stack[u], {"handler"})
          /\ Has(stack'[u], {"addSession", "registerRecv", "wsaRecv"})
                 => Has(stack[u], {"addSession", "registerRecv", "wsaRecv"})
    BY <1>22, DisconnectExStack DEF Leave, Was, Sending, Ending, Others
  <2> QED
    BY <1>22, <2>1, BufferKept DEF DisconnectEx, lifeVars
<1>23. ASSUME NEW t \in Workers, TakeDisconnect(t) PROVE BufferInv'
  <2>1. \A u \in Workers :
          /\ Has(stack'[u], {"parse", "handler"}) <=> Has(stack[u], {"parse", "handler"})
          /\ Has(stack'[u], {"handler"}) => Has(stack[u], {"handler"})
          /\ Has(stack'[u], {"addSession", "registerRecv", "wsaRecv"})
                 => Has(stack[u], {"addSession", "registerRecv", "wsaRecv"})
    BY <1>23, TakeDisconnectStack DEF Begin, Others
  <2> QED
    BY <1>23, <2>1, BufferKept DEF TakeDisconnect, lifeVars
<1>24. ASSUME NEW t \in Workers, ReleaseSession(t) PROVE BufferInv'
  <2>1. \A u \in Workers :
          /\ Has(stack'[u], {"parse", "handler"}) <=> Has(stack[u], {"parse", "handler"})
          /\ Has(stack'[u], {"handler"}) => Has(stack[u], {"handler"})
          /\ Has(stack'[u], {"addSession", "registerRecv", "wsaRecv"})
                 => Has(stack[u], {"addSession", "registerRecv", "wsaRecv"})
    BY <1>24, ReleaseSessionStack DEF Leave, Was, Sending, Ending, Others
  <2> QED
    BY <1>24, <2>1, BufferKept DEF ReleaseSession, lifeVars
<1>25. ASSUME NEW t \in Workers, CallSend(t) PROVE BufferInv'
  <2>1. Others(t) /\ \A P : Has(stack'[t], P) <=> "push" \in P \/ Has(stack[t], P)
    BY <1>25, CallSendStack
  <2> QED
    BY <1>25, <2>1, BufferKept DEF CallSend, Others, lifeVars
<1>26. CASE KernelSends
  BY <1>26, BufferKept DEF KernelSends, lifeVars
<1>27. CASE KernelReceives
  <2>1. /\ connectOp = "done" /\ ~Parsing /\ ~AtRoom
    BY <1>27, NoReceiver DEF KernelReceives, Parsing, AtRoom
  <2>2. UNCHANGED <<stack, connectOp, readPos, writePos, processLen, handled>> /\ recvOp' = "done"
    BY <1>27 DEF KernelReceives, lifeVars
  <2>3. ~Parsing' /\ ~AtRoom'
    BY <2>1, <2>2 DEF Parsing, AtRoom
  <2>4. PICK n \in 0 .. StreamLength - arrived :
          n <= FreeSize /\ recvBytes' = n /\ arrived' = arrived + n /\ Deliver(n, arrived)
    BY <1>27 DEF KernelReceives
  <2>5. /\ First = readPos /\ Limit = writePos /\ First' = readPos /\ Limit' = writePos + n
        /\ n \in Nat /\ arrived \in Nat /\ arrived + n <= StreamLength /\ StreamLength \in Nat
    BY <1>27, <2>1, <2>2, <2>3, <2>4, SizesAssumption DEF First, Limit, BufferInv,
       KernelReceives, Types
  <2>6. Limit' <= Capacity
    BY <2>4, <2>5, CapacityRoom DEF FreeSize, BufferInv
  <2>7. arrived = handled + (writePos - readPos) /\ readPos <= writePos
    BY <2>5 DEF BufferInv
  <2>8. buffer' \in [Cells -> 0 .. StreamLength]
    <3>1. \A i \in Cells : writePos <= i /\ i < writePos + n =>
            arrived + (i - writePos) \in 0 .. StreamLength
      BY <2>5, CapacityRoom DEF BufferInv, Cells
    <3> QED
      BY <2>4, <3>1 DEF Deliver, BufferInv
  <2>9. \A i \in First' .. Limit' - 1 : buffer'[i] = handled + (i - First')
    <3> TAKE i \in First' .. Limit' - 1
    <3>1. i \in Cells
      BY <2>5, <2>6, CapacityRoom DEF Cells, BufferInv
    <3>2. CASE writePos <= i
      BY <2>4, <2>5, <2>7, <3>1, <3>2 DEF Deliver, BufferInv
    <3>3. CASE ~(writePos <= i)
      <4>1. buffer'[i] = buffer[i] /\ i \in First .. Limit - 1
        BY <2>4, <2>5, <3>1, <3>3 DEF Deliver, BufferInv
      <4> QED
        BY <2>5, <4>1 DEF BufferInv
    <3> QED
      BY <3>2, <3>3
  <2>10. \A u \in Workers : ~Has(stack'[u], {"handler"})
    BY <1>27, <2>2, NoReceiver DEF KernelReceives
  <2> QED
    BY <2>2, <2>3, <2>4, <2>5, <2>6, <2>7, <2>8, <2>9, <2>10 DEF BufferInv
<1>28. CASE UNCHANGED vars
  BY <1>28, BufferKept DEF vars, lifeVars
<1>29. QED
  BY <1>1, <1>2, <1>3, <1>4, <1>5, <1>6, <1>7, <1>8, <1>9, <1>10, <1>11, <1>12, <1>13,
     <1>14, <1>15, <1>16, <1>17, <1>18, <1>19, <1>20, <1>21, <1>22, <1>23, <1>24, <1>25,
     <1>26, <1>27, <1>28 DEF Next, Step, SendStep, RecvStep, LifeStep

-----------------------------------------------------------------------------
(* The bound on sends, which keeps a packet a packet.                      *)
CallInv == pushed + Cardinality(Calling) <= MaxSends

LEMMA TopHas ==
  ASSUME NEW s, Shape(s), NEW p \in Places \ {"handler", "unlock", "sendFailed"}
  PROVE  (s # <<>> /\ Head(s) = p) <=> Has(s, {p})
<1>1. CASE s = <<>>
  BY <1>1, Tuples
<1>2. CASE s # <<>>
  <2>1. /\ Head(s) \in Places /\ Tail(s) \in Callers(Head(s))
        /\ \A P : Has(s, P) <=> Head(s) \in P \/ Has(Tail(s), P)
    BY <1>2, Frame
  <2>2. ~Has(Tail(s), {p})
    BY <2>1, Below
  <2> QED
    BY <1>2, <2>1, <2>2
<1> QED
  BY <1>1, <1>2

LEMMA AtHas ==
  ASSUME Stacks, NEW t \in Workers, NEW p \in Places \ {"handler", "unlock", "sendFailed"}
  PROVE  At(t, p) <=> Has(stack[t], {p})
BY TopHas DEF Stacks, At

LEMMA AtHasNext ==
  ASSUME Stacks', NEW t \in Workers, NEW p \in Places \ {"handler", "unlock", "sendFailed"}
  PROVE  At(t, p)' <=> Has(stack'[t], {p})
BY TopHas DEF Stacks, At

LEMMA CallersCount ==
  IsFiniteSet(Calling) /\ Cardinality(Calling) \in Nat
BY WorkersAssumption, FS_Subset, FS_CardinalityType DEF Calling

LEMMA CallsKept ==
  ASSUME Types, Stacks, Stacks', CallInv, pushed' = pushed,
         \A u \in Workers : Has(stack'[u], {"push"}) => Has(stack[u], {"push"})
  PROVE  CallInv'
<1>1. "push" \in Places \ {"handler", "unlock", "sendFailed"}
  BY DEF Places
<1>2. \A u \in Workers : At(u, "push") <=> Has(stack[u], {"push"})
  BY <1>1, AtHas
<1>3. \A u \in Workers : At(u, "push")' <=> Has(stack'[u], {"push"})
  BY <1>1, AtHasNext
<1>4. Calling' \subseteq Calling
  BY <1>2, <1>3 DEF Calling
<1>5. IsFiniteSet(Calling) /\ Cardinality(Calling) \in Nat
  BY CallersCount
<1>6. Cardinality(Calling') \in Nat /\ Cardinality(Calling') <= Cardinality(Calling)
  BY <1>4, <1>5, FS_Subset, FS_CardinalityType
<1> QED
  BY <1>5, <1>6, SendsAssumption DEF CallInv, Types

LEMMA StepCallInv ==
  ASSUME Stacks, Types, CallInv, [Next]_vars
  PROVE  CallInv'
<1>1. ASSUME NEW t \in Workers, Push(t) PROVE CallInv'
  <2>1. "push" \in Places \ {"handler", "unlock", "sendFailed"} /\ Stacks'
    BY StepStacks DEF Places
  <2>2. \A u \in Workers : At(u, "push") <=> Has(stack[u], {"push"})
    BY <2>1, AtHas
  <2>3. \A u \in Workers : At(u, "push")' <=> Has(stack'[u], {"push"})
    BY <2>1, AtHasNext
  <2>4. IsFiniteSet(Calling) /\ Cardinality(Calling) \in Nat /\ pushed \in Nat /\ MaxSends \in Nat
    BY CallersCount, SendsAssumption DEF Types
  <2>5. ~Has(stack'[t], {"push"}) /\ \A u \in Workers : u # t => stack'[u] = stack[u]
    BY <1>1, PushStack DEF Swap, Leave, Was, Sending, Ending, Others
  <2>6. Calling' = Calling \ {t} /\ t \in Calling
    BY <1>1, <2>2, <2>3, <2>5 DEF Calling, Push
  <2>7. Cardinality(Calling') = Cardinality(Calling) - 1
    BY <2>4, <2>6, FS_RemoveElement
  <2> QED
    BY <1>1, <2>4, <2>7 DEF Push, CallInv
<1>2. ASSUME NEW t \in Workers, RegisterSend(t) PROVE CallInv'
  <2>1. \A u \in Workers : Has(stack'[u], {"push"}) => Has(stack[u], {"push"})
    BY <1>2, RegisterSendStack DEF Swap, Leave, Was, Sending, Ending, Others
  <2> QED
    BY <1>2, <2>1, CallsKept, StepStacks DEF RegisterSend, sendVars
<1>3. ASSUME NEW t \in Workers, Fill(t) PROVE CallInv'
  <2>1. \A u \in Workers : Has(stack'[u], {"push"}) => Has(stack[u], {"push"})
    BY <1>3, FillStack DEF Swap, Was, Sending, Ending, Others
  <2> QED
    BY <1>3, <2>1, CallsKept, StepStacks DEF Fill, sendVars
<1>4. ASSUME NEW t \in Workers, WsaSend(t) PROVE CallInv'
  <2>1. \A u \in Workers : Has(stack'[u], {"push"}) => Has(stack[u], {"push"})
    BY <1>4, WsaSendStack DEF Swap, Was, Sending, Ending, Others
  <2> QED
    BY <1>4, <2>1, CallsKept, StepStacks DEF WsaSend, sendVars
<1>5. ASSUME NEW t \in Workers, SendLog(t) PROVE CallInv'
  <2>1. \A u \in Workers : Has(stack'[u], {"push"}) => Has(stack[u], {"push"})
    BY <1>5, SendLogStack DEF Leave, Was, Sending, Ending, Others
  <2> QED
    BY <1>5, <2>1, CallsKept, StepStacks DEF SendLog, sendVars
<1>6. ASSUME NEW t \in Workers, WsaSendFails(t) PROVE CallInv'
  <2>1. \A u \in Workers : Has(stack'[u], {"push"}) => Has(stack[u], {"push"})
    BY <1>6, WsaSendFailsStack DEF Split, Swap, Was, Sending, Ending, Others
  <2> QED
    BY <1>6, <2>1, CallsKept, StepStacks DEF WsaSendFails, sendVars
<1>7. ASSUME NEW t \in Workers, SendFailed(t) PROVE CallInv'
  <2>1. \A u \in Workers : Has(stack'[u], {"push"}) => Has(stack[u], {"push"})
    BY <1>7, SendFailedStack DEF Swap, Was, Sending, Ending, Others
  <2> QED
    BY <1>7, <2>1, CallsKept, StepStacks DEF SendFailed, sendVars
<1>8. ASSUME NEW t \in Workers, OpenGate(t) PROVE CallInv'
  <2>1. \A u \in Workers : Has(stack'[u], {"push"}) => Has(stack[u], {"push"})
    BY <1>8, OpenGateStack DEF Leave, Was, Sending, Ending, Others
  <2> QED
    BY <1>8, <2>1, CallsKept, StepStacks DEF OpenGate, sendVars
<1>9. ASSUME NEW t \in Workers, TakeSend(t) PROVE CallInv'
  <2>1. \A u \in Workers : Has(stack'[u], {"push"}) => Has(stack[u], {"push"})
    BY <1>9, TakeSendStack DEF Begin, Others
  <2> QED
    BY <1>9, <2>1, CallsKept, StepStacks DEF TakeSend, sendVars
<1>10. ASSUME NEW t \in Workers, SendNext(t) PROVE CallInv'
  <2>1. \A u \in Workers : Has(stack'[u], {"push"}) => Has(stack[u], {"push"})
    BY <1>10, SendNextStack DEF Leave, Split, Was, Sending, Ending, Others
  <2> QED
    BY <1>10, <2>1, CallsKept, StepStacks DEF SendNext, sendVars
<1>11. ASSUME NEW t \in Workers, Unlock(t) PROVE CallInv'
  <2>1. \A u \in Workers : Has(stack'[u], {"push"}) => Has(stack[u], {"push"})
    BY <1>11, UnlockStack DEF Leave, Was, Sending, Ending, Others
  <2> QED
    BY <1>11, <2>1, CallsKept, StepStacks DEF Unlock, sendVars
<1>12. ASSUME NEW t \in Workers, TakeConnect(t) PROVE CallInv'
  <2>1. \A u \in Workers : Has(stack'[u], {"push"}) => Has(stack[u], {"push"})
    BY <1>12, TakeConnectStack DEF Begin, Others
  <2> QED
    BY <1>12, <2>1, CallsKept, StepStacks DEF TakeConnect, sendVars
<1>13. ASSUME NEW t \in Workers, AddSession(t) PROVE CallInv'
  <2>1. \A u \in Workers : Has(stack'[u], {"push"}) => Has(stack[u], {"push"})
    BY <1>13, AddSessionStack DEF Swap, Was, Sending, Ending, Others
  <2> QED
    BY <1>13, <2>1, CallsKept, StepStacks DEF AddSession, sendVars
<1>14. ASSUME NEW t \in Workers, RegisterRecv(t) PROVE CallInv'
  <2>1. \A u \in Workers : Has(stack'[u], {"push"}) => Has(stack[u], {"push"})
    BY <1>14, RegisterRecvStack DEF Swap, Leave, Was, Sending, Ending, Others
  <2> QED
    BY <1>14, <2>1, CallsKept, StepStacks DEF RegisterRecv, sendVars
<1>15. ASSUME NEW t \in Workers, WsaRecv(t) PROVE CallInv'
  <2>1. \A u \in Workers : Has(stack'[u], {"push"}) => Has(stack[u], {"push"})
    BY <1>15, WsaRecvStack DEF Leave, Was, Sending, Ending, Others
  <2> QED
    BY <1>15, <2>1, CallsKept, StepStacks DEF WsaRecv, sendVars
<1>16. ASSUME NEW t \in Workers, WsaRecvFails(t) PROVE CallInv'
  <2>1. \A u \in Workers : Has(stack'[u], {"push"}) => Has(stack[u], {"push"})
    BY <1>16, WsaRecvFailsStack DEF Leave, Swap, Was, Sending, Ending, Others
  <2> QED
    BY <1>16, <2>1, CallsKept, StepStacks DEF WsaRecvFails, sendVars
<1>17. ASSUME NEW t \in Workers, TakeRecv(t) PROVE CallInv'
  <2>1. \A u \in Workers : Has(stack'[u], {"push"}) => Has(stack[u], {"push"})
    BY <1>17, TakeRecvStack DEF Begin, Others
  <2> QED
    BY <1>17, <2>1, CallsKept, StepStacks DEF TakeRecv, sendVars
<1>18. ASSUME NEW t \in Workers, ParsePacket(t) PROVE CallInv'
  <2>1. \A u \in Workers : Has(stack'[u], {"push"}) => Has(stack[u], {"push"})
    BY <1>18, ParsePacketStack DEF Swap, Was, Sending, Ending, Others
  <2> QED
    BY <1>18, <2>1, CallsKept, StepStacks DEF ParsePacket, sendVars
<1>19. ASSUME NEW t \in Workers, HandlerReturns(t) PROVE CallInv'
  <2>1. \A u \in Workers : Has(stack'[u], {"push"}) => Has(stack[u], {"push"})
    BY <1>19, HandlerReturnsStack DEF Swap, Was, Sending, Ending, Others
  <2> QED
    BY <1>19, <2>1, CallsKept, StepStacks DEF HandlerReturns, sendVars
<1>20. ASSUME NEW t \in Workers, EndRecv(t) PROVE CallInv'
  <2>1. \A u \in Workers : Has(stack'[u], {"push"}) => Has(stack[u], {"push"})
    BY <1>20, EndRecvStack DEF Swap, Was, Sending, Ending, Others
  <2> QED
    BY <1>20, <2>1, CallsKept, StepStacks DEF EndRecv, sendVars
<1>21. ASSUME NEW t \in Workers, Disconnect(t) PROVE CallInv'
  <2>1. \A u \in Workers : Has(stack'[u], {"push"}) => Has(stack[u], {"push"})
    BY <1>21, DisconnectStack DEF Swap, Leave, Was, Sending, Ending, Others
  <2> QED
    BY <1>21, <2>1, CallsKept, StepStacks DEF Disconnect, sendVars
<1>22. ASSUME NEW t \in Workers, DisconnectEx(t) PROVE CallInv'
  <2>1. \A u \in Workers : Has(stack'[u], {"push"}) => Has(stack[u], {"push"})
    BY <1>22, DisconnectExStack DEF Leave, Was, Sending, Ending, Others
  <2> QED
    BY <1>22, <2>1, CallsKept, StepStacks DEF DisconnectEx, sendVars
<1>23. ASSUME NEW t \in Workers, TakeDisconnect(t) PROVE CallInv'
  <2>1. \A u \in Workers : Has(stack'[u], {"push"}) => Has(stack[u], {"push"})
    BY <1>23, TakeDisconnectStack DEF Begin, Others
  <2> QED
    BY <1>23, <2>1, CallsKept, StepStacks DEF TakeDisconnect, sendVars
<1>24. ASSUME NEW t \in Workers, ReleaseSession(t) PROVE CallInv'
  <2>1. \A u \in Workers : Has(stack'[u], {"push"}) => Has(stack[u], {"push"})
    BY <1>24, ReleaseSessionStack DEF Leave, Was, Sending, Ending, Others
  <2> QED
    BY <1>24, <2>1, CallsKept, StepStacks DEF ReleaseSession, sendVars
<1>25. ASSUME NEW t \in Workers, CallSend(t) PROVE CallInv'
  <2>1. "push" \in Places \ {"handler", "unlock", "sendFailed"} /\ Stacks'
    BY StepStacks DEF Places
  <2>2. \A u \in Workers : At(u, "push") <=> Has(stack[u], {"push"})
    BY <2>1, AtHas
  <2>3. \A u \in Workers : At(u, "push")' <=> Has(stack'[u], {"push"})
    BY <2>1, AtHasNext
  <2>4. IsFiniteSet(Calling) /\ Cardinality(Calling) \in Nat /\ pushed \in Nat /\ MaxSends \in Nat
    BY CallersCount, SendsAssumption DEF Types
  <2>5. Calling' = Calling \cup {t}
    BY <1>25, <2>2, <2>3, CallSendStack DEF Calling, Others
  <2>6. Cardinality(Calling') <= Cardinality(Calling) + 1 /\ Cardinality(Calling') \in Nat
    BY <2>4, <2>5, FS_AddElement
  <2> QED
    BY <1>25, <2>4, <2>6 DEF CallSend, CallInv, sendVars
<1>26. CASE KernelSends
  BY <1>26, CallsKept, StepStacks DEF KernelSends, sendVars
<1>27. CASE KernelReceives
  BY <1>27, CallsKept, StepStacks DEF KernelReceives, sendVars
<1>28. CASE UNCHANGED vars
  BY <1>28, CallsKept, StepStacks DEF vars, sendVars
<1>29. QED
  BY <1>1, <1>2, <1>3, <1>4, <1>5, <1>6, <1>7, <1>8, <1>9, <1>10, <1>11, <1>12, <1>13,
     <1>14, <1>15, <1>16, <1>17, <1>18, <1>19, <1>20, <1>21, <1>22, <1>23, <1>24, <1>25,
     <1>26, <1>27, <1>28 DEF Next, Step, SendStep, RecvStep, LifeStep

LEMMA SeqTypes ==
  ASSUME NEW S
  PROVE  /\ <<>> \in Seq(S)
         /\ \A s \in Seq(S) : Tail(s) \in Seq(S) \/ s = <<>>
         /\ \A s \in Seq(S) : ToSet(s) \subseteq S
         /\ \A s \in Seq(S), x \in S : Append(s, x) \in Seq(S)
         /\ \A s \in Seq(S), r \in Seq(S) : s \o r \in Seq(S)
BY DEF ToSet

LEMMA StepTypes ==
  ASSUME Types, CallInv, [Next]_vars
  PROVE  Types'
<1>1. ASSUME NEW t \in Workers, Push(t) PROVE Types'
  <2>1. t \in Calling /\ IsFiniteSet(Calling)
    BY <1>1, CallersCount DEF Push, Calling
  <2>2. Cardinality(Calling) \in Nat /\ Cardinality(Calling) # 0
    BY <2>1, FS_EmptySet, FS_CardinalityType
  <2>3. pushed + 1 \in Packets
    BY <2>2, SendsAssumption DEF CallInv, Types, Packets
  <2> QED
    BY <1>1, <2>3, SeqTypes DEF Push, Gate, Types, recvVars, lifeVars
<1>2. ASSUME NEW t \in Workers, RegisterSend(t) PROVE Types'
  BY <1>2 DEF RegisterSend, Types, recvVars, sendVars, lifeVars
<1>3. ASSUME NEW t \in Workers, Fill(t) PROVE Types'
  BY <1>3, SeqTypes DEF Fill, Types, recvVars, sendVars, lifeVars
<1>4. ASSUME NEW t \in Workers, WsaSend(t) PROVE Types'
  BY <1>4 DEF WsaSend, Types, recvVars, sendVars, lifeVars
<1>5. ASSUME NEW t \in Workers, SendLog(t) PROVE Types'
  BY <1>5 DEF SendLog, Types, recvVars, sendVars, lifeVars
<1>6. ASSUME NEW t \in Workers, WsaSendFails(t) PROVE Types'
  BY <1>6 DEF WsaSendFails, Types, recvVars, sendVars, lifeVars
<1>7. ASSUME NEW t \in Workers, SendFailed(t) PROVE Types'
  BY <1>7, SeqTypes DEF SendFailed, Types, recvVars, sendVars, lifeVars
<1>8. ASSUME NEW t \in Workers, OpenGate(t) PROVE Types'
  BY <1>8 DEF OpenGate, Types, recvVars, sendVars, lifeVars
<1>9. ASSUME NEW t \in Workers, TakeSend(t) PROVE Types'
  <2>1. sendDone' \in Seq(BOOLEAN) /\ sendBuffers' \in Seq(Packets)
    BY <1>9, SeqTypes DEF TakeSend, Released, Types
  <2> QED
    BY <1>9, <2>1 DEF TakeSend, Types, recvVars, lifeVars
<1>10. ASSUME NEW t \in Workers, SendNext(t) PROVE Types'
  BY <1>10 DEF SendNext, Types, recvVars, sendVars, lifeVars
<1>11. ASSUME NEW t \in Workers, Unlock(t) PROVE Types'
  BY <1>11 DEF Unlock, Types, recvVars, sendVars, lifeVars
<1>12. ASSUME NEW t \in Workers, TakeConnect(t) PROVE Types'
  BY <1>12 DEF TakeConnect, Types, recvVars, sendVars, lifeVars
<1>13. ASSUME NEW t \in Workers, AddSession(t) PROVE Types'
  BY <1>13 DEF AddSession, Types, recvVars, sendVars, lifeVars
<1>14. ASSUME NEW t \in Workers, RegisterRecv(t) PROVE Types'
  BY <1>14 DEF RegisterRecv, Types, recvVars, sendVars, lifeVars
<1>15. ASSUME NEW t \in Workers, WsaRecv(t) PROVE Types'
  BY <1>15 DEF WsaRecv, Types, recvVars, sendVars, lifeVars
<1>16. ASSUME NEW t \in Workers, WsaRecvFails(t) PROVE Types'
  BY <1>16 DEF WsaRecvFails, Types, recvVars, sendVars, lifeVars
<1>17. ASSUME NEW t \in Workers, TakeRecv(t) PROVE Types'
  BY <1>17 DEF TakeRecv, Types, recvVars, sendVars, lifeVars
<1>18. ASSUME NEW t \in Workers, ParsePacket(t) PROVE Types'
  BY <1>18 DEF ParsePacket, Types, recvVars, sendVars, lifeVars
<1>19. ASSUME NEW t \in Workers, HandlerReturns(t) PROVE Types'
  BY <1>19 DEF HandlerReturns, Types, recvVars, sendVars, lifeVars
<1>20. ASSUME NEW t \in Workers, EndRecv(t) PROVE Types'
  BY <1>20 DEF EndRecv, Types, recvVars, sendVars, lifeVars
<1>21. ASSUME NEW t \in Workers, Disconnect(t) PROVE Types'
  BY <1>21 DEF Disconnect, Types, recvVars, sendVars, lifeVars
<1>22. ASSUME NEW t \in Workers, DisconnectEx(t) PROVE Types'
  BY <1>22 DEF DisconnectEx, Types, recvVars, sendVars, lifeVars
<1>23. ASSUME NEW t \in Workers, TakeDisconnect(t) PROVE Types'
  BY <1>23 DEF TakeDisconnect, Types, recvVars, sendVars, lifeVars
<1>24. ASSUME NEW t \in Workers, ReleaseSession(t) PROVE Types'
  BY <1>24 DEF ReleaseSession, Types, recvVars, sendVars, lifeVars
<1>25. ASSUME NEW t \in Workers, CallSend(t) PROVE Types'
  BY <1>25 DEF CallSend, Types, recvVars, sendVars, lifeVars
<1>26. CASE KernelSends
  <2>1. PICK b \in posted, ok \in BOOLEAN :
          /\ posted' = posted \ {b} /\ sendDone' = Append(sendDone, ok)
          /\ IF ok THEN wire' = wire \o b /\ UNCHANGED lost
                   ELSE lost' = lost \cup ToSet(b) /\ UNCHANGED wire
    BY <1>26 DEF KernelSends
  <2>2. b \in Seq(Packets) /\ sendDone' \in Seq(BOOLEAN) /\ posted' \subseteq Seq(Packets)
    BY <2>1, SeqTypes DEF Types
  <2>3. wire' \in Seq(Packets) /\ lost' \subseteq Packets
    <3>1. CASE ok
      <4>1. wire \in Seq(Packets) /\ wire \o b \in Seq(Packets)
        BY <2>2, SeqTypes DEF Types
      <4> QED
        BY <2>1, <3>1, <4>1 DEF Types
    <3>2. CASE ~ok
      BY <2>1, <2>2, <3>2, SeqTypes DEF Types
    <3> QED
      BY <3>1, <3>2
  <2> QED
    BY <1>26, <2>2, <2>3 DEF KernelSends, Types, recvVars, lifeVars
<1>27. CASE KernelReceives
  <2>1. recvBytes' \in 0 .. StreamLength /\ arrived' \in 0 .. StreamLength
    BY <1>27, SizesAssumption DEF KernelReceives, Types
  <2> QED
    BY <1>27, <2>1 DEF KernelReceives, Types, sendVars, lifeVars
<1>28. CASE UNCHANGED vars
  BY <1>28 DEF vars, Types, recvVars, sendVars, lifeVars
<1>29. QED
  BY <1>1, <1>2, <1>3, <1>4, <1>5, <1>6, <1>7, <1>8, <1>9, <1>10, <1>11, <1>12, <1>13,
     <1>14, <1>15, <1>16, <1>17, <1>18, <1>19, <1>20, <1>21, <1>22, <1>23, <1>24, <1>25,
     <1>26, <1>27, <1>28 DEF Next, Step, SendStep, RecvStep, LifeStep

-----------------------------------------------------------------------------
(* The order of what is sent.                                              *)
All(w, b, q) == w \o b \o q

Increasing(s) == \A i, j \in DOMAIN s : i < j => s[i] < s[j]

(* A batch that was given to WSASend is what the buffers hold; the buffers *)
(* are empty when the gate is open, and when they are about to be filled   *)
(* or the gate to be opened.                                               *)
OrderInv ==
  /\ \A b \in posted : b = sendBuffers
  /\ ~sendRegistered => sendBuffers = <<>>
  /\ \A t \in Workers :
       Has(stack[t], {"registerSend", "fill", "openGate", "sendNext"}) => sendBuffers = <<>>
  /\ Increasing(All(wire, InFlight, sendQueue))
  /\ Packets \cap (1 .. pushed) = ToSet(All(wire, InFlight, sendQueue)) \cup lost
  /\ ToSet(All(wire, InFlight, sendQueue)) \cap lost = {}

LEMMA Joined ==
  ASSUME NEW S, NEW a \in Seq(S), NEW b \in Seq(S), NEW c \in Seq(S)
  PROVE  /\ All(a, b, c) \in Seq(S) /\ Len(All(a, b, c)) = Len(a) + Len(b) + Len(c)
         /\ \A i \in 1 .. Len(a) : All(a, b, c)[i] = a[i]
         /\ \A i \in 1 .. Len(b) : All(a, b, c)[Len(a) + i] = b[i]
         /\ \A i \in 1 .. Len(c) : All(a, b, c)[Len(a) + Len(b) + i] = c[i]
         /\ ToSet(All(a, b, c)) = ToSet(a) \cup ToSet(b) \cup ToSet(c)
<1> DEFINE s == All(a, b, c)
<1>1. s \in Seq(S) /\ Len(s) = Len(a) + Len(b) + Len(c)
  BY DEF All
<1>2. \A i \in 1 .. Len(a) : s[i] = a[i]
  BY DEF All
<1>3. \A i \in 1 .. Len(b) : s[Len(a) + i] = b[i]
  BY DEF All
<1>4. \A i \in 1 .. Len(c) : s[Len(a) + Len(b) + i] = c[i]
  BY DEF All
<1>5. /\ Len(a) \in Nat /\ Len(b) \in Nat /\ Len(c) \in Nat
      /\ DOMAIN s = 1 .. Len(s) /\ DOMAIN a = 1 .. Len(a)
      /\ DOMAIN b = 1 .. Len(b) /\ DOMAIN c = 1 .. Len(c)
  BY <1>1
<1> HIDE DEF s
<1>6. ToSet(s) \subseteq ToSet(a) \cup ToSet(b) \cup ToSet(c)
  <2> SUFFICES ASSUME NEW i \in 1 .. Len(s)
               PROVE  s[i] \in ToSet(a) \cup ToSet(b) \cup ToSet(c)
    BY <1>5 DEF ToSet
  <2>1. CASE i <= Len(a)
    BY <1>2, <1>5, <2>1 DEF ToSet
  <2>2. CASE Len(a) < i /\ i <= Len(a) + Len(b)
    <3>1. i - Len(a) \in 1 .. Len(b) /\ Len(a) + (i - Len(a)) = i
      BY <1>5, <2>2
    <3> QED
      BY <1>3, <1>5, <3>1 DEF ToSet
  <2>3. CASE Len(a) + Len(b) < i
    <3>1. i - (Len(a) + Len(b)) \in 1 .. Len(c) /\ Len(a) + Len(b) + (i - (Len(a) + Len(b))) = i
      BY <1>1, <1>5, <2>3
    <3> QED
      BY <1>4, <1>5, <3>1 DEF ToSet
  <2> QED
    BY <1>5, <2>1, <2>2, <2>3
<1>7. ToSet(a) \subseteq ToSet(s)
  <2>1. \A i \in 1 .. Len(a) : i \in 1 .. Len(s)
    BY <1>1, <1>5
  <2> QED
    BY <1>2, <1>5, <2>1 DEF ToSet
<1>8. ToSet(b) \subseteq ToSet(s)
  <2>1. \A i \in 1 .. Len(b) : Len(a) + i \in 1 .. Len(s)
    BY <1>1, <1>5
  <2> QED
    BY <1>3, <1>5, <2>1 DEF ToSet
<1>9. ToSet(c) \subseteq ToSet(s)
  <2>1. \A i \in 1 .. Len(c) : Len(a) + Len(b) + i \in 1 .. Len(s)
    BY <1>1, <1>5
  <2> QED
    BY <1>4, <1>5, <2>1 DEF ToSet
<1> QED
  BY <1>1, <1>2, <1>3, <1>4, <1>6, <1>7, <1>8, <1>9 DEF s

(* Taking out the middle leaves the rest in order, and without it.         *)
LEMMA Cut ==
  ASSUME NEW S, S \subseteq Nat, NEW a \in Seq(S), NEW b \in Seq(S), NEW c \in Seq(S),
         Increasing(All(a, b, c))
  PROVE  /\ Increasing(All(a, <<>>, c))
         /\ ToSet(All(a, <<>>, c)) = ToSet(a) \cup ToSet(c)
         /\ ToSet(b) \cap (ToSet(a) \cup ToSet(c)) = {}
<1> DEFINE s == All(a, b, c)
           r == All(a, <<>>, c)
<1>1. <<>> \in Seq(S) /\ Len(<<>>) = 0 /\ ToSet(<<>>) = {}
  BY DEF ToSet
<1>2. /\ s \in Seq(S) /\ Len(s) = Len(a) + Len(b) + Len(c)
      /\ \A i \in 1 .. Len(a) : s[i] = a[i]
      /\ \A i \in 1 .. Len(b) : s[Len(a) + i] = b[i]
      /\ \A i \in 1 .. Len(c) : s[Len(a) + Len(b) + i] = c[i]
  <2> HIDE DEF s
  <2>1. s = All(a, b, c)
    BY DEF s
  <2>2. /\ All(a, b, c) \in Seq(S) /\ Len(All(a, b, c)) = Len(a) + Len(b) + Len(c)
        /\ \A i \in 1 .. Len(a) : All(a, b, c)[i] = a[i]
        /\ \A i \in 1 .. Len(b) : All(a, b, c)[Len(a) + i] = b[i]
        /\ \A i \in 1 .. Len(c) : All(a, b, c)[Len(a) + Len(b) + i] = c[i]
    <3>1. All(a, b, c) \in Seq(S) /\ Len(All(a, b, c)) = Len(a) + Len(b) + Len(c)
      BY Joined
    <3>2. \A i \in 1 .. Len(a) : All(a, b, c)[i] = a[i]
      BY Joined
    <3>3. \A i \in 1 .. Len(b) : All(a, b, c)[Len(a) + i] = b[i]
      BY Joined
    <3>4. \A i \in 1 .. Len(c) : All(a, b, c)[Len(a) + Len(b) + i] = c[i]
      BY Joined
    <3> QED
      BY <3>1, <3>2, <3>3, <3>4
  <2> QED
    BY <2>1, <2>2
<1>3. /\ r \in Seq(S) /\ Len(r) = Len(a) + Len(c)
      /\ \A i \in 1 .. Len(a) : r[i] = a[i]
      /\ \A i \in 1 .. Len(c) : r[Len(a) + i] = c[i]
      /\ ToSet(r) = ToSet(a) \cup ToSet(c)
  <2>1. /\ r \in Seq(S) /\ Len(r) = Len(a) + 0 + Len(c)
        /\ \A i \in 1 .. Len(a) : r[i] = a[i]
        /\ \A i \in 1 .. Len(c) : r[Len(a) + 0 + i] = c[i]
        /\ ToSet(r) = ToSet(a) \cup {} \cup ToSet(c)
    <3>1. PICK e \in Seq(S) : e = <<>>
      BY <1>1
    <3>2. All(a, e, c) \in Seq(S) /\ Len(All(a, e, c)) = Len(a) + Len(e) + Len(c)
      BY Joined
    <3>3. \A i \in 1 .. Len(a) : All(a, e, c)[i] = a[i]
      BY Joined
    <3>4. \A i \in 1 .. Len(c) : All(a, e, c)[Len(a) + Len(e) + i] = c[i]
      BY Joined
    <3>5. ToSet(All(a, e, c)) = ToSet(a) \cup ToSet(e) \cup ToSet(c)
      BY Joined
    <3>6. r = All(a, e, c) /\ Len(e) = 0 /\ ToSet(e) = {}
      BY <1>1, <3>1
    <3> HIDE DEF r
    <3> QED
      BY <3>2, <3>3, <3>4, <3>5, <3>6
  <2> QED
    BY <2>1
<1>4. /\ Len(a) \in Nat /\ Len(b) \in Nat /\ Len(c) \in Nat
      /\ DOMAIN s = 1 .. Len(s) /\ DOMAIN r = 1 .. Len(r)
      /\ DOMAIN a = 1 .. Len(a) /\ DOMAIN b = 1 .. Len(b) /\ DOMAIN c = 1 .. Len(c)
  BY <1>2, <1>3
<1>5. \A i, j \in 1 .. Len(s) : i < j => s[i] < s[j]
  BY <1>4 DEF Increasing
<1> HIDE DEF s, r
<1>6. \A i \in 1 .. Len(s) : s[i] \in Nat
  <2>1. \A i \in 1 .. Len(s) : s[i] \in S
    BY <1>2
  <2> QED
    BY <2>1
<1>7. Increasing(r)
  <2> SUFFICES ASSUME NEW i \in 1 .. Len(r), NEW j \in 1 .. Len(r), i < j
               PROVE  r[i] < r[j]
    BY <1>4 DEF Increasing
  <2> DEFINE at(k) == IF k <= Len(a) THEN k ELSE k + Len(b)
  <2>1. \A k \in 1 .. Len(r) : at(k) \in 1 .. Len(s) /\ r[k] = s[at(k)]
    <3> TAKE k \in 1 .. Len(r)
    <3>1. CASE k <= Len(a)
      BY <1>2, <1>3, <1>4, <3>1
    <3>2. CASE ~(k <= Len(a))
      <4>1. k - Len(a) \in 1 .. Len(c) /\ Len(a) + (k - Len(a)) = k
            /\ Len(a) + Len(b) + (k - Len(a)) = k + Len(b)
        BY <1>3, <1>4, <3>2
      <4>2. r[k] = c[k - Len(a)] /\ s[k + Len(b)] = c[k - Len(a)]
        BY <1>2, <1>3, <4>1
      <4> QED
        BY <1>2, <1>3, <1>4, <3>2, <4>2
    <3> QED
      BY <3>1, <3>2
  <2>2. at(i) < at(j)
    BY <1>4
  <2> HIDE DEF at
  <2> QED
    BY <1>5, <2>1, <2>2
<1>8. ToSet(b) \cap (ToSet(a) \cup ToSet(c)) = {}
  <2>1. ASSUME NEW i \in 1 .. Len(b), NEW j \in 1 .. Len(a) PROVE b[i] # a[j]
    <3>1. Len(a) + i \in 1 .. Len(s) /\ j \in 1 .. Len(s) /\ j < Len(a) + i
      BY <1>2, <1>4
    <3> QED
      BY <1>2, <1>5, <1>6, <3>1
  <2>2. ASSUME NEW i \in 1 .. Len(b), NEW j \in 1 .. Len(c) PROVE b[i] # c[j]
    <3>1. /\ Len(a) + i \in 1 .. Len(s) /\ Len(a) + Len(b) + j \in 1 .. Len(s)
          /\ Len(a) + i < Len(a) + Len(b) + j
      BY <1>2, <1>4
    <3>2. s[Len(a) + i] < s[Len(a) + Len(b) + j] /\ s[Len(a) + i] \in Nat
      BY <1>5, <1>6, <3>1
    <3>3. s[Len(a) + i] = b[i] /\ s[Len(a) + Len(b) + j] = c[j]
      BY <1>2
    <3>4. b[i] \in Nat /\ b[i] < c[j]
      BY <3>2, <3>3
    <3> QED
      BY <3>4
  <2> QED
    BY <1>4, <2>1, <2>2 DEF ToSet
<1> QED
  BY <1>3, <1>7, <1>8 DEF r

(* One more at the end, larger than all before.                            *)
LEMMA Grown ==
  ASSUME NEW S, S \subseteq Nat, NEW a \in Seq(S), NEW b \in Seq(S), NEW c \in Seq(S), NEW x \in S,
         Increasing(All(a, b, c)), \A y \in ToSet(All(a, b, c)) : y < x
  PROVE  Increasing(All(a, b, Append(c, x)))
<1> DEFINE s == All(a, b, c)
           r == All(a, b, Append(c, x))
<1>1. /\ r = Append(s, x) /\ s \in Seq(S)
  BY DEF All
<1> HIDE DEF s, r
<1>2. /\ Len(r) = Len(s) + 1 /\ r[Len(r)] = x /\ Len(s) \in Nat
      /\ \A i \in 1 .. Len(s) : r[i] = s[i]
      /\ DOMAIN s = 1 .. Len(s) /\ DOMAIN r = 1 .. Len(r)
  BY <1>1
<1>3. \A i \in 1 .. Len(s) : s[i] < x
  BY <1>2 DEF ToSet, s
<1>4. Increasing(r)
  <2>1. \A i, j \in 1 .. Len(s) : i < j => s[i] < s[j]
    BY <1>2 DEF Increasing, s
  <2> SUFFICES ASSUME NEW i \in 1 .. Len(r), NEW j \in 1 .. Len(r), i < j
               PROVE  r[i] < r[j]
    BY <1>2 DEF Increasing
  <2>2. i \in 1 .. Len(s) /\ r[i] = s[i]
    BY <1>2
  <2>3. CASE j = Len(r)
    BY <1>2, <1>3, <2>2, <2>3
  <2>4. CASE j # Len(r)
    <3>1. j \in 1 .. Len(s)
      <4>1. Len(r) = Len(s) + 1 /\ Len(s) \in Nat
        BY <1>2
      <4> QED
        BY <2>4, <4>1
    <3> QED
      BY <1>2, <2>1, <2>2, <3>1
  <2> QED
    BY <2>3, <2>4
<1> QED
  BY <1>4 DEF s, r

LEMMA GrownSet ==
  ASSUME NEW S, NEW a \in Seq(S), NEW b \in Seq(S), NEW c \in Seq(S), NEW x \in S
  PROVE  ToSet(All(a, b, Append(c, x))) = ToSet(All(a, b, c)) \cup {x}
<1> DEFINE s == All(a, b, c)
           r == All(a, b, Append(c, x))
<1>1. /\ r = Append(s, x) /\ s \in Seq(S)
  BY DEF All
<1> HIDE DEF s, r
<1>2. /\ Len(r) = Len(s) + 1 /\ r[Len(r)] = x /\ Len(s) \in Nat
      /\ \A i \in 1 .. Len(s) : r[i] = s[i]
      /\ DOMAIN s = 1 .. Len(s) /\ DOMAIN r = 1 .. Len(r)
  BY <1>1
<1>3. ToSet(r) = ToSet(s) \cup {x}
  <2>1. \A i \in 1 .. Len(r) : i = Len(r) \/ i \in 1 .. Len(s)
    BY <1>2
  <2>2. \A i \in 1 .. Len(s) : i \in 1 .. Len(r)
    BY <1>2
  <2>3. Len(r) \in 1 .. Len(r)
    BY <1>2
  <2> QED
    BY <1>2, <2>1, <2>2, <2>3 DEF ToSet
<1> QED
  BY <1>3 DEF s, r

(* Moving a piece to its neighbour does not change the whole.              *)
LEMMA Shifted ==
  ASSUME NEW S, NEW a \in Seq(S), NEW b \in Seq(S)
  PROVE  /\ \A c \in Seq(S) : All(a \o b, <<>>, c) = All(a, b, c)
         /\ All(a, b, <<>>) = All(a, <<>>, b)
         /\ <<>> \o b = b
BY DEF All

LEMMA OrderKept ==
  ASSUME OrderInv, UNCHANGED sendVars,
         \A u \in Workers : Has(stack'[u], {"registerSend", "fill", "openGate", "sendNext"})
                              => Has(stack[u], {"registerSend", "fill", "openGate", "sendNext"})
  PROVE  OrderInv'
<1>1. InFlight' = InFlight
  BY DEF InFlight, sendVars
<1> QED
  BY <1>1 DEF OrderInv, sendVars

LEMMA SenderAlone ==
  ASSUME SendInv, NEW t \in Workers, Has(stack[t], Using)
  PROVE  /\ sendRegistered /\ posted = {} /\ sendDone = <<>> /\ InFlight = sendBuffers
         /\ \A u \in Workers : u # t =>
              ~Has(stack[u], {"registerSend", "fill", "openGate", "sendNext"})
<1>1. \A u \in Workers :
        Has(stack[u], {"registerSend", "fill", "openGate", "sendNext"}) => Has(stack[u], Using)
  BY Wider DEF Using
<1> QED
  BY <1>1 DEF SendInv, InFlight

(* A batch is lost.                                                        *)
LEMMA BatchLost ==
  ASSUME Types, OrderInv, InFlight = sendBuffers, InFlight' = <<>>,
         wire' = wire, sendQueue' = sendQueue, pushed' = pushed,
         lost' = lost \cup ToSet(sendBuffers)
  PROVE  /\ Increasing(All(wire, InFlight, sendQueue)')
         /\ Packets \cap (1 .. pushed') = ToSet(All(wire, InFlight, sendQueue)') \cup lost'
         /\ ToSet(All(wire, InFlight, sendQueue)') \cap lost' = {}
<1>1. /\ wire \in Seq(Packets) /\ sendBuffers \in Seq(Packets) /\ sendQueue \in Seq(Packets)
      /\ Packets \subseteq Nat
  BY DEF Types, Packets
<1>2. /\ Increasing(All(wire, <<>>, sendQueue))
      /\ ToSet(All(wire, <<>>, sendQueue)) = ToSet(wire) \cup ToSet(sendQueue)
      /\ ToSet(sendBuffers) \cap (ToSet(wire) \cup ToSet(sendQueue)) = {}
  BY <1>1, Cut DEF OrderInv
<1>3. ToSet(All(wire, sendBuffers, sendQueue)) = ToSet(wire) \cup ToSet(sendBuffers) \cup ToSet(sendQueue)
  <2>1. \A a, b, c \in Seq(Packets) : ToSet(All(a, b, c)) = ToSet(a) \cup ToSet(b) \cup ToSet(c)
    BY Joined
  <2> QED
    BY <1>1, <2>1
<1>4. All(wire, InFlight, sendQueue)' = All(wire, <<>>, sendQueue)
  BY DEF All
<1>5. /\ Packets \cap (1 .. pushed) = ToSet(All(wire, sendBuffers, sendQueue)) \cup lost
      /\ ToSet(All(wire, sendBuffers, sendQueue)) \cap lost = {}
  BY DEF OrderInv
<1> QED
  BY <1>2, <1>3, <1>4, <1>5

LEMMA StepOrderInv ==
  ASSUME Stacks, Types, CallInv, SendInv, OrderInv, [Next]_vars
  PROVE  OrderInv'
<1>1. ASSUME NEW t \in Workers, Push(t) PROVE OrderInv'
  <2>12. PICK x : x = pushed + 1
    OBVIOUS
  <2>1. /\ x \in Packets /\ Packets \subseteq Nat /\ pushed \in Nat
        /\ wire \in Seq(Packets) /\ InFlight \in Seq(Packets) /\ sendQueue \in Seq(Packets)
    <3>1. t \in Calling /\ IsFiniteSet(Calling)
      BY <1>1, CallersCount DEF Push, Calling
    <3>2. Cardinality(Calling) \in Nat /\ Cardinality(Calling) # 0
      BY <3>1, FS_EmptySet, FS_CardinalityType
    <3>3. x \in Packets /\ Packets \subseteq Nat
      BY <2>12, <3>2, SendsAssumption DEF CallInv, Types, Packets
    <3>4. InFlight \in Seq(Packets)
      BY SeqTypes DEF InFlight, Types
    <3> QED
      BY <3>3, <3>4 DEF Types
  <2>2. /\ pushed' = x /\ sendQueue' = Append(sendQueue, x) /\ sendRegistered'
        /\ UNCHANGED <<sendBuffers, posted, sendDone, wire, lost>>
    BY <1>1, <2>12 DEF Push, Gate
  <2>3. InFlight' = InFlight
    BY <2>2 DEF InFlight
  <2>4. \A y \in ToSet(All(wire, InFlight, sendQueue)) \cup lost : y \in 1 .. pushed
    BY DEF OrderInv
  <2>5. \A y \in ToSet(All(wire, InFlight, sendQueue)) : y < x
    BY <2>1, <2>4, <2>12
  <2>6. /\ Increasing(All(wire, InFlight, Append(sendQueue, x)))
        /\ ToSet(All(wire, InFlight, Append(sendQueue, x))) = ToSet(All(wire, InFlight, sendQueue)) \cup {x}
    <3>1. Increasing(All(wire, InFlight, sendQueue))
      BY DEF OrderInv
    <3>2. Increasing(All(wire, InFlight, Append(sendQueue, x)))
      BY <2>1, <2>5, <3>1, Grown
    <3>3. ToSet(All(wire, InFlight, Append(sendQueue, x))) = ToSet(All(wire, InFlight, sendQueue)) \cup {x}
      BY <2>1, GrownSet
    <3> QED
      BY <3>2, <3>3
  <2>7. x \notin lost
    BY <2>1, <2>4, <2>12
  <2>8. Packets \cap (1 .. x) = (Packets \cap (1 .. pushed)) \cup {x}
    BY <2>1, <2>12 DEF Packets
  <2>9. All(wire, InFlight, sendQueue)' = All(wire, InFlight, Append(sendQueue, x))
    BY <2>2, <2>3
  <2>10. /\ Increasing(All(wire, InFlight, sendQueue)')
         /\ Packets \cap (1 .. pushed') = ToSet(All(wire, InFlight, sendQueue)') \cup lost'
         /\ ToSet(All(wire, InFlight, sendQueue)') \cap lost' = {}
    BY <2>2, <2>6, <2>7, <2>8, <2>9 DEF OrderInv
  <2>11. \A u \in Workers : Has(stack'[u], {"registerSend", "fill", "openGate", "sendNext"}) => sendBuffers = <<>>
    BY <1>1, PushStack DEF Swap, Leave, Was, Sending, Ending, Others, OrderInv
  <2> QED
    BY <2>2, <2>10, <2>11 DEF OrderInv
<1>2. ASSUME NEW t \in Workers, RegisterSend(t) PROVE OrderInv'
  <2>1. \A u \in Workers : Has(stack'[u], {"registerSend", "fill", "openGate", "sendNext"})
            => Has(stack[u], {"registerSend", "fill", "openGate", "sendNext"})
    BY <1>2, RegisterSendStack DEF Swap, Leave, Was, Sending, Ending, Others
  <2> QED
    BY <1>2, <2>1, OrderKept DEF RegisterSend
<1>3. ASSUME NEW t \in Workers, Fill(t) PROVE OrderInv'
  <2>1. /\ Has(stack[t], Using) /\ Has(stack[t], {"registerSend", "fill", "openGate", "sendNext"})
        /\ ~Has(stack'[t], {"registerSend", "fill", "openGate", "sendNext"})
        /\ \A u \in Workers : u # t => stack'[u] = stack[u]
    BY <1>3, FillStack DEF Swap, Was, Sending, Ending, Using, Others
  <2>2. /\ sendRegistered /\ posted = {} /\ sendDone = <<>> /\ InFlight = sendBuffers
        /\ \A u \in Workers : ~Has(stack'[u], {"registerSend", "fill", "openGate", "sendNext"})
    BY <2>1, SenderAlone
  <2>3. sendBuffers = <<>>
    BY <2>1 DEF OrderInv
  <2>4. /\ wire \in Seq(Packets) /\ sendQueue \in Seq(Packets)
        /\ UNCHANGED <<sendRegistered, posted, sendDone, pushed, wire, lost>>
        /\ sendQueue' = <<>>
    BY <1>3 DEF Fill, Types
  <2>5. sendBuffers' = sendQueue
    BY <1>3, <2>3, <2>4, Shifted DEF Fill
  <2>6. InFlight' = sendQueue
    BY <2>2, <2>4, <2>5 DEF InFlight
  <2>7. All(wire, sendQueue, <<>>) = All(wire, <<>>, sendQueue)
    BY <2>4, Shifted
  <2>8. All(wire, InFlight, sendQueue)' = All(wire, InFlight, sendQueue)
    BY <2>2, <2>3, <2>4, <2>6, <2>7
  <2> QED
    BY <2>2, <2>4, <2>8 DEF OrderInv
<1>4. ASSUME NEW t \in Workers, WsaSend(t) PROVE OrderInv'
  <2>1. /\ Has(stack[t], Using)
        /\ ~Has(stack'[t], {"registerSend", "fill", "openGate", "sendNext"})
        /\ \A u \in Workers : u # t => stack'[u] = stack[u]
    BY <1>4, WsaSendStack DEF Swap, Was, Sending, Ending, Using, Others
  <2>2. /\ sendRegistered /\ posted = {} /\ sendDone = <<>>
        /\ \A u \in Workers : ~Has(stack'[u], {"registerSend", "fill", "openGate", "sendNext"})
    BY <2>1, SenderAlone
  <2>3. posted' = {sendBuffers} /\ UNCHANGED <<sendQueue, sendRegistered, sendBuffers, sendDone, pushed, wire, lost>>
    BY <1>4, <2>2 DEF WsaSend
  <2>4. InFlight' = InFlight
    BY <2>3 DEF InFlight
  <2> QED
    BY <2>2, <2>3, <2>4 DEF OrderInv
<1>5. ASSUME NEW t \in Workers, SendLog(t) PROVE OrderInv'
  <2>1. \A u \in Workers : Has(stack'[u], {"registerSend", "fill", "openGate", "sendNext"})
            => Has(stack[u], {"registerSend", "fill", "openGate", "sendNext"})
    BY <1>5, SendLogStack DEF Leave, Was, Sending, Ending, Others
  <2> QED
    BY <1>5, <2>1, OrderKept DEF SendLog
<1>6. ASSUME NEW t \in Workers, WsaSendFails(t) PROVE OrderInv'
  <2>1. \A u \in Workers : Has(stack'[u], {"registerSend", "fill", "openGate", "sendNext"})
            => Has(stack[u], {"registerSend", "fill", "openGate", "sendNext"})
    BY <1>6, WsaSendFailsStack DEF Split, Swap, Was, Sending, Ending, Others
  <2> QED
    BY <1>6, <2>1, OrderKept DEF WsaSendFails
<1>7. ASSUME NEW t \in Workers, SendFailed(t) PROVE OrderInv'
  <2>1. Has(stack[t], Using)
    BY <1>7, SendFailedStack DEF Swap, Was, Using
  <2>2. sendRegistered /\ posted = {} /\ sendDone = <<>> /\ InFlight = sendBuffers
    BY <2>1, SenderAlone
  <2>3. /\ lost' = lost \cup ToSet(sendBuffers) /\ sendBuffers' = <<>>
        /\ UNCHANGED <<sendQueue, sendRegistered, posted, sendDone, pushed, wire>>
    BY <1>7 DEF SendFailed
  <2>4. InFlight' = <<>>
    BY <2>2, <2>3 DEF InFlight
  <2>5. /\ Increasing(All(wire, InFlight, sendQueue)')
        /\ Packets \cap (1 .. pushed') = ToSet(All(wire, InFlight, sendQueue)') \cup lost'
        /\ ToSet(All(wire, InFlight, sendQueue)') \cap lost' = {}
    BY <2>2, <2>3, <2>4, BatchLost
  <2> QED
    BY <2>2, <2>3, <2>5 DEF OrderInv
<1>8. ASSUME NEW t \in Workers, OpenGate(t) PROVE OrderInv'
  <2>1. Has(stack[t], {"registerSend", "fill", "openGate", "sendNext"})
    BY <1>8, OpenGateStack DEF Leave, Was, Sending, Ending
  <2>2. sendBuffers = <<>>
    BY <2>1 DEF OrderInv
  <2>3. UNCHANGED <<sendQueue, sendBuffers, posted, sendDone, pushed, wire, lost>>
    BY <1>8 DEF OpenGate
  <2>4. InFlight' = InFlight
    BY <2>3 DEF InFlight
  <2> QED
    BY <2>2, <2>3, <2>4 DEF OrderInv
<1>9. ASSUME NEW t \in Workers, TakeSend(t) PROVE OrderInv'
  <2>1. sendDone # <<>> /\ sendBuffers' = <<>>
        /\ UNCHANGED <<sendQueue, sendRegistered, posted, pushed, wire, lost>>
    BY <1>9 DEF TakeSend, Released
  <2>2. posted = {}
    BY <2>1 DEF SendInv
  <2>3. InFlight' = <<>> /\ InFlight = <<>>
    BY <2>1 DEF InFlight
  <2> QED
    BY <2>1, <2>2, <2>3 DEF OrderInv
<1>10. ASSUME NEW t \in Workers, SendNext(t) PROVE OrderInv'
  <2>1. Has(stack[t], {"registerSend", "fill", "openGate", "sendNext"})
    BY <1>10, SendNextStack DEF Leave, Split, Was, Sending, Ending
  <2>2. sendBuffers = <<>>
    BY <2>1 DEF OrderInv
  <2>3. UNCHANGED <<sendQueue, sendBuffers, posted, sendDone, pushed, wire, lost>>
    BY <1>10 DEF SendNext
  <2>4. InFlight' = InFlight
    BY <2>3 DEF InFlight
  <2> QED
    BY <2>2, <2>3, <2>4 DEF OrderInv
<1>11. ASSUME NEW t \in Workers, Unlock(t) PROVE OrderInv'
  <2>1. \A u \in Workers : Has(stack'[u], {"registerSend", "fill", "openGate", "sendNext"})
            => Has(stack[u], {"registerSend", "fill", "openGate", "sendNext"})
    BY <1>11, UnlockStack DEF Leave, Was, Sending, Ending, Others
  <2> QED
    BY <1>11, <2>1, OrderKept DEF Unlock
<1>12. ASSUME NEW t \in Workers, TakeConnect(t) PROVE OrderInv'
  <2>1. \A u \in Workers : Has(stack'[u], {"registerSend", "fill", "openGate", "sendNext"})
            => Has(stack[u], {"registerSend", "fill", "openGate", "sendNext"})
    BY <1>12, TakeConnectStack DEF Begin, Others
  <2> QED
    BY <1>12, <2>1, OrderKept DEF TakeConnect
<1>13. ASSUME NEW t \in Workers, AddSession(t) PROVE OrderInv'
  <2>1. \A u \in Workers : Has(stack'[u], {"registerSend", "fill", "openGate", "sendNext"})
            => Has(stack[u], {"registerSend", "fill", "openGate", "sendNext"})
    BY <1>13, AddSessionStack DEF Swap, Was, Sending, Ending, Others
  <2> QED
    BY <1>13, <2>1, OrderKept DEF AddSession
<1>14. ASSUME NEW t \in Workers, RegisterRecv(t) PROVE OrderInv'
  <2>1. \A u \in Workers : Has(stack'[u], {"registerSend", "fill", "openGate", "sendNext"})
            => Has(stack[u], {"registerSend", "fill", "openGate", "sendNext"})
    BY <1>14, RegisterRecvStack DEF Swap, Leave, Was, Sending, Ending, Others
  <2> QED
    BY <1>14, <2>1, OrderKept DEF RegisterRecv
<1>15. ASSUME NEW t \in Workers, WsaRecv(t) PROVE OrderInv'
  <2>1. \A u \in Workers : Has(stack'[u], {"registerSend", "fill", "openGate", "sendNext"})
            => Has(stack[u], {"registerSend", "fill", "openGate", "sendNext"})
    BY <1>15, WsaRecvStack DEF Leave, Was, Sending, Ending, Others
  <2> QED
    BY <1>15, <2>1, OrderKept DEF WsaRecv
<1>16. ASSUME NEW t \in Workers, WsaRecvFails(t) PROVE OrderInv'
  <2>1. \A u \in Workers : Has(stack'[u], {"registerSend", "fill", "openGate", "sendNext"})
            => Has(stack[u], {"registerSend", "fill", "openGate", "sendNext"})
    BY <1>16, WsaRecvFailsStack DEF Leave, Swap, Was, Sending, Ending, Others
  <2> QED
    BY <1>16, <2>1, OrderKept DEF WsaRecvFails
<1>17. ASSUME NEW t \in Workers, TakeRecv(t) PROVE OrderInv'
  <2>1. \A u \in Workers : Has(stack'[u], {"registerSend", "fill", "openGate", "sendNext"})
            => Has(stack[u], {"registerSend", "fill", "openGate", "sendNext"})
    BY <1>17, TakeRecvStack DEF Begin, Others
  <2> QED
    BY <1>17, <2>1, OrderKept DEF TakeRecv
<1>18. ASSUME NEW t \in Workers, ParsePacket(t) PROVE OrderInv'
  <2>1. \A u \in Workers : Has(stack'[u], {"registerSend", "fill", "openGate", "sendNext"})
            => Has(stack[u], {"registerSend", "fill", "openGate", "sendNext"})
    BY <1>18, ParsePacketStack DEF Swap, Was, Sending, Ending, Others
  <2> QED
    BY <1>18, <2>1, OrderKept DEF ParsePacket
<1>19. ASSUME NEW t \in Workers, HandlerReturns(t) PROVE OrderInv'
  <2>1. \A u \in Workers : Has(stack'[u], {"registerSend", "fill", "openGate", "sendNext"})
            => Has(stack[u], {"registerSend", "fill", "openGate", "sendNext"})
    BY <1>19, HandlerReturnsStack DEF Swap, Was, Sending, Ending, Others
  <2> QED
    BY <1>19, <2>1, OrderKept DEF HandlerReturns
<1>20. ASSUME NEW t \in Workers, EndRecv(t) PROVE OrderInv'
  <2>1. \A u \in Workers : Has(stack'[u], {"registerSend", "fill", "openGate", "sendNext"})
            => Has(stack[u], {"registerSend", "fill", "openGate", "sendNext"})
    BY <1>20, EndRecvStack DEF Swap, Was, Sending, Ending, Others
  <2> QED
    BY <1>20, <2>1, OrderKept DEF EndRecv
<1>21. ASSUME NEW t \in Workers, Disconnect(t) PROVE OrderInv'
  <2>1. \A u \in Workers : Has(stack'[u], {"registerSend", "fill", "openGate", "sendNext"})
            => Has(stack[u], {"registerSend", "fill", "openGate", "sendNext"})
    BY <1>21, DisconnectStack DEF Swap, Leave, Was, Sending, Ending, Others
  <2> QED
    BY <1>21, <2>1, OrderKept DEF Disconnect
<1>22. ASSUME NEW t \in Workers, DisconnectEx(t) PROVE OrderInv'
  <2>1. \A u \in Workers : Has(stack'[u], {"registerSend", "fill", "openGate", "sendNext"})
            => Has(stack[u], {"registerSend", "fill", "openGate", "sendNext"})
    BY <1>22, DisconnectExStack DEF Leave, Was, Sending, Ending, Others
  <2> QED
    BY <1>22, <2>1, OrderKept DEF DisconnectEx
<1>23. ASSUME NEW t \in Workers, TakeDisconnect(t) PROVE OrderInv'
  <2>1. \A u \in Workers : Has(stack'[u], {"registerSend", "fill", "openGate", "sendNext"})
            => Has(stack[u], {"registerSend", "fill", "openGate", "sendNext"})
    BY <1>23, TakeDisconnectStack DEF Begin, Others
  <2> QED
    BY <1>23, <2>1, OrderKept DEF TakeDisconnect
<1>24. ASSUME NEW t \in Workers, ReleaseSession(t) PROVE OrderInv'
  <2>1. \A u \in Workers : Has(stack'[u], {"registerSend", "fill", "openGate", "sendNext"})
            => Has(stack[u], {"registerSend", "fill", "openGate", "sendNext"})
    BY <1>24, ReleaseSessionStack DEF Leave, Was, Sending, Ending, Others
  <2> QED
    BY <1>24, <2>1, OrderKept DEF ReleaseSession
<1>25. ASSUME NEW t \in Workers, CallSend(t) PROVE OrderInv'
  <2>1. Others(t) /\ \A P : Has(stack'[t], P) <=> "push" \in P \/ Has(stack[t], P)
    BY <1>25, CallSendStack
  <2> QED
    BY <1>25, <2>1, OrderKept DEF CallSend, Others
<1>26. CASE KernelSends
  <2>1. PICK b \in posted, ok \in BOOLEAN :
          /\ posted' = posted \ {b} /\ sendDone' = Append(sendDone, ok)
          /\ IF ok THEN wire' = wire \o b /\ UNCHANGED lost
                   ELSE lost' = lost \cup ToSet(b) /\ UNCHANGED wire
    BY <1>26 DEF KernelSends
  <2>2. b = sendBuffers /\ posted' = {} /\ sendDone = <<>> /\ sendRegistered
    BY <2>1 DEF OrderInv, SendInv
  <2>3. sendDone' # <<>>
    BY <2>1, <2>2
  <2>4. InFlight = sendBuffers /\ InFlight' = <<>>
    BY <2>2, <2>3 DEF InFlight
  <2>5. UNCHANGED <<sendQueue, sendRegistered, sendBuffers, pushed, stack>>
    BY <1>26 DEF KernelSends
  <2>6. CASE ok
    <3>1. /\ wire \in Seq(Packets) /\ sendBuffers \in Seq(Packets) /\ sendQueue \in Seq(Packets)
      BY DEF Types
    <3>2. All(wire \o sendBuffers, <<>>, sendQueue) = All(wire, sendBuffers, sendQueue)
      BY <3>1, Shifted
    <3>3. All(wire, InFlight, sendQueue)' = All(wire, InFlight, sendQueue) /\ lost' = lost
      BY <2>1, <2>2, <2>4, <2>5, <2>6, <3>2
    <3> QED
      BY <2>2, <2>5, <3>3 DEF OrderInv
  <2>7. CASE ~ok
    <3>1. lost' = lost \cup ToSet(sendBuffers) /\ wire' = wire
      BY <2>1, <2>2, <2>7
    <3>2. /\ Increasing(All(wire, InFlight, sendQueue)')
          /\ Packets \cap (1 .. pushed') = ToSet(All(wire, InFlight, sendQueue)') \cup lost'
          /\ ToSet(All(wire, InFlight, sendQueue)') \cap lost' = {}
      BY <2>4, <2>5, <3>1, BatchLost
    <3> QED
      BY <2>2, <2>5, <3>2 DEF OrderInv
  <2> QED
    BY <2>6, <2>7
<1>27. CASE KernelReceives
  BY <1>27, OrderKept DEF KernelReceives
<1>28. CASE UNCHANGED vars
  BY <1>28, OrderKept DEF vars
<1>29. QED
  BY <1>1, <1>2, <1>3, <1>4, <1>5, <1>6, <1>7, <1>8, <1>9, <1>10, <1>11, <1>12, <1>13,
     <1>14, <1>15, <1>16, <1>17, <1>18, <1>19, <1>20, <1>21, <1>22, <1>23, <1>24, <1>25,
     <1>26, <1>27, <1>28 DEF Next, Step, SendStep, RecvStep, LifeStep

-----------------------------------------------------------------------------
(* The invariant, and what follows from it.                                *)
IInv ==
  Stacks /\ Types /\ CallInv /\ EarlyInv /\ SendInv /\ OrderInv /\ RecvInv /\ BufferInv /\ LifeInv

LEMMA InitIInv ==
  ASSUME Init
  PROVE  IInv
<1>1. \A t \in Workers : stack[t] = <<>> /\ \A P : ~Has(stack[t], P)
  BY Tuples DEF Init
<1>2. Stacks
  BY <1>1 DEF Init, Stacks, Shape
<1>3. Types
  BY SizesAssumption, SeqTypes DEF Init, Types
<1>4. CallInv
  <2>1. Calling = {}
    BY <1>1 DEF Calling, At
  <2> QED
    BY <2>1, FS_EmptySet, SendsAssumption DEF Init, CallInv
<1>5. EarlyInv
  BY <1>1 DEF Init, BufferInit, EarlyInv
<1>6. SendInv
  BY <1>1 DEF Init, SendInv
<1>7. OrderInv
  <2>1. All(wire, InFlight, sendQueue) = <<>>
    BY DEF Init, InFlight, All
  <2>2. ToSet(<<>>) = {} /\ Increasing(<<>>)
    BY DEF ToSet, Increasing
  <2>3. 1 .. pushed = {}
    BY DEF Init
  <2> QED
    BY <1>1, <2>1, <2>2, <2>3 DEF Init, OrderInv
<1>8. RecvInv
  BY <1>1 DEF Init, RecvInv
<1>9. BufferInv
  <2>1. ~Parsing
    BY <1>1 DEF Parsing
  <2>2. First = 0 /\ Limit = 0
    BY <2>1 DEF Init, BufferInit, First, Limit
  <2>3. FreeSize >= BufferSize
    BY CapacityRoom DEF Init, BufferInit, FreeSize
  <2> QED
    BY <1>1, <2>2, <2>3, SizesAssumption, CapacityRoom DEF Init, BufferInit, BufferInv
<1>10. LifeInv
  BY <1>1 DEF Init, LifeInv
<1> QED
  BY <1>2, <1>3, <1>4, <1>5, <1>6, <1>7, <1>8, <1>9, <1>10 DEF IInv

LEMMA StepIInv ==
  ASSUME IInv, [Next]_vars
  PROVE  IInv'
BY StepStacks, StepTypes, StepCallInv, StepEarlyInv, StepSendInv, StepOrderInv,
   StepRecvInv, StepBufferInv, StepLifeInv DEF IInv

LEMMA TypesFollow ==
  ASSUME IInv
  PROVE  TypeOK
<1>1. \A t \in Workers : Len(stack[t]) <= 3
  <2> TAKE t \in Workers
  <2>1. CASE stack[t] = <<>>
    BY <2>1
  <2>2. CASE stack[t] # <<>>
    BY <2>2, Frame DEF IInv, Stacks
  <2> QED
    BY <2>1, <2>2
<1>2. /\ First <= writePos /\ writePos <= Limit /\ readPos <= First /\ readPos \in Nat /\ Limit <= Capacity
      /\ First \in Nat /\ Limit \in Nat
  BY DEF IInv, BufferInv, Types, First, Limit
<1>3. readPos \in 0 .. Capacity /\ writePos \in 0 .. Capacity
  BY <1>2, CapacityRoom DEF IInv, BufferInv
<1>4. handled \in 0 .. StreamLength
  BY <1>2, SizesAssumption DEF IInv, BufferInv, Types
<1>5. processLen \in 0 .. StreamLength
  BY <1>4, SizesAssumption DEF IInv, BufferInv
<1>6. pushed \in 0 .. MaxSends
  BY CallersCount, SendsAssumption DEF IInv, CallInv, Types
<1>7. disconnects \in 0 .. 1
  BY DEF IInv, LifeInv
<1> QED
  BY <1>1, <1>3, <1>4, <1>5, <1>6, <1>7 DEF IInv, Types, Stacks, BufferInv, TypeOK

LEMMA SendersHave ==
  Senders = {t \in Workers : Has(stack[t], Using)} /\ Failing = {t \in Workers : Has(stack[t], {"disconnect"})}
BY DEF Senders, Failing, In, Has, Using

LEMMA OneSendFollows ==
  ASSUME IInv
  PROVE  OneSend
<1>1. SendInv /\ sendDone \in Seq(BOOLEAN) /\ sendRegistered \in BOOLEAN
  BY DEF IInv, Types
<1>2. Senders = {} \/ \E t \in Workers : Senders = {t}
  BY <1>1, SendersHave DEF SendInv
<1>3. posted = {} \/ \E b \in posted : posted = {b}
  BY <1>1 DEF SendInv
<1>4. Cardinality({}) = 0 /\ \A x : Cardinality({x}) = 1
  BY FS_EmptySet, FS_Singleton
<1>5. sendDone = <<>> => Len(sendDone) = 0
  OBVIOUS
<1>6. CASE Senders # {}
  <2>1. posted = {} /\ sendDone = <<>> /\ sendRegistered
    BY <1>1, <1>6, SendersHave DEF SendInv
  <2>2. Uses = 1
    <3>1. Cardinality(Senders) = 1
      BY <1>2, <1>4, <1>6
    <3> QED
      BY <1>4, <1>5, <2>1, <3>1 DEF Uses
  <2> QED
    BY <2>1, <2>2 DEF OneSend
<1>7. CASE Senders = {} /\ posted # {}
  <2>1. sendDone = <<>> /\ sendRegistered /\ <<>> \notin posted
    BY <1>1, <1>7 DEF SendInv
  <2>2. Uses = 1
    <3>1. Cardinality(posted) = 1
      BY <1>3, <1>4, <1>7
    <3> QED
      BY <1>4, <1>5, <1>7, <2>1, <3>1 DEF Uses
  <2> QED
    BY <2>1, <2>2 DEF OneSend
<1>8. CASE Senders = {} /\ posted = {} /\ sendDone # <<>>
  <2>1. sendRegistered /\ Len(sendDone) = 1
    BY <1>1, <1>8 DEF SendInv
  <2>2. Uses = 1
    BY <1>4, <1>8, <2>1 DEF Uses
  <2> QED
    BY <1>8, <2>1, <2>2 DEF OneSend
<1>9. CASE Senders = {} /\ posted = {} /\ sendDone = <<>>
  <2>1. Uses = 0
    BY <1>4, <1>5, <1>9 DEF Uses
  <2>2. ~(sendRegistered /\ connected /\ Failing = {})
    BY <1>1, <1>9, SendersHave DEF SendInv
  <2> QED
    BY <1>9, <2>1, <2>2 DEF OneSend
<1> QED
  BY <1>6, <1>7, <1>8, <1>9

LEMMA OrderFollows ==
  ASSUME IInv
  PROVE  SentInOrder
BY DEF IInv, OrderInv, SentInOrder, All, Increasing

(* What RoomToReceive needs of the sizes: three packets in the buffer, or  *)
(* packets so small that less than one of them is never more than half.    *)
NoOverlap == BufferCount >= 3 \/ BufferSize <= 5

LEMMA PacketsFollow ==
  ASSUME IInv, NoOverlap
  PROVE  PacketsWhole
<1>1. Types /\ BufferInv /\ RecvInv /\ Stacks
  BY DEF IInv
<1>2. ASSUME NEW t \in Workers, At(t, "handler")
      PROVE  /\ handled \in DOMAIN Sizes
             /\ \A i \in 0 .. Sizes[handled] - 1 :
                  /\ readPos + processLen + i < writePos
                  /\ buffer[readPos + processLen + i] = handled + i
  <2>1. Has(stack[t], {"handler"}) /\ Has(stack[t], {"parse", "handler"})
    <3>1. Was(t, "handler")
      BY <1>1, <1>2, Standing DEF Places
    <3> QED
      BY <3>1 DEF Was
  <2>2. Parsing /\ recvOp = "none" /\ PacketHere
    BY <1>1, <2>1, ReceivingOnly DEF Parsing, RecvInv, BufferInv
  <2>3. handled \in DOMAIN Sizes /\ Unparsed >= Sizes[handled]
    BY <1>1, <2>2, HeaderThere DEF PacketHere
  <2>4. Sizes[handled] \in Nat
    BY <2>3, SizesFit
  <2>5. First = readPos + processLen /\ Limit = writePos
    BY <1>1, <2>2 DEF First, Limit, BufferInv
  <2>6. First + Sizes[handled] <= writePos /\ First \in Nat
    BY <1>1, <2>3, <2>4, <2>5 DEF BufferInv, Unparsed, DataSize
  <2>7. \A i \in 0 .. Sizes[handled] - 1 :
          First + i \in First .. Limit - 1 /\ (First + i) - First = i /\ First + i < writePos
    BY <1>1, <2>4, <2>5, <2>6 DEF BufferInv
  <2>8. \A i \in 0 .. Sizes[handled] - 1 : buffer[First + i] = handled + i
    BY <1>1, <2>7 DEF BufferInv
  <2> QED
    BY <2>3, <2>5, <2>7, <2>8
<1>3. ASSUME NEW t \in Workers, At(t, "wsaRecv") PROVE FreeSize >= BufferSize
  <2>1. Has(stack[t], {"addSession", "registerRecv", "wsaRecv"})
    <3>1. Was(t, "wsaRecv")
      BY <1>1, <1>3, Standing DEF Places
    <3> QED
      BY <3>1 DEF Was
  <2> QED
    BY <1>1, <2>1 DEF BufferInv, AtRoom
<1>4. ASSUME NEW t \in Workers, At(t, "parse"), ~PacketHere, MoveDue
      PROVE  DataSize - processLen <= readPos + processLen
  <2>1. Has(stack[t], {"parse", "handler"})
    <3>1. Was(t, "parse")
      BY <1>1, <1>4, Standing DEF Places
    <3> QED
      BY <3>1 DEF Was
  <2>2. Parsing /\ recvOp = "none"
    BY <1>1, <2>1, ReceivingOnly DEF Parsing, RecvInv
  <2>3. /\ First = readPos + processLen
        /\ Unparsed = writePos - First /\ Unparsed \in Nat /\ Unparsed <= BufferSize - 2
    BY <1>1, <1>4, <2>2, EndLeft DEF First
  <2>4. Capacity - writePos < BufferSize
    BY <1>4 DEF MoveDue, FreeSize
  <2>5. Unparsed <= writePos - Unparsed
    BY <1>1, <2>3, <2>4, CapacityRoom DEF NoOverlap, BufferInv
  <2>6. writePos - Unparsed = First
    BY <1>1, <2>3 DEF BufferInv
  <2> QED
    BY <2>3, <2>5, <2>6 DEF Unparsed
<1> QED
  BY <1>2, <1>3, <1>4 DEF PacketsWhole, RoomToReceive

LEMMA StepLeaves ==
  ASSUME IInv, [Next]_vars, disconnects' # disconnects
  PROVE  disconnects = 0 /\ ~connected /\ inService
<1>1. PICK t \in Workers : TakeDisconnect(t)
  BY DEF Next, Step, SendStep, RecvStep, LifeStep, vars, lifeVars, CallSend, KernelSends,
         KernelReceives, Push, RegisterSend, Fill, WsaSend, SendLog, WsaSendFails, SendFailed,
         OpenGate, TakeSend, SendNext, Unlock, TakeConnect, AddSession, RegisterRecv, WsaRecv,
         WsaRecvFails, TakeRecv, ParsePacket, HandlerReturns, EndRecv, Disconnect,
         DisconnectEx, ReleaseSession
<1>2. disconnectOp = "posted"
  BY <1>1 DEF TakeDisconnect
<1>3. ~Early
  BY <1>2 DEF IInv, EarlyInv
<1> QED
  BY <1>2, <1>3 DEF IInv, LifeInv, Early

-----------------------------------------------------------------------------
(* The inductive invariant: who has the use of _sendEvent, of the receive  *)
(* buffer and of DisconnectEx is alone with it, and what each worker may   *)
(* count on at its place (Session.cpp).                                    *)
THEOREM Invariance == Spec => []IInv
<1>1. Init => IInv
  BY InitIInv
<1>2. IInv /\ [Next]_vars => IInv'
  BY StepIInv
<1> QED
  BY <1>1, <1>2, PTL DEF Spec

(* Types, for any number of workers, any sizes of packets and buffer.      *)
THEOREM TypeCorrect == Spec => []TypeOK
<1>1. IInv => TypeOK
  BY TypesFollow
<1> QED
  BY <1>1, Invariance, PTL

(* One WSASend at a time, and no packet left behind a closed gate while    *)
(* nobody sends (Session.cpp:31, 160-208, 271-290).                        *)
THEOREM OneAtATime == Spec => []OneSend
<1>1. IInv => OneSend
  BY OneSendFollows
<1> QED
  BY <1>1, Invariance, PTL

(* Whatever workers push, fill and complete in whatever order, the packets *)
(* leave in the order of Send, each once (Session.cpp:26-37, 160-208).     *)
THEOREM InOrder == Spec => []SentInOrder
<1>1. IInv => SentInOrder
  BY OrderFollows
<1> QED
  BY <1>1, Invariance, PTL

(* Packets reach the handler whole, once and in order, for every size of   *)
(* the buffer in which Clean does not copy onto itself, the code's 10      *)
(* times 0x10000 among them (Session.cpp:320-339, RecvBuffer.cpp:18-38).   *)
THEOREM ArriveWhole ==
  ASSUME NoOverlap
  PROVE  Spec => []PacketsWhole
<1>1. IInv => PacketsWhole
  BY PacketsFollow
<1> QED
  BY <1>1, Invariance, PTL

(* OnDisconnected runs once, in a session that is in the service and whose *)
(* _connected has been taken away (Session.cpp:44-52, 233-239).            *)
THEOREM OneFarewell == Spec => LeavesOnce
<1>1. IInv /\ [Next]_vars => [disconnects' # disconnects => disconnects = 0 /\ ~connected /\ inService]_vars
  BY StepLeaves
<1> QED
  BY <1>1, Invariance, PTL DEF Spec, LeavesOnce
=============================================================================
