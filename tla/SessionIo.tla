----------------------------- MODULE SessionIo -----------------------------
(***************************************************************************)
(* The network life of one server session (class Session): the gate        *)
(* _sendRegistered around WSASend, the chain of WSARecvs, and Disconnect   *)
(* with the completion that ends in OnDisconnected.                        *)
(*                                                                         *)
(* Any worker may take any completion from the completion port, and any    *)
(* worker may call Send from a job or handler.  A worker is its call stack,*)
(* innermost place first; <<>> is a worker in its loop.  The session's     *)
(* lock is held across steps only where ProcessSend calls RegisterSend     *)
(* inside it; RWLock says what it gives.                                   *)
(***************************************************************************)
EXTENDS RecvBuffer, Sequences, FiniteSets, SequencesExt

CONSTANTS
  Workers,   \* worker threads
  Nobody,    \* nobody holds the lock
  MaxSends,  \* bound: calls of Send in a behaviour
  Sizes,     \* what the peer sends: sizes of packets by where they start
  StreamLength,  \* and the number of bytes
  HeaderSize     \* sizeof(PacketHeader), 4 in the code

ASSUME WorkersAssumption == IsFiniteSet(Workers) /\ Nobody \notin Workers
ASSUME SendsAssumption   == MaxSends \in Nat
ASSUME SizesAssumption  ==
  /\ HeaderSize \in Nat \ {0} /\ StreamLength \in Nat
  /\ 0 \in DOMAIN Sizes /\ DOMAIN Sizes \subseteq Nat
  /\ \A s \in DOMAIN Sizes :
       /\ Sizes[s] \in HeaderSize .. BufferSize - 1   \* a uint16
       /\ s + Sizes[s] \in DOMAIN Sizes \cup {StreamLength}

VARIABLES
  connected,       \* _connected
  inService,       \* the session is in Service::_sessions
  disconnects,     \* calls of OnDisconnected
  sendQueue,       \* _sendQueue
  sendRegistered,  \* _sendRegistered
  sendBuffers,     \* _sendEvent.sendBuffers
  lock,            \* who holds the session's lock
  stack,           \* call stack of each worker
  processLen,      \* OnRecv: processLen
  posted,          \* batches given to WSASend and not completed
  sendDone,        \* completions of sends: TRUE, or FALSE for 0 bytes
  recvOp,          \* WSARecv: "none", "posted", "done"
  recvBytes,       \* bytes of its completion
  connectOp,       \* the AcceptEx of this session: "posted", "done", "none"
  disconnectOp,    \* DisconnectEx: "none", "posted", "done", "failed"
  arrived,         \* bytes of the stream the kernel has delivered
  handled,         \* where the next packet for OnRecvPacket starts
  pushed,          \* packets given to Send so far; numbers them
  wire,            \* packets the kernel has sent, in order
  lost             \* packets dropped by a failed WSASend

sendVars == <<sendQueue, sendRegistered, sendBuffers, posted, sendDone, pushed, wire, lost>>
recvVars == <<readPos, writePos, buffer, processLen, recvOp, recvBytes, arrived, handled>>
lifeVars == <<connected, inService, disconnects, connectOp, disconnectOp>>
vars     == <<sendVars, recvVars, lifeVars, lock, stack>>

Init ==
  /\ BufferInit
  /\ connected = FALSE /\ inService = FALSE /\ disconnects = 0
  /\ sendQueue = <<>> /\ sendRegistered = FALSE /\ sendBuffers = <<>>
  /\ lock = Nobody
  /\ stack = [t \in Workers |-> <<>>]
  /\ processLen = 0
  /\ posted = {} /\ sendDone = <<>>
  /\ recvOp = "none" /\ recvBytes = 0 /\ connectOp = "posted" /\ disconnectOp = "none"
  /\ arrived = 0 /\ handled = 0
  /\ pushed = 0 /\ wire = <<>> /\ lost = {}

Idle(t)         == stack[t] = <<>>
At(t, place)    == stack[t] # <<>> /\ Head(stack[t]) = place
Become(t, s)    == stack' = [stack EXCEPT ![t] = s]
Goto(t, place)  == Become(t, <<place>> \o Tail(stack[t]))
Return(t)       == Become(t, Tail(stack[t]))
LockFree(t)     == lock \in {Nobody, t}

-----------------------------------------------------------------------------
(* Send, from a packet handler or, once a packet was handled, from a job.  *)
Calling == {t \in Workers : At(t, "push")}

CallSend(t) ==
  /\ At(t, "handler") \/ (Idle(t) /\ handled > 0)
  /\ connected
  /\ pushed + Cardinality(Calling) < MaxSends
  /\ Become(t, <<"push">> \o stack[t])
  /\ UNCHANGED <<sendVars, recvVars, lifeVars, lock>>

(* mutant: the gate is tested without being closed                         *)
Gate_TestOnly == UNCHANGED sendRegistered

Gate == sendRegistered' = TRUE

Push(t) ==
  /\ At(t, "push") /\ LockFree(t)
  /\ pushed'    = pushed + 1
  /\ sendQueue' = Append(sendQueue, pushed + 1)
  /\ Gate
  /\ IF sendRegistered THEN Return(t) ELSE Goto(t, "registerSend")
  /\ UNCHANGED <<sendBuffers, posted, sendDone, wire, lost>>
  /\ UNCHANGED <<recvVars, lifeVars, lock>>

(* RegisterSend: the queue becomes the buffers of _sendEvent.              *)
RegisterSend(t) ==
  /\ At(t, "registerSend")
  /\ IF connected THEN Goto(t, "fill") ELSE Return(t)
  /\ UNCHANGED <<sendVars, recvVars, lifeVars, lock>>

Fill(t) ==
  /\ At(t, "fill") /\ LockFree(t)
  /\ sendBuffers' = sendBuffers \o sendQueue
  /\ sendQueue'   = <<>>
  /\ Goto(t, "wsaSend")
  /\ UNCHANGED <<sendRegistered, posted, sendDone, pushed, wire, lost>>
  /\ UNCHANGED <<recvVars, lifeVars, lock>>

(* After a success the thread still logs the buffers, see SendLog.         *)
WsaSend(t) ==
  /\ At(t, "wsaSend")
  /\ posted' = posted \cup {sendBuffers}
  /\ Goto(t, "sendLog")
  /\ UNCHANGED <<sendQueue, sendRegistered, sendBuffers, sendDone, pushed, wire, lost>>
  /\ UNCHANGED <<recvVars, lifeVars, lock>>

SendLog(t) ==
  /\ At(t, "sendLog")
  /\ Return(t)
  /\ UNCHANGED <<sendVars, recvVars, lifeVars, lock>>

(* WSASend fails: HandleError disconnects on a reset and only logs others. *)
WsaSendFails(t) ==
  /\ At(t, "wsaSend")
  /\ \/ Become(t, <<"disconnect", "sendFailed">> \o Tail(stack[t]))
     \/ Goto(t, "sendFailed")
  /\ UNCHANGED <<sendVars, recvVars, lifeVars, lock>>

SendFailed(t) ==
  /\ At(t, "sendFailed")
  /\ lost'        = lost \cup ToSet(sendBuffers)
  /\ sendBuffers' = <<>>
  /\ Goto(t, "openGate")
  /\ UNCHANGED <<sendQueue, sendRegistered, posted, sendDone, pushed, wire>>
  /\ UNCHANGED <<recvVars, lifeVars, lock>>

OpenGate(t) ==
  /\ At(t, "openGate")
  /\ sendRegistered' = FALSE
  /\ Return(t)
  /\ UNCHANGED <<sendQueue, sendBuffers, posted, sendDone, pushed, wire, lost>>
  /\ UNCHANGED <<recvVars, lifeVars, lock>>

(* The kernel completes a send, or fails it with 0 bytes.                  *)
KernelSends ==
  \E b \in posted, ok \in BOOLEAN :
    /\ posted'   = posted \ {b}
    /\ sendDone' = Append(sendDone, ok)
    /\ IF ok THEN wire' = wire \o b /\ UNCHANGED lost
             ELSE lost' = lost \cup ToSet(b) /\ UNCHANGED wire
    /\ UNCHANGED <<sendQueue, sendRegistered, sendBuffers, pushed>>
    /\ UNCHANGED <<recvVars, lifeVars, lock, stack>>

(* ProcessSend.                                                            *)
Released_Kept == sendBuffers          \* mutant: the buffers are not released

Released == <<>>

TakeSend(t) ==
  /\ Idle(t) /\ sendDone # <<>>
  /\ sendDone'    = Tail(sendDone)
  /\ sendBuffers' = Released
  /\ Become(t, IF Head(sendDone) THEN <<"sendNext">> ELSE <<"disconnect">>)
  /\ UNCHANGED <<sendQueue, sendRegistered, posted, pushed, wire, lost>>
  /\ UNCHANGED <<recvVars, lifeVars, lock>>

(* mutant: the gate is opened although packets wait                        *)
SendNext_Forgets(t) ==
  /\ At(t, "sendNext") /\ LockFree(t)
  /\ sendRegistered' = FALSE
  /\ Return(t)
  /\ UNCHANGED <<sendQueue, sendBuffers, posted, sendDone, pushed, wire, lost>>
  /\ UNCHANGED <<recvVars, lifeVars, lock>>

SendNext(t) ==
  /\ At(t, "sendNext") /\ LockFree(t)
  /\ IF sendQueue = <<>>
     THEN sendRegistered' = FALSE /\ Return(t) /\ UNCHANGED lock
     ELSE /\ lock' = t
          /\ Become(t, <<"registerSend", "unlock">>)
          /\ UNCHANGED sendRegistered
  /\ UNCHANGED <<sendQueue, sendBuffers, posted, sendDone, pushed, wire, lost>>
  /\ UNCHANGED <<recvVars, lifeVars>>

Unlock(t) ==
  /\ At(t, "unlock")
  /\ lock' = Nobody
  /\ Return(t)
  /\ UNCHANGED <<sendVars, recvVars, lifeVars>>

-----------------------------------------------------------------------------
(* Listener::ProcessAccept calls ProcessConnect.                           *)
TakeConnect(t) ==
  /\ Idle(t) /\ connectOp = "posted"
  /\ connectOp' = "done"
  /\ connected' = TRUE
  /\ Become(t, <<"addSession">>)
  /\ UNCHANGED <<inService, disconnects, disconnectOp>>
  /\ UNCHANGED <<sendVars, recvVars, lock>>

AddSession(t) ==
  /\ At(t, "addSession")
  /\ inService' = TRUE
  /\ Goto(t, "registerRecv")
  /\ UNCHANGED <<connected, disconnects, connectOp, disconnectOp>>
  /\ UNCHANGED <<sendVars, recvVars, lock>>

RegisterRecv(t) ==
  /\ At(t, "registerRecv")
  /\ IF connected THEN Goto(t, "wsaRecv") ELSE Return(t)
  /\ UNCHANGED <<sendVars, recvVars, lifeVars, lock>>

WsaRecv(t) ==
  /\ At(t, "wsaRecv")
  /\ recvOp' = "posted"
  /\ Return(t)
  /\ UNCHANGED <<readPos, writePos, buffer, processLen, recvBytes, arrived, handled>>
  /\ UNCHANGED <<sendVars, lifeVars, lock>>

WsaRecvFails(t) ==
  /\ At(t, "wsaRecv")
  /\ Return(t) \/ Goto(t, "disconnect")
  /\ UNCHANGED <<sendVars, recvVars, lifeVars, lock>>

(* The kernel completes a receive: data, or 0 bytes when the peer or this  *)
(* side has closed.                                                        *)
KernelReceives ==
  /\ recvOp = "posted" /\ recvOp' = "done"
  /\ \E n \in 0 .. StreamLength - arrived :
       /\ n <= FreeSize
       /\ recvBytes' = n
       /\ arrived'   = arrived + n
       /\ Deliver(n, arrived)
  /\ UNCHANGED <<readPos, writePos, processLen, handled>>
  /\ UNCHANGED <<sendVars, lifeVars, lock, stack>>

(* ProcessRecv: OnWrite, then OnRecv packet by packet.                     *)
TakeRecv(t) ==
  /\ Idle(t) /\ recvOp = "done"
  /\ recvOp' = "none"
  /\ IF (recvBytes = 0 \/ recvBytes > FreeSize)
     THEN Become(t, <<"disconnect">>) /\ UNCHANGED <<writePos, processLen>>
     ELSE /\ OnWrite(recvBytes)
          /\ processLen' = 0
          /\ Become(t, <<"parse">>)
  /\ UNCHANGED <<readPos, buffer, recvBytes, arrived, handled>>
  /\ UNCHANGED <<sendVars, lifeVars, lock>>

(* The header at the place OnRecv has come to; read in the wrong place it  *)
(* is some other number, here the least.                                   *)
Unparsed == DataSize - processLen

HeaderAt(i) == IF buffer[i] \in DOMAIN Sizes THEN Sizes[buffer[i]] ELSE HeaderSize

PacketHere_HeaderOnly == Unparsed >= HeaderSize   \* mutant: size is not compared

PacketHere ==
  /\ Unparsed >= HeaderSize
  /\ Unparsed >= HeaderAt(readPos + processLen)

ParsePacket(t) ==
  /\ At(t, "parse")
  /\ PacketHere
  /\ Goto(t, "handler")
  /\ UNCHANGED <<sendVars, recvVars, lifeVars, lock>>

(* OnRecvPacket returns.                                                   *)
HandlerReturns(t) ==
  /\ At(t, "handler")
  /\ processLen' = processLen + HeaderAt(readPos + processLen)
  /\ handled'    = handled + HeaderAt(readPos + processLen)
  /\ Goto(t, "parse")
  /\ UNCHANGED <<readPos, writePos, buffer, recvOp, recvBytes, arrived>>
  /\ UNCHANGED <<sendVars, lifeVars, lock>>

(* The rest is less than a packet: OnRead, Clean, and receive again.       *)
EndRecv(t) ==
  /\ At(t, "parse")
  /\ ~PacketHere
  /\ IF processLen > DataSize
     THEN Goto(t, "disconnect") /\ UNCHANGED bufferVars
     ELSE OnReadAndClean(readPos + processLen) /\ Goto(t, "registerRecv")
  /\ UNCHANGED <<processLen, recvOp, recvBytes, arrived, handled>>
  /\ UNCHANGED <<sendVars, lifeVars, lock>>

-----------------------------------------------------------------------------
(* Disconnect: only who finds _connected set goes on to DisconnectEx.      *)
Disconnect_Twice(t) ==                \* mutant: a load, not an exchange
  /\ At(t, "disconnect")
  /\ IF connected THEN Goto(t, "disconnectEx") ELSE Return(t)
  /\ UNCHANGED <<sendVars, recvVars, lifeVars, lock>>

Disconnect_Silent(t) ==               \* mutant: no DisconnectEx
  /\ At(t, "disconnect")
  /\ connected' = FALSE
  /\ Return(t)
  /\ UNCHANGED <<inService, disconnects, connectOp, disconnectOp>>
  /\ UNCHANGED <<sendVars, recvVars, lock>>

Disconnect(t) ==
  /\ At(t, "disconnect")
  /\ connected' = FALSE
  /\ IF connected THEN Goto(t, "disconnectEx") ELSE Return(t)
  /\ UNCHANGED <<inService, disconnects, connectOp, disconnectOp>>
  /\ UNCHANGED <<sendVars, recvVars, lock>>

DisconnectEx(t) ==
  /\ At(t, "disconnectEx")
  /\ disconnectOp' \in {"posted", "failed"}
  /\ Return(t)
  /\ UNCHANGED <<connected, inService, disconnects, connectOp>>
  /\ UNCHANGED <<sendVars, recvVars, lock>>

(* ProcessDisconnect: OnDisconnected, then ReleaseSession.                 *)
TakeDisconnect(t) ==
  /\ Idle(t) /\ disconnectOp = "posted"
  /\ disconnectOp' = "done"
  /\ disconnects'  = disconnects + 1
  /\ Become(t, <<"release">>)
  /\ UNCHANGED <<connected, inService, connectOp>>
  /\ UNCHANGED <<sendVars, recvVars, lock>>

ReleaseSession(t) ==
  /\ At(t, "release")
  /\ inService' = FALSE
  /\ Return(t)
  /\ UNCHANGED <<connected, disconnects, connectOp, disconnectOp>>
  /\ UNCHANGED <<sendVars, recvVars, lock>>

-----------------------------------------------------------------------------
SendStep(t) ==
  \/ Push(t) \/ RegisterSend(t) \/ Fill(t) \/ WsaSend(t) \/ SendLog(t)
  \/ WsaSendFails(t) \/ SendFailed(t) \/ OpenGate(t)
  \/ TakeSend(t) \/ SendNext(t) \/ Unlock(t)

RecvStep(t) ==
  \/ TakeConnect(t) \/ AddSession(t)
  \/ RegisterRecv(t) \/ WsaRecv(t) \/ WsaRecvFails(t)
  \/ TakeRecv(t) \/ ParsePacket(t) \/ HandlerReturns(t) \/ EndRecv(t)

LifeStep(t) ==
  Disconnect(t) \/ DisconnectEx(t) \/ TakeDisconnect(t) \/ ReleaseSession(t)

Step(t) == SendStep(t) \/ RecvStep(t) \/ LifeStep(t)

Next == KernelSends \/ KernelReceives \/ \E t \in Workers : CallSend(t) \/ Step(t)

Spec == Init /\ [][Next]_vars

(* Workers and kernel go on; nobody has to call Send or to send bytes, but *)
(* a receive ends when the connection does.                                *)
Fairness ==
  /\ WF_vars(KernelSends)
  /\ WF_vars(~connected /\ KernelReceives)
  /\ \A t \in Workers : WF_vars(Step(t))

FairSpec == Spec /\ Fairness

-----------------------------------------------------------------------------
Places == {"push", "registerSend", "fill", "wsaSend", "sendLog", "sendFailed",
           "openGate", "sendNext", "unlock", "addSession", "registerRecv",
           "wsaRecv", "parse", "handler", "disconnect", "disconnectEx", "release"}

Packets == 1 .. MaxSends

TypeOK ==
  /\ connected \in BOOLEAN /\ inService \in BOOLEAN /\ disconnects \in 0 .. 1
  /\ sendQueue \in Seq(Packets) /\ sendBuffers \in Seq(Packets)
  /\ sendRegistered \in BOOLEAN
  /\ lock \in Workers \cup {Nobody}
  /\ stack \in [Workers -> Seq(Places)]
  /\ \A t \in Workers : Len(stack[t]) <= 3
  /\ processLen \in 0 .. StreamLength
  /\ posted \subseteq Seq(Packets) /\ sendDone \in Seq(BOOLEAN)
  /\ recvOp \in {"none", "posted", "done"} /\ recvBytes \in 0 .. StreamLength
  /\ connectOp \in {"posted", "done"}
  /\ disconnectOp \in {"none", "posted", "done", "failed"}
  /\ arrived \in 0 .. StreamLength /\ handled \in 0 .. StreamLength
  /\ pushed \in 0 .. MaxSends /\ wire \in Seq(Packets) /\ lost \subseteq Packets
  /\ readPos \in 0 .. Capacity /\ writePos \in 0 .. Capacity
  /\ buffer \in [Cells -> 0 .. StreamLength]

In(t, places) == \E i \in DOMAIN stack[t] : stack[t][i] \in places

(* Those that have the use of _sendEvent: workers between the gate and     *)
(* WSASend, or cleaning up after it; the kernel; a completion.             *)
Senders == {t \in Workers : In(t, {"registerSend", "fill", "wsaSend",
                                   "sendFailed", "openGate", "sendNext"})}

Uses == Cardinality(Senders) + Cardinality(posted) + Len(sendDone)

Failing == {t \in Workers : In(t, {"disconnect"})}

(* One send at a time: whatever the workers do, at most one of them, the   *)
(* kernel or a completion has the use of _sendEvent, an open gate means    *)
(* none and a closed gate one, until the connection goes down; the kernel  *)
(* never gets an empty batch, which would complete with 0 bytes            *)
(* (Session.cpp:31, 160-208, 271-290).                                     *)
OneSend ==
  /\ Uses <= 1
  /\ ~sendRegistered => Uses = 0
  /\ sendRegistered /\ connected /\ Failing = {} => Uses = 1
  /\ <<>> \notin posted

(* The packets of Send are the packets on the wire, in a batch or waiting, *)
(* each once and in order, but for batches that WSASend failed on.         *)
InFlight == IF sendDone # <<>> THEN <<>> ELSE sendBuffers

SentInOrder ==
  LET all == wire \o InFlight \o sendQueue IN
  /\ \A i, j \in DOMAIN all : i < j => all[i] < all[j]
  /\ Packets \cap (1 .. pushed) = ToSet(all) \cup lost
  /\ ToSet(all) \cap lost = {}

(* WSARecv is always given room for a whole packet, so that it never gets  *)
(* a buffer of no bytes, which would read as the end of the connection;    *)
(* and memcpy in Clean never copies between regions that overlap           *)
(* (RecvBuffer.cpp:31-35, Session.cpp:142, 245).                           *)
RoomToReceive ==
  /\ \A t \in Workers : At(t, "wsaRecv") => FreeSize >= BufferSize
  /\ \A t \in Workers : (At(t, "parse") /\ ~PacketHere /\ MoveDue) =>
       DataSize - processLen <= readPos + processLen

(* OnRecvPacket gets each packet of the stream whole, once and in order,   *)
(* however the bytes were cut and wherever Clean has moved them, and there *)
(* is always room for the next one (Session.cpp:320-339,                   *)
(* RecvBuffer.cpp:18-38).                                                  *)
PacketsWhole ==
  /\ \A t \in Workers : At(t, "handler") =>
       /\ handled \in DOMAIN Sizes
       /\ \A i \in 0 .. Sizes[handled] - 1 :
            /\ readPos + processLen + i < writePos
            /\ buffer[readPos + processLen + i] = handled + i
  /\ RoomToReceive

(* OnDisconnected runs once, for a session that is in the service, after   *)
(* _connected was cleared (Session.cpp:44-52, 233-239; the assertion of    *)
(* Service.cpp:60).                                                        *)
LeavesOnce ==
  [][disconnects' # disconnects =>
       disconnects = 0 /\ ~connected /\ inService]_vars

(* A connection that is lost is given up: OnDisconnected runs, unless      *)
(* DisconnectEx itself fails (Session.cpp:121).                            *)
GivenUp ==
  (~connected /\ connectOp = "done") ~> (disconnects = 1 \/ disconnectOp = "failed")

(* A packet given to Send is sent, as long as the connection stands and no *)
(* WSASend fails (Session.cpp:20-37, 271-290).                             *)
EverySendLeaves ==
  \A p \in Packets :
    (pushed >= p) ~> (p \in ToSet(wire) \/ lost # {} \/ ~connected)
=============================================================================
