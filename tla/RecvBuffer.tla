----------------------------- MODULE RecvBuffer -----------------------------
(***************************************************************************)
(* The receive buffer of a session (class RecvBuffer).  WSARecv writes     *)
(* behind _writePos, OnRecv reads from _readPos, and Clean makes room by   *)
(* going back to the front.  A byte is its place in the stream the peer    *)
(* sent, so that a byte that is lost, doubled or moved shows.              *)
(***************************************************************************)
EXTENDS Naturals

CONSTANTS
  BufferSize,  \* Session::BUFFER_SIZE, 0x10000 in the code
  BufferCount  \* RecvBuffer::BUFFER_COUNT, 10 in the code

ASSUME BufferSizeAssumption  == BufferSize \in Nat \ {0}
ASSUME BufferCountAssumption == BufferCount \in Nat \ {0, 1}

VARIABLES
  readPos,   \* _readPos
  writePos,  \* _writePos
  buffer     \* _buffer: the stream position each cell was filled from

bufferVars == <<readPos, writePos, buffer>>

Capacity == BufferSize * BufferCount
Cells    == 0 .. Capacity - 1
DataSize == writePos - readPos
FreeSize == Capacity - writePos

BufferInit == readPos = 0 /\ writePos = 0 /\ buffer = [i \in Cells |-> 0]

(* The kernel fills n cells with the bytes from stream position first on.  *)
Deliver(n, first) ==
  buffer' = [i \in Cells |->
               IF writePos <= i /\ i < writePos + n THEN first + (i - writePos)
               ELSE buffer[i]]

OnWrite(n) == writePos' = writePos + n

(* OnRead and Clean, which follow each other: the read position becomes    *)
(* from; nothing left starts over, and when room runs short what is left   *)
(* moves to the front.                                                     *)
MoveDue_Never == FALSE                \* mutant: Clean never moves anything

MoveDue == FreeSize < BufferSize

Moved(from) ==
  [i \in Cells |-> IF i < writePos - from THEN buffer[from + i] ELSE buffer[i]]

OnReadAndClean(from) ==
  IF writePos = from THEN
    readPos' = 0 /\ writePos' = 0 /\ UNCHANGED buffer
  ELSE IF MoveDue THEN
    /\ buffer'   = Moved(from)
    /\ readPos'  = 0
    /\ writePos' = writePos - from
  ELSE
    readPos' = from /\ UNCHANGED <<writePos, buffer>>
=============================================================================
