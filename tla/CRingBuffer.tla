---------------------------- MODULE CRingBuffer ----------------------------
(***************************************************************************)
(* The receive ring of a session (myIOCP/CRingBuffer.cpp).  One cell stays *)
(* empty, so that front = rear means empty; WSARecv fills the contiguous   *)
(* cells after rear, and Peek and Read may go round the end.               *)
(***************************************************************************)
EXTENDS Integers, Sequences

CONSTANTS
  maxSize,     \* RINGBUFFER_SIZE
  Byte,        \* what a cell may hold
  NoByte       \* a cell never written

ASSUME MaxSizeAssumption == maxSize \in Nat \ {0, 1}
ASSUME NoByteAssumption == NoByte \notin Byte

VARIABLES buffer, front, rear

ringVars == <<buffer, front, rear>>

Cells == 0 .. maxSize - 1

RingInit ==
  /\ buffer = [c \in Cells |-> NoByte]
  /\ front = 0
  /\ rear = 0

UseSize == IF front <= rear THEN rear - front ELSE maxSize - front + rear

FreeSize == maxSize - 1 - UseSize

DirectEnqueueSize_FaultyNoGap ==
  IF front <= rear THEN maxSize - rear ELSE front - rear - 1

(* The contiguous cells that may be written: the last cell too, unless     *)
(* rear would then meet front at 0.                                        *)
DirectEnqueueSize ==
  IF front <= rear
    THEN IF front = 0 THEN maxSize - 1 - rear ELSE maxSize - rear
    ELSE front - rear - 1

DirectDequeueSize == IF front <= rear THEN rear - front ELSE maxSize - front

MoveWritePos(size) == rear' = (rear + size) % maxSize

MoveReadPos(size) == front' = (front + size) % maxSize

Clear == front' = 0 /\ rear' = 0

(* What Peek copies when UseSize >= size: two pieces when the bytes go     *)
(* round the end.                                                          *)
Peek(size) ==
  LET direct == DirectDequeueSize
      Piece(from, n) == [i \in 1 .. n |-> buffer[from + i - 1]]
  IN  IF direct >= size THEN Piece(front, size)
      ELSE Piece(front, direct) \o Piece(0, size - direct)

(* WSARecv stores bytes at GetWritePtr(). *)
Store(bytes) ==
  buffer' = [c \in Cells |-> IF c \in rear .. rear + Len(bytes) - 1
                               THEN bytes[c - rear + 1] ELSE buffer[c]]
=============================================================================
