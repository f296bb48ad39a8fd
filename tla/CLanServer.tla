----------------------------- MODULE CLanServer -----------------------------
(***************************************************************************)
(* The network engine of the chat server (myIOCP/CLanServer.cpp): a pool   *)
(* of session slots shared by the accept thread, the IOCP worker threads   *)
(* and the Update thread, which calls SendPacket and Disconnect.           *)
(*                                                                         *)
(* A slot is kept out of the pool by ioRefCount: one base reference taken  *)
(* by InitSession and given back by CloseSession, and one reference per    *)
(* posted WSARecv or WSASend, given back by the worker that dequeues the   *)
(* completion.  Every interlocked operation, every critical section and    *)
(* every Winsock call is a step of its own; what happens between two of    *)
(* them on thread-local data is part of the step.                          *)
(*                                                                         *)
(* Abstractions.                                                           *)
(*  - A queued packet is the generation of the SessionID it was addressed  *)
(*    to: SendPacket(sid, pkt) on slot s appends sid's generation.  The    *)
(*    circular array sendQ with sqHead, sqTail, sqCount is a sequence of   *)
(*    at most Qsize entries, sendPkts with sentCount is a sequence.        *)
(*  - recvIO[s] and sendIO[s] count the operations posted for the slot     *)
(*    whose completion no worker has dequeued yet.  The outcome of an      *)
(*    operation is chosen when it is dequeued: an operation that finished  *)
(*    before its socket was closed may be dequeued as a success later.     *)
(*  - The messages pushed to the content queue are joined[s], received[s]  *)
(*    and left[s], the generation of the last session of the slot that     *)
(*    OnClientJoin, OnRecv and OnClientLeave announced.                    *)
(*  - The Update thread sends to sessions it heard from: every SendPacket  *)
(*    of CChatServer answers a received packet or goes to a room member,   *)
(*    and a room is entered by a received packet.                          *)
(*  - indexPool is the lock-free stack with atomic Push and Pop.           *)
(***************************************************************************)
EXTENDS Integers, Sequences, FiniteSets

CONSTANTS
  MaxSession,     \* number of session slots (maxSession)
  Workers,        \* the IOCP worker threads
  Acceptor,       \* the accept thread
  Updater,        \* the Update thread, the only caller of SendPacket
  Main,           \* the main thread, which calls Stop (module ServerMain)
  NoThread,       \* owner of a free sendLock
  Qsize,          \* capacity of a session's send queue
  MaxGeneration,  \* bound: how often one slot is allocated
  AssocMayFail    \* may CreateIoCompletionPort fail for an accepted socket?

ASSUME MaxSessionAssumption == MaxSession \in Nat \ {0}
ASSUME QsizeAssumption == Qsize \in Nat \ {0}
ASSUME MaxGenerationAssumption == MaxGeneration \in Nat
ASSUME AssocMayFailAssumption == AssocMayFail \in BOOLEAN
ASSUME ThreadsAssumption ==
  /\ IsFiniteSet(Workers)
  /\ Acceptor \notin Workers
  /\ Updater \notin Workers
  /\ Acceptor # Updater
  /\ Main \notin Workers \cup {Acceptor, Updater}
  /\ NoThread \notin Workers \cup {Acceptor, Updater, Main}

Slots == 0 .. MaxSession - 1
Threads == Workers \cup {Acceptor, Updater, Main}

VARIABLES
  indexPool,     \* the free slots, last element on top
  sock,          \* "open" or "invalid" (INVALID_SOCKET)
  generation,    \* incremented by every InitSession of the slot
  closeFlag,     \* 1 once a CloseSession of the session has begun
  ioRefCount,
  sendPending,   \* 1 while a FlushSend owns sendPkts
  sendQ,
  sendPkts,      \* packets handed to WSASend
  sendLock,      \* owner of the recursive critical section
  recvIO,        \* WSARecvs posted, completion not dequeued
  sendIO,        \* WSASends posted, completion not dequeued
  joined,
  received,
  left,
  totalAccept,
  totalDisconn,
  pc,            \* where each thread is
  cur,           \* the slot the thread works on
  ret,           \* where the thread goes when CloseSession returns
  sidGen         \* generation of the SessionID the Update thread sends to

queueVars == <<sendPending, sendQ, sendPkts>>
ioVars == <<recvIO, sendIO>>
contentVars == <<joined, received, left, totalAccept, totalDisconn>>
lifeVars == <<indexPool, sock, generation, closeFlag>>
threadVars == <<pc, cur, ret, sidGen>>

vars == <<indexPool, sock, generation, closeFlag, ioRefCount, sendPending,
          sendQ, sendPkts, sendLock, recvIO, sendIO, joined, received,
          left, totalAccept, totalDisconn, pc, cur, ret, sidGen>>
-----------------------------------------------------------------------------
(* Where a thread can be. *)

ClosingLabels == {"closeSock", "drain", "leave", "countLeave", "dropBase"}
CloseLabels == {"close"} \cup ClosingLabels
RecvLabels == {"recvRef", "recvPost"}
FlushLabels == {"exchange", "grab", "sendRef", "sendPost", "sendFail"}

Labels ==
  {"idle", "associate", "count", "join", "parse", "sent", "clearPending", "recheck",
   "release", "undo", "checkFlag", "enqueue", "unlock"}
  \cup CloseLabels \cup RecvLabels \cup FlushLabels

(* Where PostRecv and FlushSend return to: the accept thread loops, a      *)
(* worker gives back the reference of its completion, SendPacket leaves    *)
(* the critical section.                                                   *)
Home(t) ==
  IF t = Acceptor THEN "idle" ELSE IF t = Updater THEN "unlock" ELSE "release"

Goto(t, label) ==
  /\ pc' = [pc EXCEPT ![t] = label]
  /\ UNCHANGED <<cur, ret, sidGen>>

CallCloseSession(t, back) ==
  /\ pc' = [pc EXCEPT ![t] = "close"]
  /\ ret' = [ret EXCEPT ![t] = back]
  /\ UNCHANGED <<cur, sidGen>>

ReturnFromCloseSession(t) ==
  /\ pc' = [pc EXCEPT ![t] = ret[t]]
  /\ ret' = [ret EXCEPT ![t] = "idle"]
  /\ UNCHANGED <<cur, sidGen>>

CanLock(t, s) == sendLock[s] \in {NoThread, t}

IOAddRef(s) == ioRefCount' = [ioRefCount EXCEPT ![s] = @ + 1]

(* IORelease with ReleaseSession: the thread whose decrement reaches zero  *)
(* pushes the slot.  The code decrements and then pushes; between the two  *)
(* the slot is referenced by nobody and cannot be popped, so whoever else  *)
(* runs meanwhile finds what it would find after the push.                 *)
IORelease(s) ==
  /\ ioRefCount' = [ioRefCount EXCEPT ![s] = @ - 1]
  /\ indexPool' = IF ioRefCount[s] - 1 = 0 THEN Append(indexPool, s)
                                           ELSE indexPool
-----------------------------------------------------------------------------
(***************************************************************************)
(* Faulty variants.  An operator whose name ends in _Faulty... is a way    *)
(* the operator before the underscore could have been written wrongly; no  *)
(* specification uses it.  The project's mutation runs put it in the place *)
(* of the right one to see that a property notices.                        *)
(***************************************************************************)

(* Start: every slot is free and was never used; its closeFlag is 0. *)

Init ==
  /\ indexPool = [i \in 1 .. MaxSession |-> i - 1]
  /\ sock = [s \in Slots |-> "invalid"]
  /\ generation = [s \in Slots |-> 0]
  /\ closeFlag = [s \in Slots |-> 0]
  /\ ioRefCount = [s \in Slots |-> 0]
  /\ sendPending = [s \in Slots |-> 0]
  /\ sendQ = [s \in Slots |-> <<>>]
  /\ sendPkts = [s \in Slots |-> <<>>]
  /\ sendLock = [s \in Slots |-> NoThread]
  /\ recvIO = [s \in Slots |-> 0]
  /\ sendIO = [s \in Slots |-> 0]
  /\ joined = [s \in Slots |-> 0]
  /\ received = [s \in Slots |-> 0]
  /\ left = [s \in Slots |-> 0]
  /\ totalAccept = 0
  /\ totalDisconn = 0
  /\ pc = [t \in Threads |-> "idle"]
  /\ cur = [t \in Threads |-> 0]
  /\ ret = [t \in Threads |-> "idle"]
  /\ sidGen = 0
-----------------------------------------------------------------------------
(* AcceptThread *)

InitSession_FaultyKeepsQueue(s) ==
  /\ sock' = [sock EXCEPT ![s] = "open"]
  /\ generation' = [generation EXCEPT ![s] = @ + 1]
  /\ sendPkts' = [sendPkts EXCEPT ![s] = <<>>]
  /\ sendPending' = [sendPending EXCEPT ![s] = 0]
  /\ ioRefCount' = [ioRefCount EXCEPT ![s] = 1]
  /\ closeFlag' = [closeFlag EXCEPT ![s] = 0]
  /\ UNCHANGED sendQ

InitSession(s) ==
  /\ sock' = [sock EXCEPT ![s] = "open"]
  /\ generation' = [generation EXCEPT ![s] = @ + 1]
  /\ sendQ' = [sendQ EXCEPT ![s] = <<>>]
  /\ sendPkts' = [sendPkts EXCEPT ![s] = <<>>]
  /\ sendPending' = [sendPending EXCEPT ![s] = 0]
  /\ ioRefCount' = [ioRefCount EXCEPT ![s] = 1]
  /\ closeFlag' = [closeFlag EXCEPT ![s] = 0]

(* accept() returned a client and AllocSession popped a slot.  When the    *)
(* pool is empty the client's socket is closed and nothing changes.        *)
AllocSession ==
  /\ pc[Acceptor] = "idle"
  /\ indexPool # <<>>
  /\ LET s == indexPool[Len(indexPool)] IN
       /\ generation[s] < MaxGeneration
       /\ indexPool' = SubSeq(indexPool, 1, Len(indexPool) - 1)
       /\ InitSession(s)
       /\ cur' = [cur EXCEPT ![Acceptor] = s]
  /\ pc' = [pc EXCEPT ![Acceptor] = "associate"]
  /\ UNCHANGED <<sendLock, ioVars, contentVars, ret, sidGen>>

(* CreateIoCompletionPort for the client's socket. *)
Associate ==
  /\ pc[Acceptor] = "associate"
  /\ \/ Goto(Acceptor, "count")
     \/ AssocMayFail /\ CallCloseSession(Acceptor, "idle")
  /\ UNCHANGED <<lifeVars, ioRefCount, queueVars, sendLock, ioVars, contentVars>>

CountAccept ==
  /\ pc[Acceptor] = "count"
  /\ totalAccept' = totalAccept + 1
  /\ Goto(Acceptor, "join")
  /\ UNCHANGED <<lifeVars, ioRefCount, queueVars, sendLock, ioVars, joined,
                 received, left, totalDisconn>>

(* OnClientJoin pushes MSG_JOIN. *)
Join ==
  /\ pc[Acceptor] = "join"
  /\ joined' = [joined EXCEPT ![cur[Acceptor]] = generation[cur[Acceptor]]]
  /\ Goto(Acceptor, "recvRef")
  /\ UNCHANGED <<lifeVars, ioRefCount, queueVars, sendLock, ioVars, received,
                 left, totalAccept, totalDisconn>>
-----------------------------------------------------------------------------
(* PostRecv, by the accept thread and by the workers *)

PostRecvAddRef(t) ==
  /\ pc[t] = "recvRef"
  /\ IOAddRef(cur[t])
  /\ Goto(t, "recvPost")
  /\ UNCHANGED <<lifeVars, queueVars, sendLock, ioVars, contentVars>>

PostRecvPosted(t) ==
  /\ pc[t] = "recvPost"
  /\ sock[cur[t]] = "open"
  /\ recvIO' = [recvIO EXCEPT ![cur[t]] = @ + 1]
  /\ Goto(t, Home(t))
  /\ UNCHANGED <<lifeVars, ioRefCount, queueVars, sendLock, sendIO, contentVars>>

PostRecvFailed_FaultyKeepsRef(t) ==
  /\ pc[t] = "recvPost"
  /\ CallCloseSession(t, IF t = Acceptor THEN "idle" ELSE "release")
  /\ UNCHANGED <<lifeVars, ioRefCount, queueVars, sendLock, ioVars, contentVars>>

(* WSARecv failed at once: always on an invalid socket, at any time on an  *)
(* open one.                                                               *)
PostRecvFailed(t) ==
  /\ pc[t] = "recvPost"
  /\ CallCloseSession(t, "undo")
  /\ UNCHANGED <<lifeVars, ioRefCount, queueVars, sendLock, ioVars, contentVars>>

(* The IORelease after the CloseSession of a PostRecv or FlushSend that    *)
(* could not post.                                                         *)
UndoAddRef(t) ==
  /\ pc[t] = "undo"
  /\ IORelease(cur[t])
  /\ Goto(t, Home(t))
  /\ UNCHANGED <<sock, generation, closeFlag, queueVars, sendLock, ioVars,
                 contentVars>>
-----------------------------------------------------------------------------
(* CloseSession *)

CloseSessionTestFlag_FaultyNoTest(t) ==
  /\ pc[t] = "close"
  /\ closeFlag' = [closeFlag EXCEPT ![cur[t]] = 1]
  /\ Goto(t, "closeSock")
  /\ UNCHANGED <<indexPool, sock, generation, ioRefCount, queueVars, sendLock,
                 ioVars, contentVars>>

CloseSessionTestFlag_FaultyIncrement(t) ==
  /\ pc[t] = "close"
  /\ closeFlag' = [closeFlag EXCEPT ![cur[t]] = @ + 1]
  /\ IF closeFlag[cur[t]] # 0
       THEN ReturnFromCloseSession(t)
       ELSE Goto(t, "closeSock")
  /\ UNCHANGED <<indexPool, sock, generation, ioRefCount, queueVars, sendLock,
                 ioVars, contentVars>>

CloseSessionTestFlag(t) ==
  /\ pc[t] = "close"
  /\ closeFlag' = [closeFlag EXCEPT ![cur[t]] = 1]
  /\ IF closeFlag[cur[t]] # 0
       THEN ReturnFromCloseSession(t)
       ELSE Goto(t, "closeSock")
  /\ UNCHANGED <<indexPool, sock, generation, ioRefCount, queueVars, sendLock,
                 ioVars, contentVars>>

(* CancelIoEx, closesocket, sock = INVALID_SOCKET.  The posted operations  *)
(* stay outstanding until a worker dequeues them.                          *)
CloseSessionCloseSocket(t) ==
  /\ pc[t] = "closeSock"
  /\ sock' = [sock EXCEPT ![cur[t]] = "invalid"]
  /\ Goto(t, "drain")
  /\ UNCHANGED <<indexPool, generation, closeFlag, ioRefCount, queueVars,
                 sendLock, ioVars, contentVars>>

CloseSessionDrain_FaultyNoLeave(t) ==
  /\ pc[t] = "drain"
  /\ CanLock(t, cur[t])
  /\ sendQ' = [sendQ EXCEPT ![cur[t]] = <<>>]
  /\ Goto(t, "dropBase")
  /\ UNCHANGED <<lifeVars, ioRefCount, sendPending, sendPkts, sendLock, ioVars,
                 contentVars>>

(* The critical section that releases the queued packets. *)
CloseSessionDrain(t) ==
  /\ pc[t] = "drain"
  /\ CanLock(t, cur[t])
  /\ sendQ' = [sendQ EXCEPT ![cur[t]] = <<>>]
  /\ Goto(t, "leave")
  /\ UNCHANGED <<lifeVars, ioRefCount, sendPending, sendPkts, sendLock, ioVars,
                 contentVars>>

CloseSessionLeave_FaultyNoCount(t) ==
  /\ pc[t] = "leave"
  /\ left' = [left EXCEPT ![cur[t]] = generation[cur[t]]]
  /\ Goto(t, "dropBase")
  /\ UNCHANGED <<lifeVars, ioRefCount, queueVars, sendLock, ioVars, joined,
                 received, totalAccept, totalDisconn>>

(* OnClientLeave pushes MSG_LEAVE. *)
CloseSessionLeave(t) ==
  /\ pc[t] = "leave"
  /\ left' = [left EXCEPT ![cur[t]] = generation[cur[t]]]
  /\ Goto(t, "countLeave")
  /\ UNCHANGED <<lifeVars, ioRefCount, queueVars, sendLock, ioVars, joined,
                 received, totalAccept, totalDisconn>>

CloseSessionCount(t) ==
  /\ pc[t] = "countLeave"
  /\ totalDisconn' = totalDisconn + 1
  /\ Goto(t, "dropBase")
  /\ UNCHANGED <<lifeVars, ioRefCount, queueVars, sendLock, ioVars, joined,
                 received, left, totalAccept>>

CloseSessionDropBase_FaultyKeepsBase(t) ==
  /\ pc[t] = "dropBase"
  /\ ReturnFromCloseSession(t)
  /\ UNCHANGED <<lifeVars, ioRefCount, queueVars, sendLock, ioVars, contentVars>>

CloseSessionDropBase(t) ==
  /\ pc[t] = "dropBase"
  /\ IORelease(cur[t])
  /\ ReturnFromCloseSession(t)
  /\ UNCHANGED <<sock, generation, closeFlag, queueVars, sendLock, ioVars,
                 contentVars>>
-----------------------------------------------------------------------------
(* WorkerThread *)

(* GetQueuedCompletionStatus returned a recv: a success goes to            *)
(* OnRecvComplete, a failure or 0 bytes (the peer closed) closes.          *)
DequeueRecv(w) ==
  /\ pc[w] = "idle"
  /\ \E s \in Slots :
       /\ recvIO[s] > 0
       /\ recvIO' = [recvIO EXCEPT ![s] = @ - 1]
       /\ cur' = [cur EXCEPT ![w] = s]
       /\ \/ /\ pc' = [pc EXCEPT ![w] = "parse"]
             /\ UNCHANGED ret
          \/ /\ pc' = [pc EXCEPT ![w] = "close"]
             /\ ret' = [ret EXCEPT ![w] = "release"]
  /\ UNCHANGED <<lifeVars, ioRefCount, queueVars, sendLock, sendIO, contentVars,
                 sidGen>>

(* The same for a send.  A send of no buffer completes with 0 bytes. *)
DequeueSend(w) ==
  /\ pc[w] = "idle"
  /\ \E s \in Slots :
       /\ sendIO[s] > 0
       /\ sendIO' = [sendIO EXCEPT ![s] = @ - 1]
       /\ cur' = [cur EXCEPT ![w] = s]
       /\ \/ /\ sendPkts[s] # <<>>
             /\ pc' = [pc EXCEPT ![w] = "sent"]
             /\ UNCHANGED ret
          \/ /\ pc' = [pc EXCEPT ![w] = "close"]
             /\ ret' = [ret EXCEPT ![w] = "release"]
  /\ UNCHANGED <<lifeVars, ioRefCount, queueVars, sendLock, recvIO, contentVars,
                 sidGen>>

(* OnRecvComplete: the complete packets in the ring buffer, if any, go to  *)
(* OnRecv, then the next recv is posted; a bad length, a bad MAC or a full *)
(* ring closes.                                                            *)
OnRecvComplete(w) ==
  /\ pc[w] = "parse"
  /\ \/ UNCHANGED received
     \/ received' = [received EXCEPT ![cur[w]] = generation[cur[w]]]
  /\ \/ Goto(w, "recvRef")
     \/ CallCloseSession(w, "release")
  /\ UNCHANGED <<lifeVars, ioRefCount, queueVars, sendLock, ioVars, joined, left,
                 totalAccept, totalDisconn>>

OnSendCompleteRelease(w) ==
  /\ pc[w] = "sent"
  /\ sendPkts' = [sendPkts EXCEPT ![cur[w]] = <<>>]
  /\ Goto(w, "clearPending")
  /\ UNCHANGED <<lifeVars, ioRefCount, sendPending, sendQ, sendLock, ioVars,
                 contentVars>>

OnSendCompleteClear(w) ==
  /\ pc[w] = "clearPending"
  /\ sendPending' = [sendPending EXCEPT ![cur[w]] = 0]
  /\ Goto(w, "recheck")
  /\ UNCHANGED <<lifeVars, ioRefCount, sendQ, sendPkts, sendLock, ioVars,
                 contentVars>>

OnSendCompleteRecheck_FaultyNoRecheck(w) ==
  /\ pc[w] = "recheck"
  /\ Goto(w, "release")
  /\ UNCHANGED <<lifeVars, ioRefCount, queueVars, sendLock, ioVars, contentVars>>

OnSendCompleteRecheck_FaultyPostsRecv(w) ==
  /\ pc[w] = "recheck"
  /\ Goto(w, IF sendQ[cur[w]] # <<>> THEN "exchange" ELSE "recvRef")
  /\ UNCHANGED <<lifeVars, ioRefCount, queueVars, sendLock, ioVars, contentVars>>

(* sqCount is read without the lock. *)
OnSendCompleteRecheck(w) ==
  /\ pc[w] = "recheck"
  /\ Goto(w, IF sendQ[cur[w]] # <<>> THEN "exchange" ELSE "release")
  /\ UNCHANGED <<lifeVars, ioRefCount, queueVars, sendLock, ioVars, contentVars>>

(* The IORelease at the end of WorkerThread's loop body. *)
WorkerRelease(w) ==
  /\ pc[w] = "release"
  /\ IORelease(cur[w])
  /\ Goto(w, "idle")
  /\ UNCHANGED <<sock, generation, closeFlag, queueVars, sendLock, ioVars,
                 contentVars>>
-----------------------------------------------------------------------------
(* FlushSend, by a worker and by the Update thread inside SendPacket *)

FlushSendExchange_FaultyNoTest(t) ==
  /\ pc[t] = "exchange"
  /\ sendPending' = [sendPending EXCEPT ![cur[t]] = 1]
  /\ Goto(t, "grab")
  /\ UNCHANGED <<lifeVars, ioRefCount, sendQ, sendPkts, sendLock, ioVars,
                 contentVars>>

FlushSendExchange(t) ==
  /\ pc[t] = "exchange"
  /\ sendPending' = [sendPending EXCEPT ![cur[t]] = 1]
  /\ Goto(t, IF sendPending[cur[t]] # 0 THEN Home(t) ELSE "grab")
  /\ UNCHANGED <<lifeVars, ioRefCount, sendQ, sendPkts, sendLock, ioVars,
                 contentVars>>

(* The critical section that moves the whole queue to sendPkts. *)
FlushSendGrab(t) ==
  /\ pc[t] = "grab"
  /\ CanLock(t, cur[t])
  /\ sendPkts' = [sendPkts EXCEPT ![cur[t]] = sendQ[cur[t]]]
  /\ sendQ' = [sendQ EXCEPT ![cur[t]] = <<>>]
  /\ Goto(t, "sendRef")
  /\ UNCHANGED <<lifeVars, ioRefCount, sendPending, sendLock, ioVars, contentVars>>

FlushSendAddRef(t) ==
  /\ pc[t] = "sendRef"
  /\ IOAddRef(cur[t])
  /\ Goto(t, "sendPost")
  /\ UNCHANGED <<lifeVars, queueVars, sendLock, ioVars, contentVars>>

FlushSendPosted(t) ==
  /\ pc[t] = "sendPost"
  /\ sock[cur[t]] = "open"
  /\ sendIO' = [sendIO EXCEPT ![cur[t]] = @ + 1]
  /\ Goto(t, Home(t))
  /\ UNCHANGED <<lifeVars, ioRefCount, queueVars, sendLock, recvIO, contentVars>>

FlushSendFailed(t) ==
  /\ pc[t] = "sendPost"
  /\ Goto(t, "sendFail")
  /\ UNCHANGED <<lifeVars, ioRefCount, queueVars, sendLock, ioVars, contentVars>>

(* The packets are released, sendPending is cleared, the session closed. *)
FlushSendUndo(t) ==
  /\ pc[t] = "sendFail"
  /\ sendPkts' = [sendPkts EXCEPT ![cur[t]] = <<>>]
  /\ sendPending' = [sendPending EXCEPT ![cur[t]] = 0]
  /\ CallCloseSession(t, "undo")
  /\ UNCHANGED <<lifeVars, ioRefCount, sendQ, sendLock, ioVars, contentVars>>
-----------------------------------------------------------------------------
(* SendPacket and Disconnect, by the Update thread.  It knows the          *)
(* SessionIDs it received packets from; one whose generation is not the    *)
(* slot's is refused at once and nothing changes.                          *)

HeardFrom_FaultyOnJoin(s) == generation[s] # 0 /\ joined[s] = generation[s]

HeardFrom(s) == generation[s] # 0 /\ received[s] = generation[s]

SendPacketCheckGeneration ==
  /\ pc[Updater] = "idle"
  /\ \E s \in Slots :
       /\ HeardFrom(s)
       /\ cur' = [cur EXCEPT ![Updater] = s]
       /\ sidGen' = generation[s]
  /\ pc' = [pc EXCEPT ![Updater] = "checkFlag"]
  /\ UNCHANGED <<lifeVars, ioRefCount, queueVars, sendLock, ioVars, contentVars,
                 ret>>

SendPacketCheckFlag ==
  /\ pc[Updater] = "checkFlag"
  /\ Goto(Updater, IF closeFlag[cur[Updater]] # 0 THEN "idle" ELSE "enqueue")
  /\ UNCHANGED <<lifeVars, ioRefCount, queueVars, sendLock, ioVars, contentVars>>

SendPacketEnqueue ==
  /\ pc[Updater] = "enqueue"
  /\ CanLock(Updater, cur[Updater])
  /\ Len(sendQ[cur[Updater]]) < Qsize
  /\ sendQ' = [sendQ EXCEPT ![cur[Updater]] = Append(@, sidGen)]
  /\ sendLock' = [sendLock EXCEPT ![cur[Updater]] = Updater]
  /\ Goto(Updater, "exchange")
  /\ UNCHANGED <<lifeVars, ioRefCount, sendPending, sendPkts, ioVars, contentVars>>

(* The queue is full: the lock is left and the session closed. *)
SendPacketQueueFull ==
  /\ pc[Updater] = "enqueue"
  /\ CanLock(Updater, cur[Updater])
  /\ Len(sendQ[cur[Updater]]) >= Qsize
  /\ CallCloseSession(Updater, "idle")
  /\ UNCHANGED <<lifeVars, ioRefCount, queueVars, sendLock, ioVars, contentVars>>

SendPacketUnlock ==
  /\ pc[Updater] = "unlock"
  /\ sendLock' = [sendLock EXCEPT ![cur[Updater]] = NoThread]
  /\ Goto(Updater, "idle")
  /\ UNCHANGED <<lifeVars, ioRefCount, queueVars, ioVars, contentVars>>

Disconnect ==
  /\ pc[Updater] = "idle"
  /\ \E s \in Slots :
       /\ HeardFrom(s)
       /\ cur' = [cur EXCEPT ![Updater] = s]
       /\ sidGen' = generation[s]
  /\ pc' = [pc EXCEPT ![Updater] = "close"]
  /\ ret' = [ret EXCEPT ![Updater] = "idle"]
  /\ UNCHANGED <<lifeVars, ioRefCount, queueVars, sendLock, ioVars, contentVars>>
-----------------------------------------------------------------------------
CloseSession(t) ==
  \/ CloseSessionTestFlag(t)
  \/ CloseSessionCloseSocket(t)
  \/ CloseSessionDrain(t)
  \/ CloseSessionLeave(t)
  \/ CloseSessionCount(t)
  \/ CloseSessionDropBase(t)

PostRecv(t) ==
  \/ PostRecvAddRef(t)
  \/ PostRecvPosted(t)
  \/ PostRecvFailed(t)

FlushSend(t) ==
  \/ FlushSendExchange(t)
  \/ FlushSendGrab(t)
  \/ FlushSendAddRef(t)
  \/ FlushSendPosted(t)
  \/ FlushSendFailed(t)
  \/ FlushSendUndo(t)

(* The steps of a thread that is inside a handler. *)
AcceptStep ==
  Associate \/ CountAccept \/ Join \/ PostRecv(Acceptor) \/ CloseSession(Acceptor)
    \/ UndoAddRef(Acceptor)

WorkerStep(w) ==
  \/ OnRecvComplete(w)
  \/ OnSendCompleteRelease(w)
  \/ OnSendCompleteClear(w)
  \/ OnSendCompleteRecheck(w)
  \/ WorkerRelease(w)
  \/ PostRecv(w)
  \/ FlushSend(w)
  \/ CloseSession(w)
  \/ UndoAddRef(w)

UpdateStep ==
  \/ SendPacketCheckFlag
  \/ SendPacketEnqueue
  \/ SendPacketQueueFull
  \/ SendPacketUnlock
  \/ FlushSend(Updater)
  \/ CloseSession(Updater)
  \/ UndoAddRef(Updater)

Next ==
  \/ AllocSession
  \/ AcceptStep
  \/ \E w \in Workers : DequeueRecv(w) \/ DequeueSend(w) \/ WorkerStep(w)
  \/ SendPacketCheckGeneration
  \/ Disconnect
  \/ UpdateStep

Spec == Init /\ [][Next]_vars
-----------------------------------------------------------------------------
(***************************************************************************)
(* SendPacket reads generation and closeFlag, and only FlushSend's         *)
(* IOAddRef, several steps later, keeps the slot.  Nothing in the code     *)
(* closes that window.  Timely says that nothing slips through it: while   *)
(* SendPacket is between its test of closeFlag and IOAddRef the slot's     *)
(* last reference is not dropped, and while SendPacket or Disconnect runs  *)
(* the slot is not allocated anew.  TimelySpec is the system as it behaves *)
(* when the Update thread is not delayed there; Spec makes no such         *)
(* assumption.                                                             *)
(***************************************************************************)
WindowLabels == {"enqueue", "exchange", "grab", "sendRef"}

Timely ==
  LET s == cur[Updater] IN
  /\ pc[Updater] \in WindowLabels /\ ioRefCount[s] > 0 => ioRefCount'[s] # 0
  /\ pc[Updater] # "idle" => generation'[s] = generation[s]

TimelyNext == Next /\ Timely

TimelySpec == Init /\ [][TimelyNext]_vars

(* The I/O of a closed socket is cancelled, and the completion port hands  *)
(* its completions out in order, so each one is dequeued in the end.       *)
DequeueCancelled(s) ==
  /\ sock[s] = "invalid"
  /\ \E w \in Workers :
       \/ DequeueRecv(w) /\ recvIO'[s] < recvIO[s]
       \/ DequeueSend(w) /\ sendIO'[s] < sendIO[s]

(* The scheduler runs every thread that is inside a handler. *)
Fairness ==
  /\ WF_vars(AcceptStep /\ Timely)
  /\ WF_vars(UpdateStep /\ Timely)
  /\ \A w \in Workers : WF_vars(WorkerStep(w) /\ Timely)
  /\ \A s \in Slots : SF_vars(DequeueCancelled(s) /\ Timely)

LiveSpec == TimelySpec /\ Fairness
-----------------------------------------------------------------------------
(* Every variable holds a value of its kind: closeFlag is 0 or 1 whatever  *)
(* the number of closers, and sendLock is free or the Update thread's      *)
(* between two steps.                                                      *)
TypeOK ==
  /\ indexPool \in Seq(Slots)
  /\ sock \in [Slots -> {"open", "invalid"}]
  /\ generation \in [Slots -> Nat]
  /\ closeFlag \in [Slots -> {0, 1}]
  /\ ioRefCount \in [Slots -> Int]
  /\ sendPending \in [Slots -> {0, 1}]
  /\ sendQ \in [Slots -> Seq(Nat)]
  /\ sendPkts \in [Slots -> Seq(Nat)]
  /\ sendLock \in [Slots -> {NoThread, Updater}]
  /\ recvIO \in [Slots -> Nat]
  /\ sendIO \in [Slots -> Nat]
  /\ joined \in [Slots -> Nat]
  /\ received \in [Slots -> Nat]
  /\ left \in [Slots -> Nat]
  /\ totalAccept \in Nat
  /\ totalDisconn \in Nat
  /\ pc \in [Threads -> Labels]
  /\ cur \in [Threads -> Slots]
  /\ ret \in [Threads -> {"idle", "release", "undo"}]
  /\ sidGen \in Nat

(* Who holds a reference to slot s. *)
Closers(s) == {t \in Threads : cur[t] = s /\ pc[t] \in ClosingLabels}

Posting(t) ==
  \/ pc[t] \in {"recvPost", "sendPost", "sendFail", "undo"}
  \/ pc[t] \in CloseLabels /\ ret[t] = "undo"

Posters(s) == {t \in Threads : cur[t] = s /\ Posting(t)}

Completers(s) == {w \in Workers : cur[w] = s /\ pc[w] # "idle"}

BaseRef(s) ==
  IF (generation[s] # 0 /\ closeFlag[s] = 0) \/ Closers(s) # {} THEN 1 ELSE 0

(* ioRefCount counts the references: the base reference of a session that  *)
(* nobody closed or that is being closed, the posted operations, and the   *)
(* threads that post one or handle a completion.                           *)
RefCountExact ==
  \A s \in Slots :
    ioRefCount[s] = BaseRef(s) + recvIO[s] + sendIO[s]
                    + Cardinality(Completers(s)) + Cardinality(Posters(s))

(* IORelease gives a slot back once: the pool never holds a slot twice. *)
PoolDistinct ==
  \A i, j \in 1 .. Len(indexPool) : indexPool[i] = indexPool[j] => i = j

InPool(s) == \E i \in 1 .. Len(indexPool) : indexPool[i] = s

(* A slot is in the pool, once, when and only when nobody refers to it: no *)
(* posted operation or running handler finds its slot allocated anew.      *)
PoolExact ==
  /\ PoolDistinct
  /\ \A s \in Slots : InPool(s) <=> ioRefCount[s] = 0

(* CloseSession's exchange of closeFlag lets one thread per session close  *)
(* the socket, drain the queue and drop the base reference.                *)
OneCloser ==
  \A s \in Slots :
    /\ \A t, u \in Closers(s) : t = u
    /\ Closers(s) # {} => closeFlag[s] = 1

(* A session has one WSARecv at a time: recvCtx and the ring buffer are    *)
(* used by the posted operation or by one thread, never by both.           *)
OneReceive ==
  \A s \in Slots :
    recvIO[s] + Cardinality({t \in Threads :
      cur[t] = s /\ pc[t] \in {"parse", "recvRef", "recvPost"}}) <= 1

(* sendPending gives sendPkts, sendWsaBuf and sendCtx a single owner: the  *)
(* posted WSASend, or one thread that fills or empties them.               *)
OneSend ==
  \A s \in Slots :
    sendIO[s] + Cardinality({t \in Threads :
      /\ cur[t] = s
      /\ pc[t] \in {"grab", "sendRef", "sendPost", "sendFail", "sent",
                    "clearPending"}}) <= 1

(* A packet sent to one session of a slot is never queued for, or handed   *)
(* to the socket of, a later session of the slot, as far as the drain, the *)
(* reference of a send in flight and InitSession can see to it; Timely     *)
(* leaves out the SendPacket that compared the generation too early.       *)
NoStaleDelivery ==
  \A s \in Slots :
    /\ \A i \in 1 .. Len(sendQ[s]) : sendQ[s][i] = generation[s]
    /\ sendIO[s] > 0 =>
         \A i \in 1 .. Len(sendPkts[s]) : sendPkts[s][i] = generation[s]

(* Without Timely a packet can be queued for a later session of its slot.  *)
(* There is one way in, whatever the delays: SendPacket queues it after    *)
(* the slot was allocated anew, with a generation it compared before.  It  *)
(* stays with that one session: InitSession leaves nothing to the next.    *)
Stray(s) ==
  \/ \E i \in 1 .. Len(sendQ[s]) : sendQ[s][i] # generation[s]
  \/ \E i \in 1 .. Len(sendPkts[s]) : sendPkts[s][i] # generation[s]

SendsLate(s) ==
  /\ SendPacketEnqueue
  /\ cur[Updater] = s
  /\ sidGen < generation[s]

OnlyLateSendsStray ==
  [][\A s \in Slots :
       Stray(s)' => /\ generation'[s] = generation[s]
                    /\ Stray(s) \/ SendsLate(s)]_vars

(* A packet queued for an open session is not forgotten: somebody is about *)
(* to flush, or sendPending is set and whoever set it is still there to    *)
(* look at the queue again or to close.                                    *)
NoLostWakeup ==
  \A s \in Slots : closeFlag[s] = 0 /\ sendQ[s] # <<>> =>
    \/ sendIO[s] > 0
    \/ \E t \in Threads :
         /\ cur[t] = s
         /\ pc[t] \in {"exchange", "grab", "sendRef", "sendPost", "sendFail",
                       "sent", "clearPending", "recheck", "close"}

Events == INSTANCE SessionEvents WITH Generations <- 1 .. MaxGeneration

(* The content hears of a slot's sessions in order, although three kinds   *)
(* of threads push the messages: JOIN of a session after the LEAVE of the  *)
(* one before, packets only of the session announced last.  That a session *)
(* has one LEAVE only is OneCloser's part.                                 *)
AnnouncesInOrder == Events!Spec

(* A worker that saw a packet in the send queue and goes on to flush it    *)
(* finds it there: FlushSend hands packets to WSASend.  A WSASend without  *)
(* a buffer completes with 0 bytes, which WorkerThread takes for the end   *)
(* of the connection.                                                      *)
NoEmptySend ==
  \A t \in Threads :
    pc[t] = "sendPost" /\ closeFlag[cur[t]] = 0 => sendPkts[cur[t]] # <<>>

GetSessionCount == totalAccept - totalDisconn

(* GetSessionCount counts the sessions announced by OnClientJoin and not   *)
(* yet by OnClientLeave, apart from a thread between the two halves of an  *)
(* announcement.                                                           *)
SessionCountAccurate ==
  GetSessionCount =
    Cardinality({s \in Slots : joined[s] > left[s]})
    + Cardinality({t \in Threads : pc[t] \in {"join", "countLeave"}})

(* A closed session's slot goes back to the pool. *)
ClosedSlotReturns ==
  \A s \in Slots :
    closeFlag[s] = 1 ~> InPool(s)

(* No handler waits forever for a sendLock. *)
HandlersReturn ==
  \A t \in Threads : pc[t] # "idle" ~> pc[t] = "idle"

(* A slot in the pool holds no packet: all that SendPacket accepted were   *)
(* released.                                                               *)
FreeSlotHoldsNoPacket ==
  \A s \in Slots :
    InPool(s) => sendQ[s] = <<>> /\ sendPkts[s] = <<>>
=============================================================================
