-------------------------- MODULE CLanServerProofs --------------------------
(***************************************************************************)
(* Proofs about CLanServer and ServerMain, for any number of slots and     *)
(* workers:                                                                *)
(*  - of Spec, without an assumption about the Update thread, the type     *)
(*    invariant, and that a packet of another session comes into a queue   *)
(*    only by a SendPacket that is late;                                   *)
(*  - under TimelySpec the reference count: ioRefCount is exact, a slot is *)
(*    in the pool when and only when nobody refers to it, one thread       *)
(*    closes a session; then the channels of a session (one receive, one   *)
(*    send, a queue that somebody watches), the order of the announcements *)
(*    (SessionEvents) and the session count;                               *)
(*  - of MainSpec, that all this survives Stop, which closes sessions      *)
(*    without a reference of its own, and what Stop leaves behind.         *)
(* The steps are shown to keep the counts for the engine beside a main     *)
(* thread that may be closing sessions (ServerNext), which covers both     *)
(* specifications.                                                         *)
(***************************************************************************)
EXTENDS ServerMain, FiniteSetTheorems, SequenceTheorems, TLAPS

-----------------------------------------------------------------------------
(* Type correctness needs no assumption about the Update thread. *)

(* Acceptor, Updater, Main and the workers are different threads.          *)
LEMMA ThreadNames ==
  /\ Acceptor \in Threads /\ Updater \in Threads
  /\ \A w \in Workers : w \in Threads /\ w # Acceptor /\ w # Updater
  /\ Acceptor # Updater
  /\ Main \in Threads /\ Main \notin Workers /\ Main # Acceptor /\ Main # Updater
  /\ IsFiniteSet(Threads) /\ IsFiniteSet(Workers)
<1>1. IsFiniteSet(Workers \cup {Acceptor})
  BY ThreadsAssumption, FS_AddElement
<1>2. IsFiniteSet((Workers \cup {Acceptor}) \cup {Updater})
  BY <1>1, FS_AddElement
<1>3. IsFiniteSet(((Workers \cup {Acceptor}) \cup {Updater}) \cup {Main})
  BY <1>2, FS_AddElement
<1>4. Threads = ((Workers \cup {Acceptor}) \cup {Updater}) \cup {Main}
  BY DEF Threads
<1> QED
  BY <1>3, <1>4, ThreadsAssumption DEF Threads

(* The initial state is well typed. *)
LEMMA InitType == Init => TypeOK
<1> SUFFICES ASSUME Init PROVE TypeOK
  OBVIOUS
<1>1. indexPool \in Seq(Slots)
  <2>1. indexPool \in [1 .. MaxSession -> Slots]
    BY MaxSessionAssumption DEF Init, Slots
  <2> QED
    BY <2>1, MaxSessionAssumption
<1>2. <<>> \in Seq(Nat)
  OBVIOUS
<1>3. 0 \in Slots
  BY MaxSessionAssumption DEF Slots
<1> QED
  BY <1>1, <1>2, <1>3 DEF Init, TypeOK, Labels, Threads

(* Moving a thread, with its call and its return, keeps its place typed. *)
LEMMA GotoType ==
  ASSUME TypeOK, NEW t \in Threads, NEW l \in Labels, Goto(t, l)
  PROVE  /\ pc' \in [Threads -> Labels]
         /\ UNCHANGED <<cur, ret, sidGen>>
BY DEF TypeOK, Goto

(* Calling CloseSession keeps the types of pc and ret.                     *)
LEMMA CallType ==
  ASSUME TypeOK, NEW t \in Threads, NEW b \in {"idle", "release", "undo"},
         CallCloseSession(t, b)
  PROVE  /\ pc' \in [Threads -> Labels]
         /\ ret' \in [Threads -> {"idle", "release", "undo"}]
         /\ UNCHANGED <<cur, sidGen>>
BY DEF TypeOK, CallCloseSession, Labels, CloseLabels

(* Returning from CloseSession keeps the types of pc and ret.              *)
LEMMA ReturnType ==
  ASSUME TypeOK, NEW t \in Threads, ReturnFromCloseSession(t)
  PROVE  /\ pc' \in [Threads -> Labels]
         /\ ret' \in [Threads -> {"idle", "release", "undo"}]
         /\ UNCHANGED <<cur, sidGen>>
<1>1. ret[t] \in Labels
  BY DEF TypeOK, Labels
<1> QED
  BY <1>1 DEF TypeOK, ReturnFromCloseSession

(* IORelease, with or without ReleaseSession, keeps the types.             *)
LEMMA IOReleaseType ==
  ASSUME TypeOK, NEW s \in Slots, IORelease(s)
  PROVE  ioRefCount' \in [Slots -> Int] /\ indexPool' \in Seq(Slots)
BY DEF TypeOK, IORelease

(* Every thread has a label to come back to.                               *)
LEMMA HomeLabel == \A t \in Threads : Home(t) \in Labels
BY DEF Home, Labels

(* The steps of CloseSession keep the types. *)
LEMMA CloseSessionType ==
  ASSUME TypeOK, NEW t \in Threads, CloseSession(t)
  PROVE  TypeOK'
<1> USE DEF lifeVars, queueVars, ioVars, contentVars
<1>0. cur[t] \in Slots
  BY DEF TypeOK
<1>l. {"closeSock", "drain", "leave", "countLeave", "dropBase"} \subseteq Labels
  BY DEF Labels, CloseLabels, ClosingLabels
<1>1. CASE CloseSessionTestFlag(t)
  <2>1. pc' \in [Threads -> Labels]
        /\ ret' \in [Threads -> {"idle", "release", "undo"}]
        /\ UNCHANGED <<cur, sidGen>>
    <3>1. CASE closeFlag[cur[t]] # 0
      BY <1>1, <3>1, ReturnType DEF CloseSessionTestFlag
    <3>2. CASE closeFlag[cur[t]] = 0
      <4>1. Goto(t, "closeSock")
        BY <1>1, <3>2 DEF CloseSessionTestFlag
      <4>2. pc' \in [Threads -> Labels] /\ UNCHANGED <<cur, ret, sidGen>>
        BY <4>1, <1>l, GotoType
      <4> QED
        BY <4>2 DEF TypeOK
    <3> QED
      BY <3>1, <3>2
  <2> QED
    BY <1>0, <1>1, <2>1 DEF TypeOK, CloseSessionTestFlag
<1>2. CASE CloseSessionCloseSocket(t)
  BY <1>0, <1>2, <1>l, GotoType DEF TypeOK, CloseSessionCloseSocket
<1>3. CASE CloseSessionDrain(t)
  <2>1. <<>> \in Seq(Nat)
    OBVIOUS
  <2> QED
    BY <1>0, <1>3, <2>1, <1>l, GotoType DEF TypeOK, CloseSessionDrain
<1>4. CASE CloseSessionLeave(t)
  <2>1. pc' \in [Threads -> Labels] /\ UNCHANGED <<cur, ret, sidGen>>
    <3>1. Goto(t, "countLeave")
      BY <1>4 DEF CloseSessionLeave
    <3> QED
      BY <3>1, <1>l, GotoType
  <2> QED
    BY <1>0, <1>4, <2>1 DEF TypeOK, CloseSessionLeave
<1>5. CASE CloseSessionCount(t)
  <2>1. pc' \in [Threads -> Labels] /\ UNCHANGED <<cur, ret, sidGen>>
    <3>1. Goto(t, "dropBase")
      BY <1>5 DEF CloseSessionCount
    <3> QED
      BY <3>1, <1>l, GotoType
  <2>2. totalDisconn' \in Nat
    BY <1>5 DEF TypeOK, CloseSessionCount
  <2> QED
    BY <1>0, <1>5, <2>1, <2>2 DEF TypeOK, CloseSessionCount
<1>6. CASE CloseSessionDropBase(t)
  BY <1>0, <1>6, ReturnType, IOReleaseType DEF TypeOK, CloseSessionDropBase
<1> QED
  BY <1>1, <1>2, <1>3, <1>4, <1>5, <1>6 DEF CloseSession

(* So do those of PostRecv, with the IORelease after a failed post. *)
LEMMA PostRecvType ==
  ASSUME TypeOK, NEW t \in Threads, PostRecv(t) \/ UndoAddRef(t)
  PROVE  TypeOK'
<1> USE DEF lifeVars, queueVars, ioVars, contentVars
<1>0. cur[t] \in Slots /\ Home(t) \in Labels /\ "recvPost" \in Labels
  BY HomeLabel DEF TypeOK, Labels, RecvLabels
<1>1. CASE PostRecvAddRef(t)
  <2>1. ioRefCount' \in [Slots -> Int]
    BY <1>0, <1>1 DEF TypeOK, PostRecvAddRef, IOAddRef
  <2>2. pc' \in [Threads -> Labels] /\ UNCHANGED <<cur, ret, sidGen>>
    BY <1>0, <1>1, GotoType DEF PostRecvAddRef
  <2> QED
    BY <1>1, <2>1, <2>2 DEF TypeOK, PostRecvAddRef
<1>2. CASE PostRecvPosted(t)
  <2>1. recvIO' \in [Slots -> Nat]
    BY <1>0, <1>2 DEF TypeOK, PostRecvPosted
  <2>2. pc' \in [Threads -> Labels] /\ UNCHANGED <<cur, ret, sidGen>>
    BY <1>0, <1>2, GotoType DEF PostRecvPosted
  <2> QED
    BY <1>2, <2>1, <2>2 DEF TypeOK, PostRecvPosted
<1>3. CASE PostRecvFailed(t)
  BY <1>0, <1>3, CallType DEF TypeOK, PostRecvFailed
<1>4. CASE UndoAddRef(t)
  BY <1>0, <1>4, GotoType, IOReleaseType DEF TypeOK, UndoAddRef
<1> QED
  BY <1>1, <1>2, <1>3, <1>4 DEF PostRecv

(* The steps of FlushSend keep the types.                                  *)
LEMMA FlushSendType ==
  ASSUME TypeOK, NEW t \in Threads, FlushSend(t)
  PROVE  TypeOK'
<1> USE DEF lifeVars, queueVars, ioVars, contentVars
<1>0. cur[t] \in Slots /\ Home(t) \in Labels /\ <<>> \in Seq(Nat)
      /\ {"grab", "sendRef", "sendPost", "sendFail"} \subseteq Labels
  BY HomeLabel DEF TypeOK, Labels, FlushLabels
<1>1. CASE FlushSendExchange(t)
  <2>1. pc' \in [Threads -> Labels] /\ UNCHANGED <<cur, ret, sidGen>>
    <3>1. (IF sendPending[cur[t]] # 0 THEN Home(t) ELSE "grab") \in Labels
      BY <1>0
    <3> QED
      BY <1>1, <3>1, GotoType DEF FlushSendExchange
  <2> QED
    BY <1>0, <1>1, <2>1 DEF TypeOK, FlushSendExchange
<1>2. CASE FlushSendGrab(t)
  <2>1. pc' \in [Threads -> Labels] /\ UNCHANGED <<cur, ret, sidGen>>
    BY <1>0, <1>2, GotoType DEF FlushSendGrab
  <2>2. sendQ' \in [Slots -> Seq(Nat)] /\ sendPkts' \in [Slots -> Seq(Nat)]
    BY <1>0, <1>2 DEF TypeOK, FlushSendGrab
  <2> QED
    BY <1>2, <2>1, <2>2 DEF TypeOK, FlushSendGrab
<1>3. CASE FlushSendAddRef(t)
  <2>1. ioRefCount' \in [Slots -> Int]
    BY <1>0, <1>3 DEF TypeOK, FlushSendAddRef, IOAddRef
  <2>2. pc' \in [Threads -> Labels] /\ UNCHANGED <<cur, ret, sidGen>>
    BY <1>0, <1>3, GotoType DEF FlushSendAddRef
  <2> QED
    BY <1>3, <2>1, <2>2 DEF TypeOK, FlushSendAddRef
<1>4. CASE FlushSendPosted(t)
  <2>1. sendIO' \in [Slots -> Nat]
    BY <1>0, <1>4 DEF TypeOK, FlushSendPosted
  <2>2. pc' \in [Threads -> Labels] /\ UNCHANGED <<cur, ret, sidGen>>
    BY <1>0, <1>4, GotoType DEF FlushSendPosted
  <2> QED
    BY <1>4, <2>1, <2>2 DEF TypeOK, FlushSendPosted
<1>5. CASE FlushSendFailed(t)
  <2>1. pc' \in [Threads -> Labels] /\ UNCHANGED <<cur, ret, sidGen>>
    BY <1>0, <1>5, GotoType DEF FlushSendFailed
  <2> QED
    BY <1>5, <2>1 DEF TypeOK, FlushSendFailed
<1>6. CASE FlushSendUndo(t)
  <2>1. sendPkts' \in [Slots -> Seq(Nat)] /\ sendPending' \in [Slots -> {0, 1}]
    BY <1>0, <1>6 DEF TypeOK, FlushSendUndo
  <2> QED
    BY <1>6, <2>1, CallType DEF TypeOK, FlushSendUndo
<1> QED
  BY <1>1, <1>2, <1>3, <1>4, <1>5, <1>6 DEF FlushSend

(* The steps of WorkerThread keep the types.                               *)
LEMMA WorkerType ==
  ASSUME TypeOK, NEW w \in Workers,
         DequeueRecv(w) \/ DequeueSend(w) \/ WorkerStep(w)
  PROVE  TypeOK'
<1> USE DEF lifeVars, queueVars, ioVars, contentVars
<1>0. w \in Threads /\ cur[w] \in Slots /\ <<>> \in Seq(Nat)
      /\ {"idle", "parse", "sent", "clearPending", "recheck", "release", "close",
          "recvRef", "exchange"} \subseteq Labels
  BY ThreadNames DEF TypeOK, Labels, CloseLabels, RecvLabels, FlushLabels
<1>1. CASE DequeueRecv(w)
  <2>1. PICK s \in Slots :
          /\ recvIO[s] > 0
          /\ recvIO' = [recvIO EXCEPT ![s] = @ - 1]
          /\ cur' = [cur EXCEPT ![w] = s]
          /\ \/ pc' = [pc EXCEPT ![w] = "parse"] /\ UNCHANGED ret
             \/ /\ pc' = [pc EXCEPT ![w] = "close"]
                /\ ret' = [ret EXCEPT ![w] = "release"]
    BY <1>1 DEF DequeueRecv
  <2>2. recvIO' \in [Slots -> Nat]
    BY <2>1 DEF TypeOK
  <2>3. /\ pc' \in [Threads -> Labels] /\ cur' \in [Threads -> Slots]
        /\ ret' \in [Threads -> {"idle", "release", "undo"}]
    BY <1>0, <2>1 DEF TypeOK
  <2> QED
    BY <1>1, <2>2, <2>3 DEF TypeOK, DequeueRecv
<1>2. CASE DequeueSend(w)
  <2>1. PICK s \in Slots :
          /\ sendIO[s] > 0
          /\ sendIO' = [sendIO EXCEPT ![s] = @ - 1]
          /\ cur' = [cur EXCEPT ![w] = s]
          /\ \/ pc' = [pc EXCEPT ![w] = "sent"] /\ UNCHANGED ret
             \/ /\ pc' = [pc EXCEPT ![w] = "close"]
                /\ ret' = [ret EXCEPT ![w] = "release"]
    BY <1>2 DEF DequeueSend
  <2>2. sendIO' \in [Slots -> Nat]
    BY <2>1 DEF TypeOK
  <2>3. /\ pc' \in [Threads -> Labels] /\ cur' \in [Threads -> Slots]
        /\ ret' \in [Threads -> {"idle", "release", "undo"}]
    BY <1>0, <2>1, ZenonT(30) DEF TypeOK
  <2> QED
    BY <1>2, <2>2, <2>3 DEF TypeOK, DequeueSend
<1>3. CASE OnRecvComplete(w)
  <2>1. received' \in [Slots -> Nat]
    BY <1>0, <1>3 DEF TypeOK, OnRecvComplete
  <2>2. /\ pc' \in [Threads -> Labels] /\ UNCHANGED <<cur, sidGen>>
        /\ ret' \in [Threads -> {"idle", "release", "undo"}]
    <3>1. CASE Goto(w, "recvRef")
      <4>1. pc' \in [Threads -> Labels] /\ UNCHANGED <<cur, ret, sidGen>>
        BY <1>0, <3>1, GotoType
      <4> QED
        BY <4>1 DEF TypeOK
    <3>2. CASE CallCloseSession(w, "release")
      BY <1>0, <3>2, CallType
    <3> QED
      BY <1>3, <3>1, <3>2 DEF OnRecvComplete
  <2> QED
    BY <1>3, <2>1, <2>2 DEF TypeOK, OnRecvComplete
<1>4. CASE OnSendCompleteRelease(w)
  <2>1. pc' \in [Threads -> Labels] /\ UNCHANGED <<cur, ret, sidGen>>
    BY <1>0, <1>4, GotoType DEF OnSendCompleteRelease
  <2>2. sendPkts' \in [Slots -> Seq(Nat)]
    BY <1>0, <1>4 DEF TypeOK, OnSendCompleteRelease
  <2> QED
    BY <1>4, <2>1, <2>2 DEF TypeOK, OnSendCompleteRelease
<1>5. CASE OnSendCompleteClear(w)
  <2>1. pc' \in [Threads -> Labels] /\ UNCHANGED <<cur, ret, sidGen>>
    BY <1>0, <1>5, GotoType DEF OnSendCompleteClear
  <2> QED
    BY <1>0, <1>5, <2>1 DEF TypeOK, OnSendCompleteClear
<1>6. CASE OnSendCompleteRecheck(w)
  <2>1. pc' \in [Threads -> Labels] /\ UNCHANGED <<cur, ret, sidGen>>
    <3>1. (IF sendQ[cur[w]] # <<>> THEN "exchange" ELSE "release") \in Labels
      BY <1>0
    <3> QED
      BY <1>0, <1>6, <3>1, GotoType DEF OnSendCompleteRecheck
  <2> QED
    BY <1>6, <2>1 DEF TypeOK, OnSendCompleteRecheck
<1>7. CASE WorkerRelease(w)
  <2>1. pc' \in [Threads -> Labels] /\ UNCHANGED <<cur, ret, sidGen>>
    BY <1>0, <1>7, GotoType DEF WorkerRelease
  <2>2. ioRefCount' \in [Slots -> Int] /\ indexPool' \in Seq(Slots)
    BY <1>0, <1>7, IOReleaseType DEF WorkerRelease
  <2> QED
    BY <1>7, <2>1, <2>2 DEF TypeOK, WorkerRelease
<1>8. CASE PostRecv(w) \/ UndoAddRef(w)
  BY <1>0, <1>8, PostRecvType
<1>9. CASE FlushSend(w)
  BY <1>0, <1>9, FlushSendType
<1>10. CASE CloseSession(w)
  BY <1>0, <1>10, CloseSessionType
<1> QED
  BY <1>1, <1>2, <1>3, <1>4, <1>5, <1>6, <1>7, <1>8, <1>9, <1>10 DEF WorkerStep

(* The steps of AcceptThread keep the types.                               *)
LEMMA AcceptType ==
  ASSUME TypeOK, AllocSession \/ AcceptStep
  PROVE  TypeOK'
<1> USE DEF lifeVars, queueVars, ioVars, contentVars
<1>0. Acceptor \in Threads /\ cur[Acceptor] \in Slots /\ <<>> \in Seq(Nat)
      /\ {"associate", "count", "join", "recvRef"} \subseteq Labels
  BY ThreadNames DEF TypeOK, Labels, RecvLabels
<1>1. CASE AllocSession
  <2> DEFINE s == indexPool[Len(indexPool)]
  <2>1. s \in Slots /\ indexPool' \in Seq(Slots)
    <3>1. indexPool \in Seq(Slots) /\ indexPool # <<>>
      BY <1>1 DEF TypeOK, AllocSession
    <3>2. Len(indexPool) \in Nat \ {0}
      BY <3>1
    <3>3. SubSeq(indexPool, 1, Len(indexPool) - 1) \in Seq(Slots)
      BY <3>1, <3>2
    <3> QED
      BY <1>1, <3>1, <3>2, <3>3 DEF AllocSession
  <2>2. InitSession(s) /\ cur' = [cur EXCEPT ![Acceptor] = s]
        /\ pc' = [pc EXCEPT ![Acceptor] = "associate"]
    BY <1>1 DEF AllocSession
  <2> HIDE DEF s
  <2>3. generation' \in [Slots -> Nat]
    BY <2>1, <2>2 DEF TypeOK, InitSession
  <2>4. sendQ' \in [Slots -> Seq(Nat)] /\ sendPkts' \in [Slots -> Seq(Nat)]
    BY <1>0, <2>1, <2>2 DEF TypeOK, InitSession
  <2>5. /\ sock' \in [Slots -> {"open", "invalid"}]
        /\ sendPending' \in [Slots -> {0, 1}] /\ closeFlag' \in [Slots -> {0, 1}]
        /\ ioRefCount' \in [Slots -> Int]
    BY <2>1, <2>2 DEF TypeOK, InitSession
  <2>6. pc' \in [Threads -> Labels] /\ cur' \in [Threads -> Slots]
    BY <1>0, <2>1, <2>2 DEF TypeOK
  <2> QED
    BY <1>1, <2>1, <2>3, <2>4, <2>5, <2>6 DEF TypeOK, AllocSession
<1>2. CASE Associate
  <2>1. CASE Goto(Acceptor, "count")
    <3>1. pc' \in [Threads -> Labels] /\ UNCHANGED <<cur, ret, sidGen>>
      BY <1>0, <2>1, GotoType
    <3> QED
      BY <1>2, <3>1 DEF TypeOK, Associate
  <2>2. CASE CallCloseSession(Acceptor, "idle")
    BY <1>0, <1>2, <2>2, CallType DEF TypeOK, Associate
  <2> QED
    BY <1>2, <2>1, <2>2 DEF Associate
<1>3. CASE CountAccept
  <2>1. pc' \in [Threads -> Labels] /\ UNCHANGED <<cur, ret, sidGen>>
    BY <1>0, <1>3, GotoType DEF CountAccept
  <2>2. totalAccept' \in Nat
    BY <1>3 DEF TypeOK, CountAccept
  <2> QED
    BY <1>3, <2>1, <2>2 DEF TypeOK, CountAccept
<1>4. CASE Join
  <2>1. pc' \in [Threads -> Labels] /\ UNCHANGED <<cur, ret, sidGen>>
    BY <1>0, <1>4, GotoType DEF Join
  <2> QED
    BY <1>0, <1>4, <2>1 DEF TypeOK, Join
<1>5. CASE PostRecv(Acceptor) \/ UndoAddRef(Acceptor)
  BY <1>0, <1>5, PostRecvType
<1>6. CASE CloseSession(Acceptor)
  BY <1>0, <1>6, CloseSessionType
<1> QED
  BY <1>1, <1>2, <1>3, <1>4, <1>5, <1>6 DEF AcceptStep

(* The steps of the Update thread keep the types.                          *)
LEMMA UpdateType ==
  ASSUME TypeOK, SendPacketCheckGeneration \/ Disconnect \/ UpdateStep
  PROVE  TypeOK'
<1> USE DEF lifeVars, queueVars, ioVars, contentVars
<1>0. Updater \in Threads /\ cur[Updater] \in Slots
      /\ {"idle", "checkFlag", "enqueue", "exchange", "close"} \subseteq Labels
  BY ThreadNames DEF TypeOK, Labels, CloseLabels, FlushLabels
<1>1. CASE SendPacketCheckGeneration
  <2>1. PICK s \in Slots : cur' = [cur EXCEPT ![Updater] = s] /\ sidGen' = generation[s]
    BY <1>1 DEF SendPacketCheckGeneration
  <2>2. cur' \in [Threads -> Slots] /\ sidGen' \in Nat /\ pc' \in [Threads -> Labels]
    BY <1>0, <1>1, <2>1 DEF TypeOK, SendPacketCheckGeneration
  <2> QED
    BY <1>1, <2>2 DEF TypeOK, SendPacketCheckGeneration
<1>2. CASE Disconnect
  <2>1. PICK s \in Slots : cur' = [cur EXCEPT ![Updater] = s] /\ sidGen' = generation[s]
    BY <1>2 DEF Disconnect
  <2>2. /\ cur' \in [Threads -> Slots] /\ sidGen' \in Nat /\ pc' \in [Threads -> Labels]
        /\ ret' \in [Threads -> {"idle", "release", "undo"}]
    BY <1>0, <1>2, <2>1 DEF TypeOK, Disconnect
  <2> QED
    BY <1>2, <2>2 DEF TypeOK, Disconnect
<1>3. CASE SendPacketCheckFlag
  <2>1. pc' \in [Threads -> Labels] /\ UNCHANGED <<cur, ret, sidGen>>
    <3>1. (IF closeFlag[cur[Updater]] # 0 THEN "idle" ELSE "enqueue") \in Labels
      BY <1>0
    <3> QED
      BY <1>0, <1>3, <3>1, GotoType DEF SendPacketCheckFlag
  <2> QED
    BY <1>3, <2>1 DEF TypeOK, SendPacketCheckFlag
<1>4. CASE SendPacketEnqueue
  <2>1. pc' \in [Threads -> Labels] /\ UNCHANGED <<cur, ret, sidGen>>
    BY <1>0, <1>4, GotoType DEF SendPacketEnqueue
  <2>2. sendQ' \in [Slots -> Seq(Nat)]
    BY <1>0, <1>4 DEF TypeOK, SendPacketEnqueue
  <2>3. sendLock' \in [Slots -> {NoThread, Updater}]
    BY <1>0, <1>4 DEF TypeOK, SendPacketEnqueue
  <2> QED
    BY <1>4, <2>1, <2>2, <2>3 DEF TypeOK, SendPacketEnqueue
<1>5. CASE SendPacketQueueFull
  <2>1. /\ pc' \in [Threads -> Labels] /\ UNCHANGED <<cur, sidGen>>
        /\ ret' \in [Threads -> {"idle", "release", "undo"}]
    BY <1>0, <1>5, CallType DEF SendPacketQueueFull
  <2> QED
    BY <1>5, <2>1 DEF TypeOK, SendPacketQueueFull
<1>6. CASE SendPacketUnlock
  <2>1. pc' \in [Threads -> Labels] /\ UNCHANGED <<cur, ret, sidGen>>
    BY <1>0, <1>6, GotoType DEF SendPacketUnlock
  <2> QED
    BY <1>0, <1>6, <2>1 DEF TypeOK, SendPacketUnlock
<1>7. CASE FlushSend(Updater)
  BY <1>0, <1>7, FlushSendType
<1>8. CASE CloseSession(Updater)
  BY <1>0, <1>8, CloseSessionType
<1>9. CASE UndoAddRef(Updater)
  BY <1>0, <1>9, PostRecvType
<1> QED
  BY <1>1, <1>2, <1>3, <1>4, <1>5, <1>6, <1>7, <1>8, <1>9 DEF UpdateStep

(* Every step keeps the types.                                             *)
LEMMA NextType == TypeOK /\ [Next]_vars => TypeOK'
<1> SUFFICES ASSUME TypeOK, [Next]_vars PROVE TypeOK'
  OBVIOUS
<1>1. CASE UNCHANGED vars
  BY <1>1 DEF TypeOK, vars
<1>2. CASE Next
  BY <1>2, AcceptType, WorkerType, UpdateType DEF Next
<1> QED
  BY <1>1, <1>2

(* CLanServer's state keeps its types in every interleaving of the accept  *)
(* thread, the workers and the Update thread, for every number of them and *)
(* of slots: the code never decrements a count of posted operations below  *)
(* zero and never pushes a value that is not a slot.                       *)
THEOREM TypeCorrect == Spec => []TypeOK
BY InitType, NextType, PTL DEF Spec

-----------------------------------------------------------------------------
(* Where a packet of another session can come from, without an assumption  *)
(* about the Update thread: no step of another thread puts anything into a *)
(* queue that was not in it, and the generation SendPacket compared is the *)
(* slot's or an earlier one.                                               *)

SidInv == sidGen <= generation[cur[Updater]]

(* The packets of a slot stay, move from the queue to the send, or go.     *)
QueueKept(s) ==
  /\ generation'[s] = generation[s]
  /\ sendQ'[s] \in {sendQ[s], <<>>}
  /\ sendPkts'[s] \in {sendPkts[s], sendQ[s], <<>>}

(* CloseSession's drain only empties the queue. *)
LEMMA CloseSessionQueue ==
  ASSUME TypeOK, NEW t \in Threads, CloseSession(t) \/ UndoAddRef(t)
  PROVE  (\A s \in Slots : QueueKept(s)) /\ cur' = cur /\ sidGen' = sidGen
<1>1. CASE CloseSessionDrain(t)
  BY <1>1 DEF CloseSessionDrain, Goto, lifeVars, QueueKept, TypeOK
<1>2. CASE \/ CloseSessionTestFlag(t) \/ CloseSessionCloseSocket(t)
           \/ CloseSessionLeave(t) \/ CloseSessionCount(t)
           \/ CloseSessionDropBase(t) \/ UndoAddRef(t)
  BY <1>2 DEF CloseSessionTestFlag, CloseSessionCloseSocket, CloseSessionLeave,
       CloseSessionCount, CloseSessionDropBase, UndoAddRef, Goto,
       ReturnFromCloseSession, lifeVars, queueVars, QueueKept
<1> QED
  BY <1>1, <1>2 DEF CloseSession

(* FlushSend moves the queue to the send, or releases what it moved. *)
LEMMA FlushSendQueue ==
  ASSUME TypeOK, NEW t \in Threads, FlushSend(t)
  PROVE  (\A s \in Slots : QueueKept(s)) /\ cur' = cur /\ sidGen' = sidGen
<1>1. CASE FlushSendGrab(t)
  BY <1>1 DEF FlushSendGrab, Goto, lifeVars, QueueKept, TypeOK
<1>2. CASE FlushSendUndo(t)
  BY <1>2 DEF FlushSendUndo, CallCloseSession, lifeVars, QueueKept, TypeOK
<1>3. CASE \/ FlushSendExchange(t) \/ FlushSendAddRef(t)
           \/ FlushSendPosted(t) \/ FlushSendFailed(t)
  BY <1>3 DEF FlushSendExchange, FlushSendAddRef, FlushSendPosted,
       FlushSendFailed, Goto, lifeVars, queueVars, QueueKept
<1> QED
  BY <1>1, <1>2, <1>3 DEF FlushSend

(* PostRecv leaves the queues alone. *)
LEMMA PostRecvQueue ==
  ASSUME TypeOK, NEW t \in Threads, PostRecv(t)
  PROVE  (\A s \in Slots : QueueKept(s)) /\ cur' = cur /\ sidGen' = sidGen
BY DEF PostRecv, PostRecvAddRef, PostRecvPosted, PostRecvFailed, Goto,
  CallCloseSession, lifeVars, queueVars, QueueKept

(* So do the workers, apart from the release of what was sent. *)
LEMMA WorkerQueue ==
  ASSUME TypeOK, NEW w \in Workers,
         DequeueRecv(w) \/ DequeueSend(w) \/ WorkerStep(w)
  PROVE  /\ \A s \in Slots : QueueKept(s)
         /\ cur'[Updater] = cur[Updater] /\ sidGen' = sidGen
<1>0. w \in Threads /\ w # Updater
  BY ThreadNames
<1>1. CASE DequeueRecv(w) \/ DequeueSend(w)
  <2>1. UNCHANGED <<generation, sendQ, sendPkts, sidGen>>
    BY <1>1 DEF DequeueRecv, DequeueSend, lifeVars, queueVars
  <2>2. \E c \in Slots : cur' = [cur EXCEPT ![w] = c]
    BY <1>1 DEF DequeueRecv, DequeueSend
  <2>3. cur'[Updater] = cur[Updater]
    BY <1>0, <2>2, ThreadNames DEF TypeOK
  <2> QED
    BY <2>1, <2>3 DEF QueueKept
<1>2. CASE OnSendCompleteRelease(w)
  BY <1>2 DEF OnSendCompleteRelease, Goto, lifeVars, QueueKept, TypeOK
<1>3. CASE \/ OnRecvComplete(w) \/ OnSendCompleteClear(w)
           \/ OnSendCompleteRecheck(w) \/ WorkerRelease(w)
  BY <1>3 DEF OnRecvComplete, OnSendCompleteClear, OnSendCompleteRecheck,
       WorkerRelease, Goto, CallCloseSession, lifeVars, queueVars, QueueKept
<1>4. CASE PostRecv(w) \/ FlushSend(w) \/ CloseSession(w) \/ UndoAddRef(w)
  BY <1>0, <1>4, PostRecvQueue, FlushSendQueue, CloseSessionQueue
<1> QED
  BY <1>1, <1>2, <1>3, <1>4 DEF WorkerStep

(* The accept thread inside its handler queues nothing. *)
LEMMA AcceptQueue ==
  ASSUME TypeOK, AcceptStep
  PROVE  (\A s \in Slots : QueueKept(s)) /\ cur' = cur /\ sidGen' = sidGen
<1>1. CASE Associate \/ CountAccept \/ Join
  BY <1>1 DEF Associate, CountAccept, Join, Goto, CallCloseSession, lifeVars,
       queueVars, QueueKept
<1>2. CASE PostRecv(Acceptor) \/ CloseSession(Acceptor) \/ UndoAddRef(Acceptor)
  BY <1>2, ThreadNames, PostRecvQueue, CloseSessionQueue
<1> QED
  BY <1>1, <1>2 DEF AcceptStep

(* Inside SendPacket and Disconnect only the enqueue adds a packet. *)
LEMMA UpdateQueue ==
  ASSUME TypeOK, UpdateStep, ~SendPacketEnqueue
  PROVE  (\A s \in Slots : QueueKept(s)) /\ cur' = cur /\ sidGen' = sidGen
<1>1. CASE SendPacketCheckFlag \/ SendPacketQueueFull \/ SendPacketUnlock
  BY <1>1 DEF SendPacketCheckFlag, SendPacketQueueFull, SendPacketUnlock, Goto,
       CallCloseSession, lifeVars, queueVars, QueueKept
<1>2. CASE FlushSend(Updater) \/ CloseSession(Updater) \/ UndoAddRef(Updater)
  BY <1>2, ThreadNames, FlushSendQueue, CloseSessionQueue
<1> QED
  BY <1>1, <1>2 DEF UpdateStep

(* What a step does to the queues and to the generation SendPacket holds.  *)
LEMMA QueueStep ==
  ASSUME TypeOK, SidInv, [Next]_vars
  PROVE  /\ SidInv'
         /\ \A s \in Slots :
              \/ QueueKept(s)
              \/ sendQ'[s] = <<>> /\ sendPkts'[s] = <<>>
              \/ /\ SendPacketEnqueue /\ cur[Updater] = s
                 /\ generation'[s] = generation[s]
                 /\ sendQ'[s] = Append(sendQ[s], sidGen)
                 /\ sendPkts'[s] = sendPkts[s]
<1>0. /\ Updater \in Threads /\ Acceptor \in Threads /\ Acceptor # Updater
      /\ cur[Updater] \in Slots /\ generation[cur[Updater]] \in Nat
      /\ sidGen \in Nat
  BY ThreadNames DEF TypeOK
<1>1. CASE UNCHANGED vars
  BY <1>0, <1>1 DEF vars, lifeVars, queueVars, QueueKept, SidInv
<1>2. CASE AllocSession
  <2>1. PICK c \in Slots : InitSession(c) /\ cur' = [cur EXCEPT ![Acceptor] = c]
    <3>1. indexPool[Len(indexPool)] \in Slots
      BY <1>2 DEF AllocSession, TypeOK
    <3> QED
      BY <1>2, <3>1 DEF AllocSession
  <2>2. sidGen' = sidGen /\ cur'[Updater] = cur[Updater]
    BY <1>0, <1>2, <2>1 DEF AllocSession, TypeOK
  <2>3. generation' = [generation EXCEPT ![c] = generation[c] + 1]
    BY <2>1 DEF InitSession
  <2>4. generation'[cur[Updater]] \in {generation[cur[Updater]], generation[cur[Updater]] + 1}
    BY <1>0, <2>3 DEF TypeOK
  <2>5. SidInv'
    BY <1>0, <2>2, <2>3, <2>4 DEF SidInv
  <2>6. \A s \in Slots : QueueKept(s) \/ (sendQ'[s] = <<>> /\ sendPkts'[s] = <<>>)
    BY <2>1 DEF InitSession, QueueKept, TypeOK
  <2> QED
    BY <2>5, <2>6
<1>3. CASE SendPacketCheckGeneration \/ Disconnect
  <2>1. PICK c \in Slots : /\ cur' = [cur EXCEPT ![Updater] = c]
                           /\ sidGen' = generation[c]
    BY <1>3 DEF SendPacketCheckGeneration, Disconnect
  <2>2. UNCHANGED <<generation, sendQ, sendPkts>>
    BY <1>3 DEF SendPacketCheckGeneration, Disconnect, lifeVars, queueVars
  <2>3. cur'[Updater] = c /\ generation[c] \in Nat
    BY <1>0, <2>1 DEF TypeOK
  <2>4. SidInv'
    BY <2>1, <2>2, <2>3 DEF SidInv
  <2> QED
    BY <2>2, <2>4 DEF QueueKept
<1>4. CASE SendPacketEnqueue
  <2>1. UNCHANGED <<generation, sendPkts, cur, sidGen>>
    BY <1>4 DEF SendPacketEnqueue, Goto, lifeVars
  <2>2. sendQ' = [sendQ EXCEPT ![cur[Updater]] = Append(@, sidGen)]
    BY <1>4 DEF SendPacketEnqueue
  <2>3. \A s \in Slots :
          sendQ'[s] = IF s = cur[Updater] THEN Append(sendQ[s], sidGen) ELSE sendQ[s]
    BY <2>2 DEF TypeOK
  <2>4. SidInv'
    BY <2>1 DEF SidInv
  <2> QED
    BY <1>4, <2>1, <2>3, <2>4 DEF QueueKept
<1>5. CASE AcceptStep \/ (UpdateStep /\ ~SendPacketEnqueue)
  <2>1. (\A s \in Slots : QueueKept(s)) /\ cur' = cur /\ sidGen' = sidGen
    BY <1>5, AcceptQueue, UpdateQueue
  <2> QED
    BY <1>0, <2>1 DEF QueueKept, SidInv
<1>6. CASE \E w \in Workers : DequeueRecv(w) \/ DequeueSend(w) \/ WorkerStep(w)
  <2>1. /\ \A s \in Slots : QueueKept(s)
        /\ cur'[Updater] = cur[Updater] /\ sidGen' = sidGen
    BY <1>6, WorkerQueue
  <2> QED
    BY <1>0, <2>1 DEF QueueKept, SidInv
<1> QED
  BY <1>1, <1>2, <1>3, <1>4, <1>5, <1>6 DEF Next

(* A packet of another session comes into a slot's queue by a SendPacket   *)
(* that compared the generation of an earlier session, and never survives  *)
(* the next allocation of the slot: SendPacket's lines 106-120 are the     *)
(* only window, however the threads are delayed.                           *)
THEOREM StrayPackets == Spec => OnlyLateSendsStray
<1>1. Init => SidInv
  BY ThreadNames, MaxSessionAssumption DEF Init, SidInv, Slots
<1>2. ASSUME TypeOK, SidInv, [Next]_vars, NEW s \in Slots, Stray(s)'
      PROVE  generation'[s] = generation[s] /\ (Stray(s) \/ SendsLate(s))
  <2>0. /\ sendQ[s] \in Seq(Nat) /\ sendPkts[s] \in Seq(Nat)
        /\ generation[s] \in Nat /\ sidGen \in Nat
    BY <1>2 DEF TypeOK
  <2>1. CASE QueueKept(s)
    <3>1. sendQ'[s] \in {sendQ[s], <<>>} /\ sendPkts'[s] \in {sendPkts[s], sendQ[s], <<>>}
      BY <2>1 DEF QueueKept
    <3>2. generation'[s] = generation[s]
      BY <2>1 DEF QueueKept
    <3>3. \A i \in 1 .. Len(<<>>) : FALSE
      OBVIOUS
    <3> QED
      BY <1>2, <3>1, <3>2, <3>3 DEF Stray
  <2>2. CASE sendQ'[s] = <<>> /\ sendPkts'[s] = <<>>
    BY <1>2, <2>2 DEF Stray
  <2>3. CASE /\ SendPacketEnqueue /\ cur[Updater] = s
             /\ generation'[s] = generation[s]
             /\ sendQ'[s] = Append(sendQ[s], sidGen)
             /\ sendPkts'[s] = sendPkts[s]
    <3>1. CASE sidGen = generation[s]
      <4>1. \A i \in 1 .. Len(sendQ'[s]) :
              sendQ'[s][i] # generation[s] =>
                i \in 1 .. Len(sendQ[s]) /\ sendQ'[s][i] = sendQ[s][i]
        BY <2>0, <2>3, <3>1
      <4> QED
        BY <1>2, <2>3, <4>1 DEF Stray
    <3>2. CASE sidGen # generation[s]
      <4>1. sidGen < generation[s]
        BY <1>2, <2>0, <2>3, <3>2 DEF SidInv
      <4> QED
        BY <2>3, <4>1 DEF SendsLate
    <3> QED
      BY <3>1, <3>2
  <2> QED
    BY <1>2, <2>1, <2>2, <2>3, QueueStep
<1>3. TypeOK /\ SidInv /\ [Next]_vars =>
        [\A s \in Slots : Stray(s)' => /\ generation'[s] = generation[s]
                                       /\ Stray(s) \/ SendsLate(s)]_vars
  BY <1>2
<1>4. TypeOK /\ SidInv /\ [Next]_vars => SidInv'
  BY QueueStep
<1> QED
  BY <1>1, <1>3, <1>4, TypeCorrect, PTL DEF Spec, OnlyLateSendsStray

(* Stop calls CloseSession for a slot, once the accept thread has ended.   *)
Visit(s) ==
  /\ pc[Main] = "idle" /\ pc[Acceptor] = "idle"
  /\ cur' = [cur EXCEPT ![Main] = s]
  /\ pc' = [pc EXCEPT ![Main] = "close"]
  /\ UNCHANGED <<lifeVars, ioRefCount, queueVars, sendLock, ioVars, contentVars,
                 ret, sidGen>>

(* The engine's own threads, all but the allocation of a session. *)
ThreadStep ==
  \/ AcceptStep
  \/ \E w \in Workers : DequeueRecv(w) \/ DequeueSend(w) \/ WorkerStep(w)
  \/ SendPacketCheckGeneration
  \/ Disconnect
  \/ UpdateStep

(* The steps of the engine in a process that may be stopping: sessions are *)
(* accepted only as long as Stop closes none.                              *)
ServerStep ==
  \/ AllocSession /\ pc[Main] = "idle"
  \/ ThreadStep
  \/ \E s \in Slots : Visit(s)
  \/ CloseSession(Main)

ServerNext == ServerStep /\ Timely

(* They keep the types, too. *)
LEMMA ServerType ==
  ASSUME TypeOK, ServerStep
  PROVE  TypeOK'
<1>1. CASE AllocSession \/ ThreadStep
  BY <1>1, AcceptType, WorkerType, UpdateType DEF ThreadStep
<1>2. CASE \E s \in Slots : Visit(s)
  <2>1. PICK s \in Slots : Visit(s)
    BY <1>2
  <2>2. pc' \in [Threads -> Labels] /\ cur' \in [Threads -> Slots]
    BY <2>1, ThreadNames DEF Visit, TypeOK, Labels, CloseLabels
  <2> QED
    BY <2>1, <2>2 DEF Visit, TypeOK, lifeVars, queueVars, ioVars, contentVars
<1>3. CASE CloseSession(Main)
  BY <1>3, ThreadNames, CloseSessionType
<1> QED
  BY <1>1, <1>2, <1>3 DEF ServerStep
-----------------------------------------------------------------------------
(* What a thread holds: counted per thread, so that a step of thread t     *)
(* changes the count of a slot by what t took or gave back.                *)

Completing(t) == t \in Workers /\ pc[t] # "idle"

Closing(t) == pc[t] \in ClosingLabels

Held(s) == Cardinality(Completers(s)) + Cardinality(Posters(s))

HeldBy(t, s) ==
  (IF cur[t] = s /\ Completing(t) THEN 1 ELSE 0)
    + (IF cur[t] = s /\ Posting(t) THEN 1 ELSE 0)

(* Only thread t moves. *)
Move(t) ==
  \A u \in Threads \ {t} : pc'[u] = pc[u] /\ cur'[u] = cur[u] /\ ret'[u] = ret[u]

(* Changing the membership of one element changes the cardinality by one. *)
LEMMA CardUpdate ==
  ASSUME NEW T, IsFiniteSet(T), NEW A \in SUBSET T, NEW B \in SUBSET T,
         NEW x \in T, A \ {x} = B \ {x}
  PROVE  /\ Cardinality(A) \in Nat /\ Cardinality(B) \in Nat
         /\ (x \in A <=> x \in B) => Cardinality(B) = Cardinality(A)
         /\ x \in A /\ x \notin B => Cardinality(B) = Cardinality(A) - 1
         /\ x \notin A /\ x \in B => Cardinality(B) = Cardinality(A) + 1
<1>1. IsFiniteSet(A) /\ IsFiniteSet(B)
  BY FS_Subset
<1>2. Cardinality(A) \in Nat /\ Cardinality(B) \in Nat
  BY <1>1, FS_CardinalityType
<1>3. /\ x \in A => Cardinality(A \ {x}) = Cardinality(A) - 1
      /\ x \notin A => Cardinality(A \ {x}) = Cardinality(A)
  BY <1>1, FS_RemoveElement
<1>4. /\ x \in B => Cardinality(B \ {x}) = Cardinality(B) - 1
      /\ x \notin B => Cardinality(B \ {x}) = Cardinality(B)
  BY <1>1, FS_RemoveElement
<1>5. Cardinality(A \ {x}) = Cardinality(B \ {x})
  OBVIOUS
<1>6. (x \in A <=> x \in B) => A = B
  OBVIOUS
<1> QED
  BY <1>2, <1>3, <1>4, <1>5, <1>6

(* What a slot's holders hold in all is what the others hold and what t    *)
(* holds.                                                                  *)
LEMMA HeldMove ==
  ASSUME NEW t \in Threads, Move(t), NEW s \in Slots
  PROVE  /\ Held(s) \in Nat /\ Held(s)' \in Nat
         /\ HeldBy(t, s) \in Nat /\ HeldBy(t, s)' \in Nat
         /\ Held(s)' = Held(s) + HeldBy(t, s)' - HeldBy(t, s)
         /\ Closers(s)' \ {t} = Closers(s) \ {t}
<1>1. /\ Completers(s) \in SUBSET Threads /\ Completers(s)' \in SUBSET Threads
      /\ Posters(s) \in SUBSET Threads /\ Posters(s)' \in SUBSET Threads
  BY DEF Completers, Posters, Threads
<1>2. Completers(s) \ {t} = Completers(s)' \ {t}
  BY DEF Completers, Move, Threads
<1>3. Posters(s) \ {t} = Posters(s)' \ {t}
  BY DEF Posters, Posting, Move
<1>4. Closers(s)' \ {t} = Closers(s) \ {t}
  BY DEF Closers, Move
<1>5. /\ t \in Completers(s) <=> cur[t] = s /\ Completing(t)
      /\ t \in Posters(s) <=> cur[t] = s /\ Posting(t)
  BY DEF Completers, Posters, Completing
<1>6. /\ t \in Completers(s)' <=> (cur[t] = s /\ Completing(t))'
      /\ t \in Posters(s)' <=> (cur[t] = s /\ Posting(t))'
  BY DEF Completers, Posters, Completing
<1>7. /\ Cardinality(Completers(s)) \in Nat /\ Cardinality(Completers(s)') \in Nat
      /\ Cardinality(Completers(s)')
           - (IF (cur[t] = s /\ Completing(t))' THEN 1 ELSE 0)
         = Cardinality(Completers(s))
           - (IF cur[t] = s /\ Completing(t) THEN 1 ELSE 0)
  BY <1>1, <1>2, <1>5, <1>6, ThreadNames, CardUpdate
<1>8. /\ Cardinality(Posters(s)) \in Nat /\ Cardinality(Posters(s)') \in Nat
      /\ Cardinality(Posters(s)')
           - (IF (cur[t] = s /\ Posting(t))' THEN 1 ELSE 0)
         = Cardinality(Posters(s))
           - (IF cur[t] = s /\ Posting(t) THEN 1 ELSE 0)
  BY <1>1, <1>3, <1>5, <1>6, ThreadNames, CardUpdate
<1>9. Held(s)' = Cardinality(Completers(s)') + Cardinality(Posters(s)')
  BY DEF Held
<1>10. HeldBy(t, s)' = (IF (cur[t] = s /\ Completing(t))' THEN 1 ELSE 0)
                       + (IF (cur[t] = s /\ Posting(t))' THEN 1 ELSE 0)
  BY DEF HeldBy
<1> QED
  BY <1>4, <1>7, <1>8, <1>9, <1>10 DEF Held, HeldBy

(* A reference held is counted. *)
LEMMA HeldPositive ==
  ASSUME NEW t \in Threads, NEW s \in Slots
  PROVE  /\ Held(s) \in Nat
         /\ cur[t] = s /\ (Completing(t) \/ Posting(t)) => Held(s) > 0
<1>1. IsFiniteSet(Completers(s)) /\ IsFiniteSet(Posters(s))
  BY ThreadNames, FS_Subset DEF Completers, Posters
<1>2. Cardinality(Completers(s)) \in Nat /\ Cardinality(Posters(s)) \in Nat
  BY <1>1, FS_CardinalityType
<1>3. /\ Cardinality(Completers(s)) = 0 <=> Completers(s) = {}
      /\ Cardinality(Posters(s)) = 0 <=> Posters(s) = {}
  BY <1>1, FS_EmptySet
<1>4. /\ cur[t] = s /\ Completing(t) => t \in Completers(s)
      /\ cur[t] = s /\ Posting(t) => t \in Posters(s)
  BY DEF Completers, Posters, Completing
<1> QED
  BY <1>2, <1>3, <1>4 DEF Held
-----------------------------------------------------------------------------
(* The holders' references of a slot, added up. *)
LEMMA HeldType ==
  ASSUME NEW s \in Slots
  PROVE  /\ Cardinality(Completers(s)) \in Nat
         /\ Cardinality(Posters(s)) \in Nat
         /\ Held(s) = Cardinality(Completers(s)) + Cardinality(Posters(s))
         /\ Held(s) \in Nat
<1>1. IsFiniteSet(Completers(s)) /\ IsFiniteSet(Posters(s))
  BY ThreadNames, FS_Subset DEF Completers, Posters
<1> QED
  BY <1>1, FS_CardinalityType DEF Held

(* RefCountExact and PoolExact for the slots that have held a session.     *)
(* Stop runs CloseSession on the others as well, which takes their count,  *)
(* and nothing else, below zero.                                           *)
RefCounted ==
  \A s \in Slots : generation[s] # 0 =>
    ioRefCount[s] = BaseRef(s) + recvIO[s] + sendIO[s]
                    + Cardinality(Completers(s)) + Cardinality(Posters(s))

Pooled ==
  /\ PoolDistinct
  /\ \A s \in Slots : generation[s] # 0 => (InPool(s) <=> ioRefCount[s] = 0)

(* RefCounted in terms of Held. *)
LEMMA RefCountHeld ==
  ASSUME TypeOK, RefCounted, NEW s \in Slots, generation[s] # 0
  PROVE  ioRefCount[s] = BaseRef(s) + recvIO[s] + sendIO[s] + Held(s)
<1>1. ioRefCount[s] \in Int /\ recvIO[s] \in Nat /\ sendIO[s] \in Nat
  BY DEF TypeOK
<1>2. BaseRef(s) \in {0, 1}
  BY DEF BaseRef
<1>3. ioRefCount[s] = BaseRef(s) + recvIO[s] + sendIO[s]
                      + Cardinality(Completers(s)) + Cardinality(Posters(s))
  BY DEF RefCounted
<1> QED
  BY <1>1, <1>2, <1>3, HeldType

(* The same for the next state. *)
LEMMA RefCountHeldNext ==
  ASSUME TypeOK', NEW t \in Threads, Move(t),
         \A s \in Slots : generation'[s] # 0 =>
           ioRefCount'[s] = BaseRef(s)' + recvIO'[s] + sendIO'[s] + Held(s)'
  PROVE  RefCounted'
<1>1. SUFFICES ASSUME NEW s \in Slots, generation'[s] # 0
               PROVE  ioRefCount'[s] = BaseRef(s)' + recvIO'[s] + sendIO'[s]
                        + Cardinality(Completers(s)') + Cardinality(Posters(s)')
  BY DEF RefCounted
<1>2. ioRefCount'[s] \in Int /\ recvIO'[s] \in Nat /\ sendIO'[s] \in Nat
  BY DEF TypeOK
<1>3. BaseRef(s)' \in {0, 1}
  BY DEF BaseRef
<1>4. /\ Cardinality(Completers(s)') \in Nat /\ Cardinality(Posters(s)') \in Nat
      /\ Held(s)' = Cardinality(Completers(s)') + Cardinality(Posters(s)')
  <2>1. IsFiniteSet(Completers(s)') /\ IsFiniteSet(Posters(s)')
    BY ThreadNames, FS_Subset DEF Completers, Posters
  <2> QED
    BY <2>1, FS_CardinalityType DEF Held
<1> QED
  BY <1>1, <1>2, <1>3, <1>4

(* A step of t that takes and gives back as much as it adds to and takes   *)
(* from ioRefCount and the posted operations keeps the count exact.        *)
LEMMA BalancedStep ==
  ASSUME TypeOK, TypeOK', OneCloser, RefCounted,
         NEW t \in Threads, Move(t), UNCHANGED <<closeFlag, generation>>,
         \A s \in Slots : t \in Closers(s)' <=> t \in Closers(s),
         \A s \in Slots :
           ioRefCount'[s] - recvIO'[s] - sendIO'[s] - HeldBy(t, s)'
             = ioRefCount[s] - recvIO[s] - sendIO[s] - HeldBy(t, s)
  PROVE  OneCloser' /\ RefCounted'
<1>1. \A s \in Slots : Closers(s)' = Closers(s)
  <2> TAKE s \in Slots
  <2>1. Closers(s)' \ {t} = Closers(s) \ {t}
    BY HeldMove
  <2>2. t \in Closers(s)' <=> t \in Closers(s)
    OBVIOUS
  <2>3. \A u : u \in Closers(s)' <=> u \in Closers(s)
    BY ONLY <2>1, <2>2
  <2> QED
    BY ONLY <2>3
<1>2. OneCloser'
  BY <1>1 DEF OneCloser
<1>3. \A s \in Slots : BaseRef(s)' = BaseRef(s) /\ BaseRef(s) \in {0, 1}
  BY <1>1 DEF BaseRef
<1>4. ASSUME NEW s \in Slots, generation'[s] # 0
      PROVE  ioRefCount'[s] = BaseRef(s)' + recvIO'[s] + sendIO'[s] + Held(s)'
  <2>1. /\ ioRefCount[s] \in Int /\ recvIO[s] \in Int /\ sendIO[s] \in Int
        /\ ioRefCount'[s] \in Int /\ recvIO'[s] \in Int /\ sendIO'[s] \in Int
    BY DEF TypeOK
  <2>2. ioRefCount[s] = BaseRef(s) + recvIO[s] + sendIO[s] + Held(s)
    BY <1>4, RefCountHeld
  <2>3. /\ Held(s) \in Nat /\ Held(s)' \in Nat
        /\ HeldBy(t, s) \in Nat /\ HeldBy(t, s)' \in Nat
        /\ Held(s)' = Held(s) + HeldBy(t, s)' - HeldBy(t, s)
    BY HeldMove
  <2>4. BaseRef(s)' = BaseRef(s) /\ BaseRef(s) \in Int
    BY <1>3
  <2>5. ioRefCount'[s] - recvIO'[s] - sendIO'[s] - HeldBy(t, s)'
          = ioRefCount[s] - recvIO[s] - sendIO[s] - HeldBy(t, s)
    OBVIOUS
  <2> QED
    BY <2>1, <2>2, <2>3, <2>4, <2>5
<1>5. RefCounted'
  BY <1>4, RefCountHeldNext
<1> QED
  BY <1>2, <1>5

(* The count of a used slot is never negative, and positive when the       *)
(* session is not closed, is being closed, or a thread holds a reference.  *)
LEMMA CountPositive ==
  ASSUME TypeOK, RefCounted, NEW s \in Slots, generation[s] # 0
  PROVE  /\ ioRefCount[s] \in Nat
         /\ generation[s] # 0 /\ closeFlag[s] = 0 => ioRefCount[s] > 0
         /\ recvIO[s] > 0 \/ sendIO[s] > 0 => ioRefCount[s] > 0
         /\ \A t \in Threads :
              cur[t] = s /\ (Completing(t) \/ Posting(t) \/ Closing(t))
                => ioRefCount[s] > 0
<1>1. /\ ioRefCount[s] \in Int /\ recvIO[s] \in Nat /\ sendIO[s] \in Nat
      /\ BaseRef(s) \in {0, 1}
  BY DEF TypeOK, BaseRef
<1>2. ioRefCount[s] = BaseRef(s) + recvIO[s] + sendIO[s] + Held(s)
  BY RefCountHeld
<1>3. Held(s) \in Nat
  BY HeldPositive, ThreadNames
<1>4. ioRefCount[s] \in Nat
  BY <1>1, <1>2, <1>3
<1>5. BaseRef(s) = 1 => ioRefCount[s] > 0
  BY <1>1, <1>2, <1>3
<1>6. generation[s] # 0 /\ closeFlag[s] = 0 => BaseRef(s) = 1
  BY DEF BaseRef
<1>7. \A t \in Threads : cur[t] = s /\ Closing(t) => BaseRef(s) = 1
  BY DEF BaseRef, Closers, Closing
<1>8. \A t \in Threads :
        cur[t] = s /\ (Completing(t) \/ Posting(t)) => ioRefCount[s] > 0
  BY <1>1, <1>2, HeldPositive
<1>9. recvIO[s] > 0 \/ sendIO[s] > 0 => ioRefCount[s] > 0
  BY <1>1, <1>2, <1>3
<1> QED
  BY <1>4, <1>5, <1>6, <1>7, <1>8, <1>9

(* The pool stays exact when no count reaches or leaves zero. *)
LEMMA PoolKept ==
  ASSUME Pooled, UNCHANGED <<generation, indexPool>>,
         \A s \in Slots :
           generation[s] # 0 => (ioRefCount'[s] = 0 <=> ioRefCount[s] = 0)
  PROVE  Pooled'
BY DEF Pooled, PoolDistinct, InPool

(* IORelease pushes the slot of the last reference, which was not there. *)
LEMMA PoolReleased ==
  ASSUME TypeOK, Pooled, NEW c \in Slots, generation[c] # 0, ioRefCount[c] > 0,
         IORelease(c), UNCHANGED generation
  PROVE  Pooled'
<1>1. indexPool \in Seq(Slots) /\ ioRefCount \in [Slots -> Int]
  BY DEF TypeOK
<1>2. \A s \in Slots \ {c} : ioRefCount'[s] = ioRefCount[s]
  BY <1>1 DEF IORelease
<1>3. ioRefCount'[c] = ioRefCount[c] - 1 /\ ioRefCount[c] \in Int
  BY <1>1 DEF IORelease
<1>4. ~InPool(c)
  BY <1>3 DEF Pooled
<1>5. CASE ioRefCount[c] = 1
  <2>1. indexPool' = Append(indexPool, c)
    BY <1>3, <1>5 DEF IORelease
  <2>2. /\ Len(indexPool') = Len(indexPool) + 1
        /\ \A i \in 1 .. Len(indexPool) : indexPool'[i] = indexPool[i]
        /\ indexPool'[Len(indexPool) + 1] = c
        /\ Len(indexPool) \in Nat
    BY <1>1, <2>1, AppendProperties
  <2>3. \A i \in 1 .. Len(indexPool') :
          i \in 1 .. Len(indexPool) \/ i = Len(indexPool) + 1
    BY <2>2
  <2>4. PoolDistinct'
    BY <1>4, <2>2, <2>3 DEF Pooled, PoolDistinct, InPool
  <2>5. \A s \in Slots : InPool(s)' <=> InPool(s) \/ s = c
    BY <2>2, <2>3 DEF InPool
  <2> QED
    BY <1>2, <1>3, <1>5, <2>4, <2>5 DEF Pooled
<1>6. CASE ioRefCount[c] # 1
  <2>1. UNCHANGED indexPool
    BY <1>3, <1>6 DEF IORelease
  <2> QED
    BY <1>2, <1>3, <1>6, <2>1, PoolKept
<1> QED
  BY <1>5, <1>6
-----------------------------------------------------------------------------
(* Which thread moves, and where, in the three ways a thread moves. *)

(* Goto moves one thread.                                                  *)
LEMMA GotoMove ==
  ASSUME TypeOK, NEW t \in Threads, NEW l, Goto(t, l)
  PROVE  Move(t) /\ pc'[t] = l /\ cur' = cur /\ ret' = ret /\ sidGen' = sidGen
BY DEF TypeOK, Goto, Move

(* The call of CloseSession moves one thread.                              *)
LEMMA CallMove ==
  ASSUME TypeOK, NEW t \in Threads, NEW b, CallCloseSession(t, b)
  PROVE  /\ Move(t) /\ pc'[t] = "close" /\ ret'[t] = b
         /\ cur' = cur /\ sidGen' = sidGen
BY DEF TypeOK, CallCloseSession, Move

(* The return from CloseSession moves one thread.                          *)
LEMMA ReturnMove ==
  ASSUME TypeOK, NEW t \in Threads, ReturnFromCloseSession(t)
  PROVE  /\ Move(t) /\ pc'[t] = ret[t] /\ ret'[t] = "idle"
         /\ cur' = cur /\ sidGen' = sidGen
BY DEF TypeOK, ReturnFromCloseSession, Move

RefInv == OneCloser /\ RefCounted /\ Pooled

(* A step that touches neither the counts nor what its thread holds. *)
LEMMA QuietStep ==
  ASSUME TypeOK, TypeOK', RefInv, NEW t \in Threads, Move(t),
         UNCHANGED <<closeFlag, generation, ioRefCount, recvIO, sendIO, indexPool>>,
         \/ /\ cur'[t] = cur[t]
            /\ Completing(t)' <=> Completing(t)
            /\ Posting(t)' <=> Posting(t)
            /\ Closing(t)' <=> Closing(t)
         \/ /\ ~Completing(t) /\ ~Posting(t) /\ ~Closing(t)
            /\ ~Completing(t)' /\ ~Posting(t)' /\ ~Closing(t)'
  PROVE  RefInv'
<1>1. \A s \in Slots : HeldBy(t, s)' = HeldBy(t, s)
  BY DEF HeldBy
<1>2. \A s \in Slots : t \in Closers(s)' <=> t \in Closers(s)
  BY DEF Closers, Closing
<1>3. OneCloser' /\ RefCounted'
  BY <1>1, <1>2, BalancedStep DEF RefInv
<1>4. Pooled'
  BY PoolKept DEF RefInv
<1> QED
  BY <1>3, <1>4 DEF RefInv

(* IOAddRef: t takes a reference to a slot that is referenced already. *)
LEMMA AddRefStep ==
  ASSUME TypeOK, TypeOK', RefInv, NEW t \in Threads, Move(t),
         UNCHANGED <<closeFlag, generation, recvIO, sendIO, indexPool, cur>>,
         ioRefCount[cur[t]] > 0, IOAddRef(cur[t]),
         Completing(t)' <=> Completing(t), ~Posting(t), Posting(t)',
         ~Closing(t), ~Closing(t)'
  PROVE  RefInv'
<1>1. cur[t] \in Slots /\ ioRefCount \in [Slots -> Int]
  BY DEF TypeOK
<1>2. \A s \in Slots : ioRefCount'[s] = ioRefCount[s] + (IF s = cur[t] THEN 1 ELSE 0)
  BY <1>1 DEF IOAddRef
<1>3. \A s \in Slots : /\ HeldBy(t, s)' = HeldBy(t, s) + (IF s = cur[t] THEN 1 ELSE 0)
                       /\ HeldBy(t, s) \in Nat
  BY DEF HeldBy
<1>4. \A s \in Slots : t \in Closers(s)' <=> t \in Closers(s)
  BY DEF Closers, Closing
<1>5. \A s \in Slots : recvIO[s] \in Nat /\ sendIO[s] \in Nat /\ ioRefCount[s] \in Int
  BY DEF TypeOK
<1>6. \A s \in Slots : ioRefCount'[s] - recvIO'[s] - sendIO'[s] - HeldBy(t, s)'
                       = ioRefCount[s] - recvIO[s] - sendIO[s] - HeldBy(t, s)
  BY <1>2, <1>3, <1>5
<1>7. OneCloser' /\ RefCounted'
  BY <1>4, <1>6, BalancedStep DEF RefInv
<1>8. \A s \in Slots : ioRefCount'[s] = 0 <=> ioRefCount[s] = 0
  BY <1>1, <1>2, <1>5
<1>9. Pooled'
  BY <1>8, PoolKept DEF RefInv
<1> QED
  BY <1>7, <1>9 DEF RefInv

(* A successful post: the reference passes from t to the operation. *)
LEMMA PostStep ==
  ASSUME TypeOK, TypeOK', RefInv, NEW t \in Threads, Move(t),
         UNCHANGED <<closeFlag, generation, ioRefCount, indexPool, cur>>,
         \A s \in Slots : recvIO'[s] + sendIO'[s]
                          = recvIO[s] + sendIO[s] + (IF s = cur[t] THEN 1 ELSE 0),
         Completing(t)' <=> Completing(t), Posting(t), ~Posting(t)',
         ~Closing(t), ~Closing(t)'
  PROVE  RefInv'
<1>1. \A s \in Slots : HeldBy(t, s)' = HeldBy(t, s) - (IF s = cur[t] THEN 1 ELSE 0)
                       /\ HeldBy(t, s) \in Int
  BY DEF HeldBy
<1>2. \A s \in Slots : t \in Closers(s)' <=> t \in Closers(s)
  BY DEF Closers, Closing
<1>3. \A s \in Slots : /\ recvIO[s] \in Nat /\ sendIO[s] \in Nat /\ ioRefCount[s] \in Int
                       /\ recvIO'[s] \in Nat /\ sendIO'[s] \in Nat
  BY DEF TypeOK
<1>4. \A s \in Slots : ioRefCount'[s] - recvIO'[s] - sendIO'[s] - HeldBy(t, s)'
                       = ioRefCount[s] - recvIO[s] - sendIO[s] - HeldBy(t, s)
  BY <1>1, <1>3
<1>5. OneCloser' /\ RefCounted'
  BY <1>2, <1>4, BalancedStep DEF RefInv
<1>6. Pooled'
  BY PoolKept DEF RefInv
<1> QED
  BY <1>5, <1>6 DEF RefInv

(* A dequeued completion: the operation's reference passes to worker w. *)
LEMMA DequeueStep ==
  ASSUME TypeOK, TypeOK', RefInv, NEW w \in Workers, Move(w),
         UNCHANGED <<closeFlag, generation, ioRefCount, indexPool>>,
         pc[w] = "idle", pc'[w] # "idle", ~Posting(w)', ~Closing(w)',
         \A s \in Slots : recvIO'[s] + sendIO'[s]
                          = recvIO[s] + sendIO[s] - (IF s = cur'[w] THEN 1 ELSE 0)
  PROVE  RefInv'
<1>0. w \in Threads
  BY ThreadNames
<1>1. ~Posting(w) /\ ~Completing(w) /\ ~Closing(w) /\ Completing(w)'
  BY DEF Posting, Completing, Closing, CloseLabels, ClosingLabels
<1>2. \A s \in Slots : HeldBy(w, s)' = (IF s = cur'[w] THEN 1 ELSE 0) /\ HeldBy(w, s) = 0
  BY <1>1 DEF HeldBy
<1>3. \A s \in Slots : w \in Closers(s)' <=> w \in Closers(s)
  BY <1>1 DEF Closers, Closing
<1>4. \A s \in Slots : /\ recvIO[s] \in Nat /\ sendIO[s] \in Nat /\ ioRefCount[s] \in Int
                       /\ recvIO'[s] \in Nat /\ sendIO'[s] \in Nat
  BY DEF TypeOK
<1>5. \A s \in Slots : ioRefCount'[s] - recvIO'[s] - sendIO'[s] - HeldBy(w, s)'
                       = ioRefCount[s] - recvIO[s] - sendIO[s] - HeldBy(w, s)
  BY <1>2, <1>4
<1>6. OneCloser' /\ RefCounted'
  BY <1>0, <1>3, <1>5, BalancedStep DEF RefInv
<1>7. Pooled'
  BY PoolKept DEF RefInv
<1> QED
  BY <1>6, <1>7 DEF RefInv

(* IORelease of a reference that t holds. *)
LEMMA ReleaseStep ==
  ASSUME TypeOK, TypeOK', RefInv, NEW t \in Threads, Move(t),
         UNCHANGED <<closeFlag, generation, recvIO, sendIO, cur>>,
         generation[cur[t]] # 0, IORelease(cur[t]), ~Closing(t), ~Closing(t)',
         \/ (Completing(t)' <=> Completing(t)) /\ Posting(t) /\ ~Posting(t)'
         \/ (Posting(t)' <=> Posting(t)) /\ Completing(t) /\ ~Completing(t)'
  PROVE  RefInv'
<1>1. cur[t] \in Slots /\ ioRefCount \in [Slots -> Int]
  BY DEF TypeOK
<1>2. \A s \in Slots : ioRefCount'[s] = ioRefCount[s] - (IF s = cur[t] THEN 1 ELSE 0)
  BY <1>1 DEF IORelease
<1>3. \A s \in Slots : /\ HeldBy(t, s)' = HeldBy(t, s) - (IF s = cur[t] THEN 1 ELSE 0)
                       /\ HeldBy(t, s) \in Int
  BY DEF HeldBy
<1>4. \A s \in Slots : t \in Closers(s)' <=> t \in Closers(s)
  BY DEF Closers, Closing
<1>5. \A s \in Slots : recvIO[s] \in Nat /\ sendIO[s] \in Nat /\ ioRefCount[s] \in Int
  BY DEF TypeOK
<1>6. \A s \in Slots : ioRefCount'[s] - recvIO'[s] - sendIO'[s] - HeldBy(t, s)'
                       = ioRefCount[s] - recvIO[s] - sendIO[s] - HeldBy(t, s)
  BY <1>2, <1>3, <1>5
<1>7. OneCloser' /\ RefCounted'
  BY <1>4, <1>6, BalancedStep DEF RefInv
<1>8. ioRefCount[cur[t]] > 0
  BY <1>1, CountPositive DEF RefInv
<1>9. Pooled'
  BY <1>1, <1>8, PoolReleased DEF RefInv
<1> QED
  BY <1>7, <1>9 DEF RefInv

(* CloseSession's IORelease: the only closer gives back the base           *)
(* reference.                                                              *)
LEMMA DropBaseStep ==
  ASSUME TypeOK, TypeOK', RefInv, NEW t \in Threads, Move(t),
         UNCHANGED <<closeFlag, generation, recvIO, sendIO, cur>>,
         generation[cur[t]] # 0, IORelease(cur[t]), Closing(t), ~Closing(t)',
         Completing(t)' <=> Completing(t), Posting(t)' <=> Posting(t)
  PROVE  RefInv'
<1>1. cur[t] \in Slots /\ ioRefCount \in [Slots -> Int]
  BY DEF TypeOK
<1>2. \A s \in Slots : ioRefCount'[s] = ioRefCount[s] - (IF s = cur[t] THEN 1 ELSE 0)
  BY <1>1 DEF IORelease
<1>3. \A s \in Slots : HeldBy(t, s)' = HeldBy(t, s)
  BY DEF HeldBy
<1>4. \A s \in Slots : Held(s)' = Held(s) /\ Held(s) \in Nat
  <2> TAKE s \in Slots
  <2>1. /\ Held(s) \in Nat /\ HeldBy(t, s) \in Nat
        /\ Held(s)' = Held(s) + HeldBy(t, s)' - HeldBy(t, s)
    BY HeldMove
  <2> QED
    BY <1>3, <2>1
<1>5. t \in Closers(cur[t])
  BY DEF Closers, Closing
<1>6. Closers(cur[t]) = {t}
  BY <1>1, <1>5 DEF RefInv, OneCloser
<1>7. closeFlag[cur[t]] = 1
  BY <1>1, <1>5 DEF RefInv, OneCloser
<1>8. \A s \in Slots : Closers(s)' = IF s = cur[t] THEN {} ELSE Closers(s)
  <2> TAKE s \in Slots
  <2>1. Closers(s)' \ {t} = Closers(s) \ {t}
    BY HeldMove
  <2>2. t \notin Closers(s)'
    BY DEF Closers, Closing
  <2>3. s # cur[t] => t \notin Closers(s)
    BY DEF Closers
  <2> QED
    BY <1>6, <2>1, <2>2, <2>3
<1>9. OneCloser'
  BY <1>8 DEF RefInv, OneCloser
<1>10. ASSUME NEW s \in Slots, generation'[s] # 0
       PROVE  ioRefCount'[s] = BaseRef(s)' + recvIO'[s] + sendIO'[s] + Held(s)'
  <2>1. ioRefCount[s] \in Int /\ recvIO[s] \in Int /\ sendIO[s] \in Int
    BY DEF TypeOK
  <2>2. ioRefCount[s] = BaseRef(s) + recvIO[s] + sendIO[s] + Held(s)
    BY <1>10, RefCountHeld DEF RefInv
  <2>3. Held(s)' = Held(s) /\ Held(s) \in Nat
    BY <1>4
  <2>4. ioRefCount'[s] = ioRefCount[s] - (IF s = cur[t] THEN 1 ELSE 0)
    BY <1>2
  <2>5. CASE s = cur[t]
    <3>1. BaseRef(s) = 1
      BY <1>6, <2>5 DEF BaseRef
    <3>2. BaseRef(s)' = 0
      BY <1>7, <1>8, <2>5 DEF BaseRef
    <3> QED
      BY <2>1, <2>2, <2>3, <2>4, <2>5, <3>1, <3>2
  <2>6. CASE s # cur[t]
    <3>1. BaseRef(s)' = BaseRef(s) /\ BaseRef(s) \in Int
      BY <1>8, <2>6 DEF BaseRef
    <3> QED
      BY <2>1, <2>2, <2>3, <2>4, <2>6, <3>1
  <2> QED
    BY <2>5, <2>6
<1>11. RefCounted'
  BY <1>10, RefCountHeldNext
<1>12. ioRefCount[cur[t]] > 0
  BY <1>1, CountPositive DEF RefInv
<1>13. Pooled'
  BY <1>1, <1>12, PoolReleased DEF RefInv
<1> QED
  BY <1>9, <1>11, <1>13 DEF RefInv

(* CloseSession's exchange of closeFlag, won: the base reference of the    *)
(* open session becomes the one its closer gives back.                     *)
LEMMA FirstCloserStep ==
  ASSUME TypeOK, TypeOK', RefInv, NEW t \in Threads, Move(t),
         UNCHANGED <<generation, ioRefCount, recvIO, sendIO, indexPool, cur>>,
         closeFlag[cur[t]] = 0, generation[cur[t]] # 0,
         closeFlag' = [closeFlag EXCEPT ![cur[t]] = 1],
         ~Closing(t), Closing(t)',
         Completing(t)' <=> Completing(t), Posting(t)' <=> Posting(t)
  PROVE  RefInv'
<1>1. cur[t] \in Slots /\ closeFlag \in [Slots -> {0, 1}]
  BY DEF TypeOK
<1>2. \A s \in Slots : closeFlag'[s] = IF s = cur[t] THEN 1 ELSE closeFlag[s]
  BY <1>1
<1>3. \A s \in Slots : HeldBy(t, s)' = HeldBy(t, s)
  BY DEF HeldBy
<1>4. \A s \in Slots : Held(s)' = Held(s)
  <2> TAKE s \in Slots
  <2>1. /\ Held(s) \in Nat /\ HeldBy(t, s) \in Nat
        /\ Held(s)' = Held(s) + HeldBy(t, s)' - HeldBy(t, s)
    BY HeldMove
  <2> QED
    BY <1>3, <2>1
<1>5. Closers(cur[t]) = {}
  BY <1>1 DEF RefInv, OneCloser
<1>6. \A s \in Slots : Closers(s)' = IF s = cur[t] THEN {t} ELSE Closers(s)
  <2> TAKE s \in Slots
  <2>1. Closers(s)' \ {t} = Closers(s) \ {t}
    BY HeldMove
  <2>2. t \in Closers(s)' <=> s = cur[t]
    BY DEF Closers, Closing
  <2>3. t \notin Closers(s)
    BY DEF Closers, Closing
  <2> QED
    BY <1>5, <2>1, <2>2, <2>3
<1>7. OneCloser'
  BY <1>2, <1>6 DEF RefInv, OneCloser
<1>8. \A s \in Slots : BaseRef(s)' = BaseRef(s)
  BY <1>2, <1>6 DEF BaseRef
<1>9. ASSUME NEW s \in Slots, generation'[s] # 0
      PROVE  ioRefCount'[s] = BaseRef(s)' + recvIO'[s] + sendIO'[s] + Held(s)'
  BY <1>4, <1>8, <1>9, RefCountHeld DEF RefInv
<1>10. RefCounted'
  BY <1>9, RefCountHeldNext
<1>11. Pooled'
  BY PoolKept DEF RefInv
<1> QED
  BY <1>7, <1>10, <1>11 DEF RefInv

(* A step of CloseSession on a slot that never had a session: it does not  *)
(* touch the slots that had one.                                           *)
LEMMA UnusedStep ==
  ASSUME TypeOK, TypeOK', RefInv, OneCloser', Pooled', NEW t \in Threads, Move(t),
         generation[cur[t]] = 0,
         UNCHANGED <<generation, recvIO, sendIO, cur>>,
         \A s \in Slots \ {cur[t]} :
           ioRefCount'[s] = ioRefCount[s] /\ closeFlag'[s] = closeFlag[s]
  PROVE  RefInv'
<1>1. ASSUME NEW s \in Slots, generation'[s] # 0
      PROVE  ioRefCount'[s] = BaseRef(s)' + recvIO'[s] + sendIO'[s] + Held(s)'
  <2>1. s # cur[t] /\ generation[s] # 0
    BY <1>1
  <2>2. ioRefCount[s] = BaseRef(s) + recvIO[s] + sendIO[s] + Held(s)
    BY <2>1, RefCountHeld DEF RefInv
  <2>3. /\ Held(s) \in Nat /\ HeldBy(t, s) = 0 /\ HeldBy(t, s)' = 0
        /\ Held(s)' = Held(s) + HeldBy(t, s)' - HeldBy(t, s)
        /\ Closers(s)' \ {t} = Closers(s) \ {t}
    BY <2>1, HeldMove DEF HeldBy
  <2>4. Held(s)' = Held(s)
    BY <2>3
  <2>5. Closers(s)' = Closers(s)
    BY <2>1, <2>3 DEF Closers
  <2>6. BaseRef(s)' = BaseRef(s)
    BY <2>1, <2>5 DEF BaseRef
  <2> QED
    BY <2>1, <2>2, <2>4, <2>6
<1>2. RefCounted'
  BY <1>1, RefCountHeldNext
<1> QED
  BY <1>2 DEF RefInv
-----------------------------------------------------------------------------
(* The inductive invariant.  The lemmas above say what each kind of step   *)
(* does to the reference counts; here every action is shown to be a step   *)
(* of one of those kinds, and the invariants that this needs to hold.      *)

(* The code each thread runs, and where CloseSession returns in it. *)
LabelsOf(t) ==
  CloseLabels \cup {"idle", "undo"} \cup
    IF t = Acceptor THEN {"associate", "count", "join"} \cup RecvLabels
    ELSE IF t = Updater THEN {"checkFlag", "enqueue", "unlock"} \cup FlushLabels
    ELSE IF t = Main THEN {}
    ELSE {"parse", "sent", "clearPending", "recheck", "release"}
         \cup RecvLabels \cup FlushLabels

ReturnsOf(t) ==
  IF t \in Workers THEN {"release", "undo"}
  ELSE IF t = Main THEN {"idle"} ELSE {"idle", "undo"}

PlaceInv ==
  \A t \in Threads :
    /\ pc[t] \in LabelsOf(t)
    /\ pc[t] \in CloseLabels => ret[t] \in ReturnsOf(t)
    /\ t = Main => ret[t] = "idle"

(* A thread works on a slot that was allocated, and so does its I/O; only  *)
(* Stop closes other slots, and takes their count down.                    *)
UsedInv ==
  /\ \A t \in Threads \ {Main} : pc[t] # "idle" => generation[cur[t]] # 0
  /\ \A s \in Slots : recvIO[s] > 0 \/ sendIO[s] > 0 => generation[s] # 0
  /\ \A s \in Slots : generation[s] = 0 => ioRefCount[s] <= 0

SoleLabels == {"associate", "count", "join", "recvRef"}

(* Until the accept thread has posted the first recv it has the session    *)
(* to itself.                                                              *)
AcceptInv ==
  LET s == cur[Acceptor] IN
  pc[Acceptor] \in SoleLabels =>
    /\ closeFlag[s] = 0
    /\ recvIO[s] = 0 /\ sendIO[s] = 0
    /\ received[s] # generation[s]
    /\ \A t \in Threads \ {Acceptor} : pc[t] # "idle" => cur[t] # s

(* Between its test of closeFlag and IOAddRef SendPacket finds the slot    *)
(* referenced, and its SessionID is the slot's.                            *)
WindowInv ==
  /\ pc[Updater] \in WindowLabels => ioRefCount[cur[Updater]] > 0
  /\ pc[Updater] # "idle" => sidGen = generation[cur[Updater]]

ReceivedInv == \A s \in Slots : received[s] <= generation[s]

PacketsInv ==
  \A s \in Slots :
    /\ \A i \in 1 .. Len(sendQ[s]) : sendQ[s][i] = generation[s]
    /\ \A i \in 1 .. Len(sendPkts[s]) : sendPkts[s][i] = generation[s]

IInv ==
  /\ TypeOK
  /\ PlaceInv
  /\ UsedInv
  /\ AcceptInv
  /\ WindowInv
  /\ ReceivedInv
  /\ PacketsInv
  /\ RefInv
-----------------------------------------------------------------------------
(* The reference counts *)

PostLabels == {"recvPost", "sendPost", "sendFail", "undo"}

(* A slot in the pool is referred to by nobody. *)
LEMMA FreeSlot ==
  ASSUME TypeOK, RefInv, UsedInv, pc[Main] = "idle", NEW s \in Slots, InPool(s)
  PROVE  /\ recvIO[s] = 0 /\ sendIO[s] = 0
         /\ Held(s) = 0 /\ Closers(s) = {}
         /\ \A t \in Threads : cur[t] = s => ~Completing(t) /\ ~Posting(t)
<1>1. recvIO[s] \in Nat /\ sendIO[s] \in Nat /\ BaseRef(s) \in {0, 1}
  BY DEF TypeOK, BaseRef
<1>2. Held(s) \in Nat
  BY HeldType
<1>3. recvIO[s] = 0 /\ sendIO[s] = 0 /\ Held(s) = 0 /\ Closers(s) = {}
  <2>1. CASE generation[s] # 0
    <3>1. ioRefCount[s] = 0
      BY <2>1 DEF RefInv, Pooled
    <3>2. ioRefCount[s] = BaseRef(s) + recvIO[s] + sendIO[s] + Held(s)
      BY <2>1, RefCountHeld DEF RefInv
    <3>3. PICK i \in Int, b \in {0, 1}, r \in Nat, n \in Nat, h \in Nat :
            /\ i = ioRefCount[s] /\ b = BaseRef(s) /\ r = recvIO[s]
            /\ n = sendIO[s] /\ h = Held(s)
      BY <1>1, <1>2, <3>1
    <3>4. i = 0 /\ i = b + r + n + h
      BY <3>1, <3>2, <3>3
    <3>5. b = 0 /\ r = 0 /\ n = 0 /\ h = 0
      BY ONLY <3>4
    <3> QED
      BY <3>3, <3>5 DEF BaseRef
  <2>2. CASE generation[s] = 0
    <3>1. recvIO[s] = 0 /\ sendIO[s] = 0
      BY <1>1, <2>2 DEF UsedInv
    <3>2. \A t \in Threads : cur[t] = s => pc[t] = "idle"
      BY <2>2 DEF UsedInv
    <3>3. Closers(s) = {} /\ Completers(s) = {} /\ Posters(s) = {}
      BY <3>2, ThreadNames
         DEF Closers, Completers, Posters, Posting, CloseLabels, ClosingLabels
    <3>4. Held(s) = 0
      BY <3>3, FS_EmptySet DEF Held
    <3> QED
      BY <3>1, <3>3, <3>4
  <2> QED
    BY <2>1, <2>2
<1>4. ASSUME NEW t \in Threads, cur[t] = s
      PROVE  ~Completing(t) /\ ~Posting(t)
  <2>1. cur[t] = s /\ (Completing(t) \/ Posting(t)) => Held(s) > 0
    BY HeldPositive
  <2>2. ~(Held(s) > 0)
    BY <1>3
  <2> QED
    BY <1>4, <2>1, <2>2
<1> QED
  BY <1>3, <1>4

(* AllocSession pops a slot c, and the others stay in the pool. *)
LEMMA PoolPopped ==
  ASSUME TypeOK, PoolDistinct, AllocSession,
         NEW c, c = indexPool[Len(indexPool)]
  PROVE  /\ PoolDistinct'
         /\ \A s \in Slots : InPool(s)' <=> InPool(s) /\ s # c
<1>1. indexPool \in Seq(Slots) /\ indexPool # <<>>
  BY DEF TypeOK, AllocSession
<1>2. Len(indexPool) \in Nat /\ Len(indexPool) > 0
  BY <1>1
<1>3. /\ Len(indexPool') = Len(indexPool) - 1
      /\ \A i \in 1 .. Len(indexPool) - 1 : indexPool'[i] = indexPool[i]
  <2> DEFINE n == Len(indexPool) - 1
  <2>1. n \in Int /\ n >= 0 /\ \A i \in 1 .. n : indexPool[i] \in Slots
    BY <1>1, <1>2
  <2>2. /\ Len(SubSeq(indexPool, 1, n)) = IF 1 <= n THEN n - 1 + 1 ELSE 0
        /\ \A i \in 1 .. n - 1 + 1 :
             SubSeq(indexPool, 1, n)[i] = indexPool[1 + i - 1]
    BY <2>1, SubSeqProperties
  <2> HIDE DEF n
  <2>3. Len(SubSeq(indexPool, 1, n)) = n
    BY <2>1, <2>2
  <2>4. \A i \in 1 .. n : SubSeq(indexPool, 1, n)[i] = indexPool[i]
    BY <2>1, <2>2
  <2> QED
    BY <2>3, <2>4 DEF n, AllocSession
<1>4. PoolDistinct'
  <2>1. \A i \in 1 .. Len(indexPool') :
          i \in 1 .. Len(indexPool) /\ indexPool'[i] = indexPool[i]
    BY <1>2, <1>3
  <2> QED
    BY <2>1 DEF PoolDistinct
<1>5. \A s \in Slots : InPool(s)' <=> InPool(s) /\ s # c
  <2>1. ASSUME NEW s \in Slots, InPool(s)'
        PROVE  InPool(s) /\ s # c
    <3>1. PICK i \in 1 .. Len(indexPool') : indexPool'[i] = s
      BY <2>1 DEF InPool
    <3>2. i \in 1 .. Len(indexPool) /\ i # Len(indexPool) /\ indexPool[i] = s
      BY <1>2, <1>3, <3>1
    <3>3. Len(indexPool) \in 1 .. Len(indexPool)
      BY <1>2
    <3> QED
      BY <3>2, <3>3 DEF InPool, PoolDistinct
  <2>2. ASSUME NEW s \in Slots, InPool(s), s # c
        PROVE  InPool(s)'
    <3>1. PICK i \in 1 .. Len(indexPool) : indexPool[i] = s
      BY <2>2 DEF InPool
    <3>2. i \in 1 .. Len(indexPool') /\ indexPool'[i] = s
      BY <1>2, <1>3, <2>2, <3>1
    <3> QED
      BY <3>2 DEF InPool
  <2> QED
    BY <2>1, <2>2
<1> QED
  BY <1>4, <1>5

(* AllocSession: the slot leaves the pool with its base reference. *)
LEMMA AllocStep ==
  ASSUME TypeOK, TypeOK', RefInv, UsedInv, pc[Main] = "idle", AllocSession
  PROVE  RefInv'
<1> DEFINE c == indexPool[Len(indexPool)]
<1>1. /\ indexPool \in Seq(Slots) /\ indexPool # <<>>
      /\ ioRefCount \in [Slots -> Int]
      /\ generation \in [Slots -> Nat] /\ closeFlag \in [Slots -> {0, 1}]
      /\ recvIO \in [Slots -> Nat] /\ sendIO \in [Slots -> Nat]
  BY DEF TypeOK, AllocSession
<1>2. Len(indexPool) \in Nat /\ Len(indexPool) > 0
  BY <1>1
<1>3. c \in Slots /\ InPool(c)
  BY <1>1, <1>2 DEF InPool
<1>4. /\ indexPool' = SubSeq(indexPool, 1, Len(indexPool) - 1)
      /\ ioRefCount' = [ioRefCount EXCEPT ![c] = 1]
      /\ generation' = [generation EXCEPT ![c] = @ + 1]
      /\ closeFlag' = [closeFlag EXCEPT ![c] = 0]
      /\ recvIO' = recvIO /\ sendIO' = sendIO
  BY DEF AllocSession, InitSession, ioVars
<1>6. /\ PoolDistinct'
      /\ \A s \in Slots : InPool(s)' <=> InPool(s) /\ s # c
  BY PoolPopped DEF RefInv, Pooled
<1>8. Pooled'
  <2>1. \A s \in Slots : ioRefCount'[s] = IF s = c THEN 1 ELSE ioRefCount[s]
    BY <1>1, <1>3, <1>4
  <2>2. \A s \in Slots : s # c => generation'[s] = generation[s]
    BY <1>1, <1>3, <1>4
  <2>3. \A s \in Slots : generation[s] # 0 => (InPool(s) <=> ioRefCount[s] = 0)
    BY DEF RefInv, Pooled
  <2>4. \A s \in Slots : generation'[s] # 0 => (InPool(s)' <=> ioRefCount'[s] = 0)
    BY <1>6, <2>1, <2>2, <2>3
  <2> QED
    BY <1>6, <2>4 DEF Pooled
<1>9. /\ Move(Acceptor) /\ Acceptor \in Threads
      /\ pc[Acceptor] = "idle" /\ pc'[Acceptor] = "associate"
  BY ThreadNames DEF AllocSession, Move, TypeOK
<1>10. /\ ~Posting(Acceptor) /\ ~Posting(Acceptor)'
       /\ ~Completing(Acceptor) /\ ~Completing(Acceptor)'
       /\ ~Closing(Acceptor) /\ ~Closing(Acceptor)'
  BY <1>9, ThreadNames
     DEF Posting, Completing, Closing, CloseLabels, ClosingLabels
<1>11. \A s \in Slots : Closers(s)' = Closers(s)
  <2> TAKE s \in Slots
  <2>1. Closers(s)' \ {Acceptor} = Closers(s) \ {Acceptor}
    BY <1>9, HeldMove
  <2>2. Acceptor \notin Closers(s) /\ Acceptor \notin Closers(s)'
    BY <1>10 DEF Closers, Closing
  <2> QED
    BY <2>1, <2>2
<1>12. \A s \in Slots : Held(s)' = Held(s) /\ Held(s) \in Nat
  <2> TAKE s \in Slots
  <2>1. /\ Held(s) \in Nat
        /\ Held(s)' = Held(s) + HeldBy(Acceptor, s)' - HeldBy(Acceptor, s)
    BY <1>9, HeldMove
  <2>2. HeldBy(Acceptor, s)' = 0 /\ HeldBy(Acceptor, s) = 0
    BY <1>10 DEF HeldBy
  <2> QED
    BY <2>1, <2>2
<1>13. /\ recvIO[c] = 0 /\ sendIO[c] = 0 /\ Held(c) = 0
       /\ Closers(c) = {}
  BY <1>3, FreeSlot
<1>14. OneCloser'
  <2>1. \A s \in Slots : s # c => closeFlag'[s] = closeFlag[s]
    BY <1>1, <1>3, <1>4
  <2> QED
    BY <1>11, <1>13, <2>1 DEF RefInv, OneCloser
<1>15. ASSUME NEW s \in Slots, generation'[s] # 0
       PROVE  ioRefCount'[s] = BaseRef(s)' + recvIO'[s] + sendIO'[s] + Held(s)'
  <2>1. CASE s = c
    <3>1. generation'[c] # 0 /\ closeFlag'[c] = 0 /\ ioRefCount'[c] = 1
      <4>1. generation'[c] = generation[c] + 1 /\ generation[c] \in Nat
        BY <1>1, <1>3, <1>4
      <4>2. closeFlag'[c] = 0 /\ ioRefCount'[c] = 1
        BY <1>1, <1>3, <1>4
      <4>3. generation[c] + 1 # 0
        BY <4>1
      <4> QED
        BY <4>1, <4>2, <4>3
    <3>2. BaseRef(s)' = 1
      BY <2>1, <3>1 DEF BaseRef
    <3>3. recvIO'[s] = 0 /\ sendIO'[s] = 0 /\ Held(s)' = 0 /\ ioRefCount'[s] = 1
      BY <1>4, <1>12, <1>13, <2>1, <3>1
    <3> QED
      BY <3>2, <3>3
  <2>2. CASE s # c
    <3>1. /\ generation'[s] = generation[s] /\ closeFlag'[s] = closeFlag[s]
          /\ ioRefCount'[s] = ioRefCount[s]
      BY <1>1, <1>3, <1>4, <2>2
    <3>2. BaseRef(s)' = BaseRef(s)
      BY <1>11, <3>1 DEF BaseRef
    <3>3. ioRefCount[s] = BaseRef(s) + recvIO[s] + sendIO[s] + Held(s)
      BY <1>15, <3>1, RefCountHeld DEF RefInv
    <3> QED
      BY <1>4, <1>12, <3>1, <3>2, <3>3
  <2> QED
    BY <2>1, <2>2
<1>16. RefCounted'
  BY <1>9, <1>15, RefCountHeldNext
<1> QED
  BY <1>8, <1>14, <1>16 DEF RefInv

(* A jump that changes neither the counts nor what the thread holds. *)
LEMMA GotoQuiet ==
  ASSUME TypeOK, TypeOK', RefInv, NEW t \in Threads, NEW l, Goto(t, l),
         UNCHANGED <<closeFlag, generation, ioRefCount, recvIO, sendIO, indexPool>>,
         t \in Workers => (pc[t] = "idle" <=> l = "idle"),
         pc[t] \in PostLabels <=> l \in PostLabels,
         pc[t] \in CloseLabels <=> l \in CloseLabels,
         pc[t] \in ClosingLabels <=> l \in ClosingLabels
  PROVE  RefInv'
<1>1. Move(t) /\ pc'[t] = l /\ cur' = cur /\ ret' = ret
  BY GotoMove
<1>2. Completing(t)' <=> Completing(t)
  BY <1>1 DEF Completing
<1>3. Posting(t)' <=> Posting(t)
  BY <1>1 DEF Posting, PostLabels
<1>4. Closing(t)' <=> Closing(t)
  BY <1>1 DEF Closing
<1> QED
  BY <1>1, <1>2, <1>3, <1>4, QuietStep

(* A call of CloseSession; a thread that holds the reference of an         *)
(* operation it could not post comes back to give it up.                   *)
LEMMA CallQuiet ==
  ASSUME TypeOK, TypeOK', RefInv, NEW t \in Threads, NEW b, CallCloseSession(t, b),
         UNCHANGED <<closeFlag, generation, ioRefCount, recvIO, sendIO, indexPool>>,
         t \in Workers => pc[t] # "idle",
         pc[t] \in PostLabels <=> b = "undo",
         pc[t] \notin CloseLabels
  PROVE  RefInv'
<1>1. Move(t) /\ pc'[t] = "close" /\ ret'[t] = b /\ cur' = cur
  BY CallMove
<1>2. Completing(t)' <=> Completing(t)
  BY <1>1 DEF Completing
<1>3. Posting(t)' <=> Posting(t)
  BY <1>1 DEF Posting, PostLabels, CloseLabels
<1>4. ~Closing(t)' /\ ~Closing(t)
  BY <1>1 DEF Closing, CloseLabels, ClosingLabels
<1> QED
  BY <1>1, <1>2, <1>3, <1>4, QuietStep

(* What a thread holds when CloseSession returns. *)
LEMMA ReturnHolds ==
  ASSUME TypeOK, PlaceInv, NEW t \in Threads, pc[t] \in CloseLabels,
         ReturnFromCloseSession(t)
  PROVE  /\ Move(t) /\ cur' = cur
         /\ Completing(t)' <=> Completing(t)
         /\ Posting(t)' <=> Posting(t)
         /\ ~Closing(t)'
<1>1. /\ Move(t) /\ pc'[t] = ret[t] /\ ret'[t] = "idle" /\ cur' = cur
  BY ReturnMove
<1>2. ret[t] \in {"idle", "release", "undo"}
  BY DEF TypeOK
<1>3. t \in Workers => ret[t] # "idle"
  BY DEF PlaceInv, ReturnsOf
<1>4. pc[t] # "idle" /\ pc[t] \notin PostLabels
  BY DEF CloseLabels, ClosingLabels, PostLabels
<1>5. Completing(t)' <=> Completing(t)
  BY <1>1, <1>3, <1>4 DEF Completing
<1>6. Posting(t)' <=> Posting(t)
  BY <1>1, <1>2, <1>4 DEF Posting, PostLabels, CloseLabels, ClosingLabels
<1>7. ~Closing(t)'
  BY <1>1, <1>2 DEF Closing, ClosingLabels
<1> QED
  BY <1>1, <1>5, <1>6, <1>7

(* CloseSession of a slot that never had a session: the counts. *)
LEMMA CloseUnusedRef ==
  ASSUME IInv, TypeOK', NEW t \in Threads, CloseSession(t), generation[cur[t]] = 0
  PROVE  RefInv'
<1> USE DEF lifeVars, queueVars, ioVars, contentVars
<1> SUFFICES ASSUME NEW c \in Slots, c = cur[t] PROVE RefInv'
  BY DEF IInv, TypeOK
<1>0. /\ TypeOK /\ RefInv /\ OneCloser /\ Pooled /\ UsedInv /\ c \in Slots
      /\ ioRefCount[c] \in Int /\ ioRefCount[c] <= 0
  BY DEF IInv, TypeOK, RefInv, UsedInv
<1>1. /\ Move(t) /\ cur' = cur
      /\ \/ /\ pc[t] = "close" /\ closeFlag[c] # 0 /\ pc'[t] = ret[t]
            /\ closeFlag' = [closeFlag EXCEPT ![c] = 1]
            /\ UNCHANGED <<ioRefCount, indexPool>>
         \/ /\ pc[t] = "close" /\ closeFlag[c] = 0 /\ pc'[t] = "closeSock"
            /\ closeFlag' = [closeFlag EXCEPT ![c] = 1]
            /\ UNCHANGED <<ioRefCount, indexPool>>
         \/ /\ pc[t] \in ClosingLabels /\ pc'[t] \in ClosingLabels
            /\ UNCHANGED <<closeFlag, ioRefCount, indexPool>>
         \/ /\ pc[t] \in ClosingLabels /\ pc'[t] = ret[t]
            /\ closeFlag' = closeFlag /\ IORelease(c)
  <2>1. CASE CloseSessionTestFlag(t)
    <3>1. CASE closeFlag[c] # 0
      BY <1>0, <2>1, <3>1, ReturnMove DEF CloseSessionTestFlag
    <3>2. CASE closeFlag[c] = 0
      BY <1>0, <2>1, <3>2, GotoMove DEF CloseSessionTestFlag
    <3> QED
      BY <3>1, <3>2
  <2>2. CASE CloseSessionCloseSocket(t)
    BY <1>0, <2>2, GotoMove DEF CloseSessionCloseSocket, ClosingLabels
  <2>3. CASE CloseSessionDrain(t)
    BY <1>0, <2>3, GotoMove DEF CloseSessionDrain, ClosingLabels
  <2>4. CASE CloseSessionLeave(t)
    BY <1>0, <2>4, GotoMove DEF CloseSessionLeave, ClosingLabels
  <2>5. CASE CloseSessionCount(t)
    BY <1>0, <2>5, GotoMove DEF CloseSessionCount, ClosingLabels
  <2>6. CASE CloseSessionDropBase(t)
    BY <1>0, <2>6, ReturnMove DEF CloseSessionDropBase, ClosingLabels
  <2> QED
    BY <2>1, <2>2, <2>3, <2>4, <2>5, <2>6 DEF CloseSession
<1>2. /\ UNCHANGED <<generation, recvIO, sendIO>>
      /\ ret[t] \in {"idle", "release", "undo"}
  BY <1>0 DEF CloseSession, CloseSessionTestFlag, CloseSessionCloseSocket,
              CloseSessionDrain, CloseSessionLeave, CloseSessionCount,
              CloseSessionDropBase, TypeOK
<1>3. \A s \in Slots \ {c} :
        ioRefCount'[s] = ioRefCount[s] /\ closeFlag'[s] = closeFlag[s]
  <2>1. \/ ioRefCount' = ioRefCount
        \/ ioRefCount' = [ioRefCount EXCEPT ![c] = @ - 1]
    BY <1>1 DEF IORelease
  <2>2. closeFlag' = closeFlag \/ closeFlag' = [closeFlag EXCEPT ![c] = 1]
    BY <1>1
  <2>3. DOMAIN ioRefCount = Slots /\ DOMAIN closeFlag = Slots
    BY <1>0 DEF TypeOK
  <2> QED
    BY <2>1, <2>2, <2>3
<1>4. OneCloser'
  <2>1. \A s \in Slots : Closers(s)' \ {t} = Closers(s) \ {t}
    BY <1>1, HeldMove
  <2>2. \A s \in Slots \ {c} : t \notin Closers(s) /\ t \notin Closers(s)'
    BY <1>1 DEF Closers
  <2>3. \A s \in Slots \ {c} : Closers(s)' = Closers(s)
    BY <2>1, <2>2
  <2>4. \/ Closers(c)' \subseteq Closers(c)
        \/ closeFlag[c] = 0 /\ Closers(c)' \subseteq Closers(c) \cup {t}
    <3>1. t \in Closers(c)' <=> pc'[t] \in ClosingLabels
      BY <1>1 DEF Closers
    <3>2. t \in Closers(c) <=> pc[t] \in ClosingLabels
      BY DEF Closers
    <3>3. ret[t] \notin ClosingLabels
      BY <1>2 DEF ClosingLabels
    <3> QED
      BY <1>0, <1>1, <2>1, <3>1, <3>2, <3>3
  <2>5. Closers(c)' # {} => closeFlag'[c] = 1
    <3>1. closeFlag'[c] = closeFlag[c] \/ closeFlag'[c] = 1
      BY <1>0, <1>1 DEF TypeOK
    <3>2. CASE Closers(c) # {}
      <4>1. closeFlag[c] = 1
        BY <1>0, <3>2 DEF OneCloser
      <4> QED
        BY <3>1, <4>1
    <3>3. CASE Closers(c) = {} /\ Closers(c)' # {}
      <4>0. t \in Closers(c)' /\ t \notin Closers(c)
        BY <2>1, <3>3
      <4>1. pc'[t] \in ClosingLabels /\ pc[t] \notin ClosingLabels
        BY <4>0 DEF Closers
      <4>2. closeFlag' = [closeFlag EXCEPT ![c] = 1]
        BY <1>1, <1>2, <4>1 DEF ClosingLabels
      <4> QED
        BY <1>0, <4>2 DEF TypeOK
    <3> QED
      BY <3>2, <3>3
  <2>6. \A u, v \in Closers(c)' : u = v
    <3>1. CASE Closers(c)' \subseteq Closers(c)
      BY <1>0, <3>1 DEF OneCloser
    <3>2. CASE closeFlag[c] = 0 /\ Closers(c)' \subseteq Closers(c) \cup {t}
      <4>1. Closers(c) = {}
        BY <1>0, <3>2 DEF OneCloser
      <4> QED
        BY <3>2, <4>1
    <3> QED
      BY <2>4, <3>1, <3>2
  <2>7. ASSUME NEW s \in Slots
        PROVE  /\ \A u, v \in Closers(s)' : u = v
               /\ Closers(s)' # {} => closeFlag'[s] = 1
    <3>1. CASE s = c
      BY <2>5, <2>6, <3>1
    <3>2. CASE s # c
      BY <1>0, <1>3, <2>3, <3>2 DEF OneCloser
    <3> QED
      BY <3>1, <3>2
  <2> QED
    BY <2>7 DEF OneCloser
<1>5. Pooled'
  <2>1. indexPool' = indexPool
    <3>1. CASE IORelease(c)
      <4>1. ioRefCount[c] - 1 # 0
        BY <1>0
      <4> QED
        BY <3>1, <4>1 DEF IORelease
    <3> QED
      BY <1>1, <3>1
  <2>2. \A s \in Slots :
          generation[s] # 0 => (ioRefCount'[s] = 0 <=> ioRefCount[s] = 0)
    BY <1>3
  <2> QED
    BY <1>0, <1>2, <2>1, <2>2, PoolKept
<1> QED
  BY <1>0, <1>1, <1>2, <1>3, <1>4, <1>5, UnusedStep

(* CloseSession: the counts. *)
LEMMA CloseSessionRef ==
  ASSUME IInv, TypeOK', NEW t \in Threads, CloseSession(t)
  PROVE  RefInv'
<1> USE DEF lifeVars, queueVars, ioVars, contentVars
<1>0. TypeOK /\ RefInv /\ PlaceInv /\ UsedInv /\ cur[t] \in Slots
  BY DEF IInv, TypeOK
<1>u. SUFFICES ASSUME generation[cur[t]] # 0 PROVE RefInv'
  BY CloseUnusedRef
<1>1. CASE CloseSessionTestFlag(t)
  <2>1. pc[t] = "close" /\ "close" \in CloseLabels /\ ~Closing(t)
    BY <1>1 DEF CloseSessionTestFlag, CloseLabels, Closing, ClosingLabels
  <2>2. CASE closeFlag[cur[t]] # 0
    <3>1. closeFlag' = closeFlag
      BY <1>0, <1>1, <2>2 DEF CloseSessionTestFlag, TypeOK
    <3>2. /\ Move(t) /\ cur' = cur
          /\ Completing(t)' <=> Completing(t)
          /\ Posting(t)' <=> Posting(t)
          /\ ~Closing(t)'
      BY <1>0, <1>1, <2>1, <2>2, ReturnHolds DEF CloseSessionTestFlag
    <3> QED
      BY <1>0, <1>1, <2>1, <3>1, <3>2, QuietStep DEF CloseSessionTestFlag
  <2>3. CASE closeFlag[cur[t]] = 0
    <3>1. Goto(t, "closeSock")
      BY <1>1, <2>3 DEF CloseSessionTestFlag
    <3>2. /\ Move(t) /\ pc'[t] = "closeSock" /\ cur' = cur /\ ret' = ret
      BY <1>0, <3>1, GotoMove
    <3>3. Closing(t)' /\ (Completing(t)' <=> Completing(t))
      BY <2>1, <3>2 DEF Closing, ClosingLabels, Completing
    <3>4. Posting(t)' <=> Posting(t)
      BY <2>1, <3>2 DEF Posting, CloseLabels, ClosingLabels
    <3> QED
      BY <1>0, <1>1, <1>u, <2>1, <2>3, <3>2, <3>3, <3>4, FirstCloserStep
         DEF CloseSessionTestFlag
  <2> QED
    BY <2>2, <2>3
<1>2. CASE CloseSessionCloseSocket(t)
  BY <1>0, <1>2, GotoQuiet
     DEF CloseSessionCloseSocket, PostLabels, CloseLabels, ClosingLabels
<1>3. CASE CloseSessionDrain(t)
  BY <1>0, <1>3, GotoQuiet
     DEF CloseSessionDrain, PostLabels, CloseLabels, ClosingLabels
<1>4. CASE CloseSessionLeave(t)
  BY <1>0, <1>4, GotoQuiet
     DEF CloseSessionLeave, PostLabels, CloseLabels, ClosingLabels
<1>5. CASE CloseSessionCount(t)
  BY <1>0, <1>5, GotoQuiet
     DEF CloseSessionCount, PostLabels, CloseLabels, ClosingLabels
<1>6. CASE CloseSessionDropBase(t)
  <2>1. pc[t] \in CloseLabels /\ Closing(t)
    BY <1>6 DEF CloseSessionDropBase, CloseLabels, Closing, ClosingLabels
  <2>2. /\ Move(t) /\ cur' = cur
        /\ Completing(t)' <=> Completing(t)
        /\ Posting(t)' <=> Posting(t)
        /\ ~Closing(t)'
    BY <1>0, <1>6, <2>1, ReturnHolds DEF CloseSessionDropBase
  <2> QED
    BY <1>0, <1>6, <1>u, <2>1, <2>2, DropBaseStep DEF CloseSessionDropBase
<1> QED
  BY <1>1, <1>2, <1>3, <1>4, <1>5, <1>6 DEF CloseSession

(* A thread that is about to take a reference finds the slot referenced:   *)
(* a worker by its completion, the accept thread by the base reference of  *)
(* a session nobody can have closed, SendPacket by WindowInv.              *)
LEMMA AddRefPositive ==
  ASSUME IInv, NEW t \in Threads \ {Main}, pc[t] \in {"recvRef", "sendRef"}
  PROVE  ioRefCount[cur[t]] > 0
<1>0. /\ TypeOK /\ RefInv /\ RefCounted /\ cur[t] \in Slots
      /\ generation[cur[t]] # 0
  BY DEF IInv, TypeOK, RefInv, UsedInv
<1>1. CASE t \in Workers
  <2>1. Completing(t)
    BY <1>1 DEF Completing
  <2> QED
    BY <1>0, <2>1, CountPositive
<1>2. CASE t = Acceptor
  <2>1. pc[Acceptor] = "recvRef"
    BY <1>2 DEF IInv, PlaceInv, LabelsOf, RecvLabels, CloseLabels, ClosingLabels
  <2>2. closeFlag[cur[t]] = 0 /\ generation[cur[t]] # 0
    BY <1>2, <2>1, ThreadNames DEF IInv, AcceptInv, SoleLabels, UsedInv
  <2> QED
    BY <1>0, <2>2, CountPositive
<1>3. CASE t = Updater
  <2>1. pc[Updater] = "sendRef"
    BY <1>3, ThreadNames
       DEF IInv, PlaceInv, LabelsOf, FlushLabels, CloseLabels, ClosingLabels
  <2> QED
    BY <1>3, <2>1 DEF IInv, WindowInv, WindowLabels
<1> QED
  BY <1>1, <1>2, <1>3 DEF Threads

(* PostRecv and the IORelease after a failed post: the counts. *)
LEMMA PostRecvRef ==
  ASSUME IInv, TypeOK', NEW t \in Threads \ {Main}, PostRecv(t) \/ UndoAddRef(t)
  PROVE  RefInv'
<1> USE DEF lifeVars, queueVars, ioVars, contentVars
<1>0. TypeOK /\ RefInv /\ cur[t] \in Slots
  BY DEF IInv, TypeOK
<1>h. t \in Workers => Home(t) = "release"
  BY ThreadNames DEF Home
<1>k. Home(t) \in {"idle", "unlock", "release"}
  BY DEF Home
<1>1. CASE PostRecvAddRef(t)
  <2>1. Move(t) /\ pc'[t] = "recvPost" /\ cur' = cur /\ ret' = ret
    BY <1>0, <1>1, GotoMove DEF PostRecvAddRef
  <2>2. pc[t] = "recvRef" /\ IOAddRef(cur[t])
    BY <1>1 DEF PostRecvAddRef
  <2>3. /\ Completing(t)' <=> Completing(t)
        /\ ~Closing(t) /\ ~Closing(t)'
    BY <2>1, <2>2 DEF Completing, Closing, ClosingLabels
  <2>4. ~Posting(t) /\ Posting(t)'
    BY <2>1, <2>2 DEF Posting, CloseLabels, ClosingLabels
  <2>5. ioRefCount[cur[t]] > 0
    BY <2>2, AddRefPositive
  <2> QED
    BY <1>0, <1>1, <2>1, <2>2, <2>3, <2>4, <2>5, AddRefStep DEF PostRecvAddRef
<1>2. CASE PostRecvPosted(t)
  <2>1. Move(t) /\ pc'[t] = Home(t) /\ cur' = cur /\ ret' = ret
    BY <1>0, <1>2, GotoMove DEF PostRecvPosted
  <2>2. pc[t] = "recvPost"
    BY <1>2 DEF PostRecvPosted
  <2>3. /\ Completing(t)' <=> Completing(t)
        /\ ~Closing(t) /\ ~Closing(t)'
    BY <1>h, <1>k, <2>1, <2>2 DEF Completing, Closing, ClosingLabels
  <2>4. Posting(t) /\ ~Posting(t)'
    BY <1>k, <2>1, <2>2 DEF Posting, CloseLabels, ClosingLabels
  <2>5. \A s \in Slots : /\ recvIO'[s] = recvIO[s] + (IF s = cur[t] THEN 1 ELSE 0)
                         /\ sendIO'[s] = sendIO[s]
                         /\ recvIO[s] \in Nat /\ sendIO[s] \in Nat
    <3>1. /\ recvIO' = [recvIO EXCEPT ![cur[t]] = @ + 1] /\ sendIO' = sendIO
          /\ recvIO \in [Slots -> Nat] /\ sendIO \in [Slots -> Nat]
      BY <1>0, <1>2 DEF PostRecvPosted, TypeOK
    <3> TAKE s \in Slots
    <3>2. CASE s = cur[t]
      BY <3>1, <3>2
    <3>3. CASE s # cur[t]
      BY <3>1, <3>3
    <3> QED
      BY <3>2, <3>3
  <2>6. \A s \in Slots : recvIO'[s] + sendIO'[s]
                         = recvIO[s] + sendIO[s] + (IF s = cur[t] THEN 1 ELSE 0)
    BY <2>5
  <2> QED
    BY <1>0, <1>2, <2>1, <2>3, <2>4, <2>6, PostStep DEF PostRecvPosted
<1>3. CASE PostRecvFailed(t)
  BY <1>0, <1>3, CallQuiet
     DEF PostRecvFailed, PostLabels, CloseLabels, ClosingLabels
<1>4. CASE UndoAddRef(t)
  <2>1. Move(t) /\ pc'[t] = Home(t) /\ cur' = cur /\ ret' = ret
    BY <1>0, <1>4, GotoMove DEF UndoAddRef
  <2>2. pc[t] = "undo"
    BY <1>4 DEF UndoAddRef
  <2>3. /\ Completing(t)' <=> Completing(t)
        /\ ~Closing(t) /\ ~Closing(t)'
    BY <1>h, <1>k, <2>1, <2>2 DEF Completing, Closing, ClosingLabels
  <2>4. Posting(t) /\ ~Posting(t)'
    BY <1>k, <2>1, <2>2 DEF Posting, CloseLabels, ClosingLabels
  <2>5. generation[cur[t]] # 0
    BY <2>2 DEF IInv, UsedInv
  <2> QED
    BY <1>0, <1>4, <2>1, <2>3, <2>4, <2>5, ReleaseStep DEF UndoAddRef
<1> QED
  BY <1>1, <1>2, <1>3, <1>4 DEF PostRecv

(* FlushSend: the counts. *)
LEMMA FlushSendRef ==
  ASSUME IInv, TypeOK', NEW t \in Threads \ {Main}, FlushSend(t)
  PROVE  RefInv'
<1> USE DEF lifeVars, queueVars, ioVars, contentVars
<1>0. TypeOK /\ RefInv /\ cur[t] \in Slots
  BY DEF IInv, TypeOK
<1>h. t \in Workers => Home(t) = "release"
  BY ThreadNames DEF Home
<1>k. Home(t) \in {"idle", "unlock", "release"}
  BY DEF Home
<1>1. CASE FlushSendExchange(t)
  <2> DEFINE l == IF sendPending[cur[t]] # 0 THEN Home(t) ELSE "grab"
  <2>1. Goto(t, l) /\ pc[t] = "exchange"
    BY <1>1 DEF FlushSendExchange
  <2>2. l \in {"idle", "unlock", "release", "grab"} /\ (t \in Workers => l # "idle")
    BY <1>h, <1>k
  <2> HIDE DEF l
  <2> QED
    BY <1>0, <1>1, <2>1, <2>2, GotoQuiet
       DEF FlushSendExchange, PostLabels, CloseLabels, ClosingLabels
<1>2. CASE FlushSendGrab(t)
  BY <1>0, <1>2, GotoQuiet
     DEF FlushSendGrab, PostLabels, CloseLabels, ClosingLabels
<1>3. CASE FlushSendAddRef(t)
  <2>1. Move(t) /\ pc'[t] = "sendPost" /\ cur' = cur /\ ret' = ret
    BY <1>0, <1>3, GotoMove DEF FlushSendAddRef
  <2>2. pc[t] = "sendRef" /\ IOAddRef(cur[t])
    BY <1>3 DEF FlushSendAddRef
  <2>3. /\ Completing(t)' <=> Completing(t)
        /\ ~Closing(t) /\ ~Closing(t)'
    BY <2>1, <2>2 DEF Completing, Closing, ClosingLabels
  <2>4. ~Posting(t) /\ Posting(t)'
    BY <2>1, <2>2 DEF Posting, CloseLabels, ClosingLabels
  <2>5. ioRefCount[cur[t]] > 0
    BY <2>2, AddRefPositive
  <2> QED
    BY <1>0, <1>3, <2>1, <2>2, <2>3, <2>4, <2>5, AddRefStep DEF FlushSendAddRef
<1>4. CASE FlushSendPosted(t)
  <2>1. Move(t) /\ pc'[t] = Home(t) /\ cur' = cur /\ ret' = ret
    BY <1>0, <1>4, GotoMove DEF FlushSendPosted
  <2>2. pc[t] = "sendPost"
    BY <1>4 DEF FlushSendPosted
  <2>3. /\ Completing(t)' <=> Completing(t)
        /\ ~Closing(t) /\ ~Closing(t)'
    BY <1>h, <1>k, <2>1, <2>2 DEF Completing, Closing, ClosingLabels
  <2>4. Posting(t) /\ ~Posting(t)'
    BY <1>k, <2>1, <2>2 DEF Posting, CloseLabels, ClosingLabels
  <2>5. \A s \in Slots : /\ sendIO'[s] = sendIO[s] + (IF s = cur[t] THEN 1 ELSE 0)
                         /\ recvIO'[s] = recvIO[s]
                         /\ recvIO[s] \in Nat /\ sendIO[s] \in Nat
    <3>1. /\ sendIO' = [sendIO EXCEPT ![cur[t]] = @ + 1] /\ recvIO' = recvIO
          /\ recvIO \in [Slots -> Nat] /\ sendIO \in [Slots -> Nat]
      BY <1>0, <1>4 DEF FlushSendPosted, TypeOK
    <3> TAKE s \in Slots
    <3>2. CASE s = cur[t]
      BY <3>1, <3>2
    <3>3. CASE s # cur[t]
      BY <3>1, <3>3
    <3> QED
      BY <3>2, <3>3
  <2>6. \A s \in Slots : recvIO'[s] + sendIO'[s]
                         = recvIO[s] + sendIO[s] + (IF s = cur[t] THEN 1 ELSE 0)
    BY <2>5
  <2> QED
    BY <1>0, <1>4, <2>1, <2>3, <2>4, <2>6, PostStep DEF FlushSendPosted
<1>5. CASE FlushSendFailed(t)
  BY <1>0, <1>5, GotoQuiet
     DEF FlushSendFailed, PostLabels, CloseLabels, ClosingLabels
<1>6. CASE FlushSendUndo(t)
  BY <1>0, <1>6, CallQuiet
     DEF FlushSendUndo, PostLabels, CloseLabels, ClosingLabels
<1> QED
  BY <1>1, <1>2, <1>3, <1>4, <1>5, <1>6 DEF FlushSend

(* A dequeued completion: the counts, and where the worker goes. *)
LEMMA DequeueRef ==
  ASSUME TypeOK, TypeOK', RefInv, NEW w \in Workers, DequeueRecv(w) \/ DequeueSend(w)
  PROVE  RefInv'
<1> USE DEF lifeVars, queueVars, ioVars, contentVars
<1>0. w \in Threads /\ recvIO \in [Slots -> Nat] /\ sendIO \in [Slots -> Nat]
  BY ThreadNames DEF TypeOK
<1>1. PICK s \in Slots :
        /\ cur' = [cur EXCEPT ![w] = s]
        /\ \/ recvIO[s] > 0 /\ recvIO' = [recvIO EXCEPT ![s] = @ - 1] /\ sendIO' = sendIO
           \/ sendIO[s] > 0 /\ sendIO' = [sendIO EXCEPT ![s] = @ - 1] /\ recvIO' = recvIO
        /\ \/ pc' = [pc EXCEPT ![w] = "parse"] /\ ret' = ret
           \/ pc' = [pc EXCEPT ![w] = "sent"] /\ ret' = ret
           \/ pc' = [pc EXCEPT ![w] = "close"] /\ ret' = [ret EXCEPT ![w] = "release"]
  BY DEF DequeueRecv, DequeueSend
<1>2. /\ pc[w] = "idle"
      /\ UNCHANGED <<closeFlag, generation, ioRefCount, indexPool>>
  BY DEF DequeueRecv, DequeueSend
<1>3. /\ Move(w) /\ cur'[w] = s
      /\ pc'[w] \in {"parse", "sent", "close"}
      /\ pc'[w] = "close" => ret'[w] = "release"
  <2>1. /\ DOMAIN pc = Threads /\ DOMAIN cur = Threads /\ DOMAIN ret = Threads
        /\ pc = [t \in Threads |-> pc[t]] /\ cur = [t \in Threads |-> cur[t]]
        /\ ret = [t \in Threads |-> ret[t]]
    BY DEF TypeOK
  <2>2. Move(w) /\ cur'[w] = s
    BY <1>0, <1>1, <2>1 DEF Move
  <2>3. /\ pc'[w] \in {"parse", "sent", "close"}
        /\ pc'[w] = "close" => ret'[w] = "release"
    BY <1>0, <1>1, <2>1
  <2> QED
    BY <2>2, <2>3
<1>4. ~Posting(w)'
  BY <1>3 DEF Posting, CloseLabels, ClosingLabels
<1>5. ~Closing(w)'
  BY <1>3 DEF Closing, ClosingLabels
<1>6. \A r \in Slots : recvIO'[r] + sendIO'[r]
                       = recvIO[r] + sendIO[r] - (IF r = cur'[w] THEN 1 ELSE 0)
  <2> TAKE r \in Slots
  <2>1. recvIO[r] \in Int /\ sendIO[r] \in Int
    BY <1>0
  <2>2. CASE r = s
    <3>1. \/ recvIO'[r] = recvIO[r] - 1 /\ sendIO'[r] = sendIO[r]
          \/ recvIO'[r] = recvIO[r] /\ sendIO'[r] = sendIO[r] - 1
      BY <1>0, <1>1, <2>2
    <3> QED
      BY <1>3, <2>1, <2>2, <3>1
  <2>3. CASE r # s
    <3>1. recvIO'[r] = recvIO[r] /\ sendIO'[r] = sendIO[r]
      BY <1>0, <1>1, <2>3
    <3> QED
      BY <1>3, <2>1, <2>3, <3>1
  <2> QED
    BY <2>2, <2>3
<1> QED
  BY <1>2, <1>3, <1>4, <1>5, <1>6, DequeueStep

(* The handlers of a completion: the counts. *)
LEMMA WorkerRef ==
  ASSUME IInv, TypeOK', NEW w \in Workers, WorkerStep(w)
  PROVE  RefInv'
<1> USE DEF lifeVars, queueVars, ioVars, contentVars
<1>0. TypeOK /\ RefInv /\ w \in Threads \ {Main} /\ cur[w] \in Slots
  BY ThreadNames DEF IInv, TypeOK
<1>1. CASE OnRecvComplete(w)
  <2>1. CASE Goto(w, "recvRef")
    BY <1>0, <1>1, <2>1, GotoQuiet
       DEF OnRecvComplete, PostLabels, CloseLabels, ClosingLabels
  <2>2. CASE CallCloseSession(w, "release")
    BY <1>0, <1>1, <2>2, CallQuiet
       DEF OnRecvComplete, PostLabels, CloseLabels, ClosingLabels
  <2> QED
    BY <1>1, <2>1, <2>2 DEF OnRecvComplete
<1>2. CASE OnSendCompleteRelease(w)
  BY <1>0, <1>2, GotoQuiet
     DEF OnSendCompleteRelease, PostLabels, CloseLabels, ClosingLabels
<1>3. CASE OnSendCompleteClear(w)
  BY <1>0, <1>3, GotoQuiet
     DEF OnSendCompleteClear, PostLabels, CloseLabels, ClosingLabels
<1>4. CASE OnSendCompleteRecheck(w)
  <2>1. CASE Goto(w, "exchange")
    BY <1>0, <1>4, <2>1, GotoQuiet
       DEF OnSendCompleteRecheck, PostLabels, CloseLabels, ClosingLabels
  <2>2. CASE Goto(w, "release")
    BY <1>0, <1>4, <2>2, GotoQuiet
       DEF OnSendCompleteRecheck, PostLabels, CloseLabels, ClosingLabels
  <2> QED
    BY <1>4, <2>1, <2>2 DEF OnSendCompleteRecheck
<1>5. CASE WorkerRelease(w)
  <2>1. Move(w) /\ pc'[w] = "idle" /\ cur' = cur /\ ret' = ret
    BY <1>0, <1>5, GotoMove DEF WorkerRelease
  <2>2. pc[w] = "release"
    BY <1>5 DEF WorkerRelease
  <2>3. /\ Completing(w) /\ ~Completing(w)'
        /\ ~Closing(w) /\ ~Closing(w)'
    BY <2>1, <2>2 DEF Completing, Closing, ClosingLabels
  <2>4. ~Posting(w) /\ ~Posting(w)'
    BY <2>1, <2>2 DEF Posting, CloseLabels, ClosingLabels
  <2>5. generation[cur[w]] # 0
    BY <1>0, <2>2 DEF IInv, UsedInv
  <2> QED
    BY <1>0, <1>5, <2>1, <2>3, <2>4, <2>5, ReleaseStep DEF WorkerRelease
<1>6. CASE PostRecv(w) \/ UndoAddRef(w)
  BY <1>0, <1>6, PostRecvRef
<1>7. CASE FlushSend(w)
  BY <1>0, <1>7, FlushSendRef
<1>8. CASE CloseSession(w)
  BY <1>0, <1>8, CloseSessionRef
<1> QED
  BY <1>1, <1>2, <1>3, <1>4, <1>5, <1>6, <1>7, <1>8 DEF WorkerStep

(* The accept thread: the counts. *)
LEMMA AcceptRef ==
  ASSUME IInv, TypeOK', AcceptStep
  PROVE  RefInv'
<1> USE DEF lifeVars, queueVars, ioVars, contentVars
<1>0. TypeOK /\ RefInv /\ Acceptor \in Threads \ {Main} /\ Acceptor \notin Workers
  BY ThreadNames, ThreadsAssumption DEF IInv
<1>1. CASE Associate
  <2>1. CASE Goto(Acceptor, "count")
    BY <1>0, <1>1, <2>1, GotoQuiet
       DEF Associate, PostLabels, CloseLabels, ClosingLabels
  <2>2. CASE CallCloseSession(Acceptor, "idle")
    BY <1>0, <1>1, <2>2, CallQuiet
       DEF Associate, PostLabels, CloseLabels, ClosingLabels
  <2> QED
    BY <1>1, <2>1, <2>2 DEF Associate
<1>2. CASE CountAccept
  BY <1>0, <1>2, GotoQuiet
     DEF CountAccept, PostLabels, CloseLabels, ClosingLabels
<1>3. CASE Join
  BY <1>0, <1>3, GotoQuiet
     DEF Join, PostLabels, CloseLabels, ClosingLabels
<1>4. CASE PostRecv(Acceptor) \/ UndoAddRef(Acceptor)
  BY <1>0, <1>4, PostRecvRef
<1>5. CASE CloseSession(Acceptor)
  BY <1>0, <1>5, CloseSessionRef
<1> QED
  BY <1>1, <1>2, <1>3, <1>4, <1>5 DEF AcceptStep

(* The Update thread: the counts. *)
LEMMA UpdateRef ==
  ASSUME IInv, TypeOK', SendPacketCheckGeneration \/ Disconnect \/ UpdateStep
  PROVE  RefInv'
<1> USE DEF lifeVars, queueVars, ioVars, contentVars
<1>0. TypeOK /\ RefInv /\ Updater \in Threads \ {Main} /\ Updater \notin Workers
  BY ThreadNames, ThreadsAssumption DEF IInv
<1>1. CASE SendPacketCheckGeneration \/ Disconnect
  <2>1. /\ pc[Updater] = "idle" /\ pc'[Updater] \in {"checkFlag", "close"}
        /\ pc'[Updater] = "close" => ret'[Updater] = "idle"
        /\ Move(Updater)
    BY <1>0, <1>1, SMTT(30) DEF SendPacketCheckGeneration, Disconnect, TypeOK, Move
  <2>2. ~Completing(Updater) /\ ~Completing(Updater)'
    BY <1>0 DEF Completing
  <2>3. ~Posting(Updater) /\ ~Posting(Updater)'
    BY <2>1 DEF Posting, CloseLabels, ClosingLabels
  <2>4. ~Closing(Updater) /\ ~Closing(Updater)'
    BY <2>1 DEF Closing, ClosingLabels
  <2>5. UNCHANGED <<closeFlag, generation, ioRefCount, recvIO, sendIO, indexPool>>
    BY <1>1 DEF SendPacketCheckGeneration, Disconnect
  <2> QED
    BY <1>0, <2>1, <2>2, <2>3, <2>4, <2>5, QuietStep
<1>2. CASE SendPacketCheckFlag
  <2>1. CASE Goto(Updater, "idle")
    BY <1>0, <1>2, <2>1, GotoQuiet
       DEF SendPacketCheckFlag, PostLabels, CloseLabels, ClosingLabels
  <2>2. CASE Goto(Updater, "enqueue")
    BY <1>0, <1>2, <2>2, GotoQuiet
       DEF SendPacketCheckFlag, PostLabels, CloseLabels, ClosingLabels
  <2> QED
    BY <1>2, <2>1, <2>2 DEF SendPacketCheckFlag
<1>3. CASE SendPacketEnqueue
  BY <1>0, <1>3, GotoQuiet
     DEF SendPacketEnqueue, PostLabels, CloseLabels, ClosingLabels
<1>4. CASE SendPacketQueueFull
  BY <1>0, <1>4, CallQuiet
     DEF SendPacketQueueFull, PostLabels, CloseLabels, ClosingLabels
<1>5. CASE SendPacketUnlock
  BY <1>0, <1>5, GotoQuiet
     DEF SendPacketUnlock, PostLabels, CloseLabels, ClosingLabels
<1>6. CASE FlushSend(Updater)
  BY <1>0, <1>6, FlushSendRef
<1>7. CASE CloseSession(Updater)
  BY <1>0, <1>7, CloseSessionRef
<1>8. CASE UndoAddRef(Updater)
  BY <1>0, <1>8, PostRecvRef
<1> QED
  BY <1>1, <1>2, <1>3, <1>4, <1>5, <1>6, <1>7, <1>8 DEF UpdateStep

(* Stop's call of CloseSession: the counts. *)
LEMMA VisitRef ==
  ASSUME IInv, TypeOK', NEW s \in Slots, Visit(s)
  PROVE  RefInv'
<1>0. TypeOK /\ RefInv /\ Main \in Threads /\ Main \notin Workers
  BY ThreadNames DEF IInv
<1>1. /\ Move(Main) /\ pc[Main] = "idle" /\ pc'[Main] = "close"
      /\ ret[Main] = "idle" /\ ret' = ret
  BY <1>0 DEF Visit, IInv, PlaceInv, TypeOK, Move
<1>2. ~Completing(Main) /\ ~Completing(Main)'
  BY <1>0 DEF Completing
<1>3. ~Posting(Main) /\ ~Posting(Main)'
  BY <1>1 DEF Posting, CloseLabels, ClosingLabels
<1>4. ~Closing(Main) /\ ~Closing(Main)'
  BY <1>1 DEF Closing, ClosingLabels
<1>5. UNCHANGED <<closeFlag, generation, ioRefCount, recvIO, sendIO, indexPool>>
  BY DEF Visit, lifeVars, ioVars
<1> QED
  BY <1>0, <1>1, <1>2, <1>3, <1>4, <1>5, QuietStep

(* Every step keeps the counts exact. *)
LEMMA NextRef ==
  ASSUME IInv, TypeOK', ServerStep
  PROVE  RefInv'
<1>0. TypeOK /\ RefInv /\ UsedInv
  BY DEF IInv
<1>1. CASE AllocSession /\ pc[Main] = "idle"
  BY <1>0, <1>1, AllocStep
<1>2. CASE AcceptStep
  BY <1>2, AcceptRef
<1>3. CASE \E w \in Workers : DequeueRecv(w) \/ DequeueSend(w) \/ WorkerStep(w)
  BY <1>0, <1>3, DequeueRef, WorkerRef
<1>4. CASE SendPacketCheckGeneration \/ Disconnect \/ UpdateStep
  BY <1>4, UpdateRef
<1>5. CASE \E s \in Slots : Visit(s)
  BY <1>5, VisitRef
<1>6. CASE CloseSession(Main)
  BY <1>6, ThreadNames, CloseSessionRef
<1> QED
  BY <1>1, <1>2, <1>3, <1>4, <1>5, <1>6 DEF ServerStep, ThreadStep

-----------------------------------------------------------------------------
(* What a step of a thread inside a handler can do: where it goes (Walk)   *)
(* and what it touches (Touch), which is the data of its own slot only.    *)

Walk(t) ==
  /\ Move(t) /\ pc[t] # "idle" /\ cur' = cur /\ sidGen' = sidGen
  /\ pc'[t] \in LabelsOf(t)
  /\ pc'[t] \in CloseLabels => ret'[t] \in ReturnsOf(t)
  /\ t = Acceptor /\ pc'[t] \in SoleLabels => pc[t] \in SoleLabels
  /\ t = Updater /\ pc'[t] \in WindowLabels =>
       \/ pc[t] \in WindowLabels
       \/ pc[t] = "checkFlag" /\ closeFlag[cur[t]] = 0 /\ ioRefCount' = ioRefCount
  /\ t = Main => ret'[t] = "idle"

Touch(t) ==
  LET c == cur[t] IN
  /\ generation' = generation
  /\ \A s \in Slots \ {c} :
       /\ closeFlag'[s] = closeFlag[s] /\ received'[s] = received[s]
       /\ recvIO'[s] = recvIO[s] /\ sendIO'[s] = sendIO[s]
       /\ sendQ'[s] = sendQ[s] /\ sendPkts'[s] = sendPkts[s]
  /\ t = Acceptor /\ pc[t] \in SoleLabels =>
       UNCHANGED <<closeFlag, received, recvIO, sendIO>>
  /\ t = Main => UNCHANGED <<recvIO, sendIO>>
  /\ received'[c] \in {received[c], generation[c]}
  /\ \/ sendQ'[c] \in {sendQ[c], <<>>}
     \/ t = Updater /\ sendQ'[c] = Append(sendQ[c], sidGen)
  /\ sendPkts'[c] \in {sendPkts[c], sendQ[c], <<>>}
  /\ \/ UNCHANGED <<ioRefCount, indexPool>>
     \/ t # Main /\ IOAddRef(c) /\ UNCHANGED indexPool
     \/ IORelease(c)

(* A jump inside a handler. *)
LEMMA GotoWalk ==
  ASSUME TypeOK, PlaceInv, NEW t \in Threads, NEW l, Goto(t, l), pc[t] # "idle",
         l \in LabelsOf(t), l \in CloseLabels => pc[t] \in CloseLabels,
         t = Acceptor /\ l \in SoleLabels => pc[t] \in SoleLabels,
         t = Updater /\ l \in WindowLabels => pc[t] \in WindowLabels
  PROVE  Walk(t)
<1>1. Move(t) /\ pc'[t] = l /\ cur' = cur /\ ret' = ret /\ sidGen' = sidGen
  BY GotoMove
<1> QED
  BY <1>1 DEF Walk, PlaceInv

(* A call of CloseSession, and the return from it. *)
LEMMA CallWalk ==
  ASSUME TypeOK, NEW t \in Threads, NEW b \in ReturnsOf(t), pc[t] # "idle",
         CallCloseSession(t, b)
  PROVE  Walk(t)
<1>1. /\ Move(t) /\ pc'[t] = "close" /\ ret'[t] = b
      /\ cur' = cur /\ sidGen' = sidGen
  BY CallMove
<1> QED
  BY <1>1, ThreadNames DEF Walk, LabelsOf, ReturnsOf, CloseLabels, SoleLabels, WindowLabels

(* The return from CloseSession is a walk.                                 *)
LEMMA ReturnWalk ==
  ASSUME TypeOK, PlaceInv, NEW t \in Threads, pc[t] \in CloseLabels,
         ReturnFromCloseSession(t)
  PROVE  Walk(t)
<1>1. /\ Move(t) /\ pc'[t] = ret[t] /\ ret'[t] = "idle"
      /\ cur' = cur /\ sidGen' = sidGen
  BY ReturnMove
<1>2. ret[t] \in ReturnsOf(t) /\ pc[t] # "idle"
  BY DEF PlaceInv, CloseLabels, ClosingLabels
<1>3. ret[t] \in LabelsOf(t)
  BY <1>2, ThreadNames DEF ReturnsOf, LabelsOf
<1>4. ret[t] \notin CloseLabels \cup SoleLabels \cup WindowLabels
  BY <1>2 DEF ReturnsOf, CloseLabels, ClosingLabels, SoleLabels, WindowLabels
<1> QED
  BY <1>1, <1>2, <1>3, <1>4 DEF Walk

(* The places of CloseSession, PostRecv and FlushSend. *)
LEMMA CloseSessionWalk ==
  ASSUME TypeOK, PlaceInv, NEW t \in Threads, CloseSession(t)
  PROVE  Walk(t) /\ Touch(t)
<1> USE DEF lifeVars, queueVars, ioVars, contentVars
<1>0. cur[t] \in Slots
  BY DEF TypeOK
<1>1. CASE CloseSessionTestFlag(t)
  <2>1. pc[t] = "close"
    BY <1>1 DEF CloseSessionTestFlag
  <2>2. Walk(t)
    <3>1. CASE Goto(t, "closeSock")
      BY <2>1, <3>1, GotoWalk
         DEF LabelsOf, CloseLabels, ClosingLabels, SoleLabels, WindowLabels
    <3>2. CASE ReturnFromCloseSession(t)
      BY <2>1, <3>2, ReturnWalk DEF CloseLabels
    <3> QED
      BY <1>1, <3>1, <3>2 DEF CloseSessionTestFlag
  <2>3. Touch(t)
    BY <1>0, <1>1, <2>1 DEF CloseSessionTestFlag, Touch, SoleLabels, TypeOK
  <2> QED
    BY <2>2, <2>3
<1>2. CASE CloseSessionCloseSocket(t)
  <2>1. Walk(t)
    BY <1>2, GotoWalk DEF CloseSessionCloseSocket, LabelsOf, CloseLabels,
                          ClosingLabels, SoleLabels, WindowLabels
  <2>2. Touch(t)
    BY <1>2 DEF CloseSessionCloseSocket, Touch
  <2> QED
    BY <2>1, <2>2
<1>3. CASE CloseSessionDrain(t)
  <2>1. Walk(t)
    BY <1>3, GotoWalk DEF CloseSessionDrain, LabelsOf, CloseLabels,
                          ClosingLabels, SoleLabels, WindowLabels
  <2>2. Touch(t)
    BY <1>0, <1>3 DEF CloseSessionDrain, Touch, TypeOK
  <2> QED
    BY <2>1, <2>2
<1>4. CASE CloseSessionLeave(t)
  <2>1. Walk(t)
    BY <1>4, GotoWalk DEF CloseSessionLeave, LabelsOf, CloseLabels,
                          ClosingLabels, SoleLabels, WindowLabels
  <2>2. Touch(t)
    BY <1>4 DEF CloseSessionLeave, Touch
  <2> QED
    BY <2>1, <2>2
<1>5. CASE CloseSessionCount(t)
  <2>1. Walk(t)
    BY <1>5, GotoWalk DEF CloseSessionCount, LabelsOf, CloseLabels,
                          ClosingLabels, SoleLabels, WindowLabels
  <2>2. Touch(t)
    BY <1>5 DEF CloseSessionCount, Touch
  <2> QED
    BY <2>1, <2>2
<1>6. CASE CloseSessionDropBase(t)
  <2>1. Walk(t)
    BY <1>6, ReturnWalk DEF CloseSessionDropBase, CloseLabels, ClosingLabels
  <2>2. Touch(t)
    BY <1>6 DEF CloseSessionDropBase, Touch
  <2> QED
    BY <2>1, <2>2
<1> QED
  BY <1>1, <1>2, <1>3, <1>4, <1>5, <1>6 DEF CloseSession

(* Every step of PostRecv is a walk.                                       *)
LEMMA PostRecvWalk ==
  ASSUME TypeOK, PlaceInv, NEW t \in Threads \ {Main}, PostRecv(t) \/ UndoAddRef(t)
  PROVE  Walk(t) /\ Touch(t)
<1> USE DEF lifeVars, queueVars, ioVars, contentVars
<1>0. cur[t] \in Slots /\ pc[t] \in LabelsOf(t) /\ "undo" \in ReturnsOf(t)
  BY DEF TypeOK, PlaceInv, ReturnsOf
<1>h. /\ Home(t) \in LabelsOf(t) /\ Home(t) \in {"idle", "unlock", "release"}
      /\ Home(t) \notin CloseLabels \cup SoleLabels \cup WindowLabels
  BY DEF Home, LabelsOf, CloseLabels, ClosingLabels, SoleLabels, WindowLabels
<1>1. CASE PostRecvAddRef(t)
  <2>1. "recvPost" \in LabelsOf(t)
    BY <1>0, <1>1 DEF PostRecvAddRef, LabelsOf, RecvLabels, FlushLabels, CloseLabels,
                      ClosingLabels
  <2>2. Walk(t)
    BY <1>1, <2>1, GotoWalk
       DEF PostRecvAddRef, CloseLabels, ClosingLabels, SoleLabels, WindowLabels
  <2>3. Touch(t)
    BY <1>1 DEF PostRecvAddRef, Touch
  <2> QED
    BY <2>2, <2>3
<1>2. CASE PostRecvPosted(t)
  <2>1. Walk(t)
    BY <1>h, <1>2, GotoWalk DEF PostRecvPosted
  <2>2. Touch(t)
    BY <1>0, <1>2 DEF PostRecvPosted, Touch, TypeOK, SoleLabels
  <2> QED
    BY <2>1, <2>2
<1>3. CASE PostRecvFailed(t)
  <2>1. Walk(t)
    BY <1>0, <1>3, CallWalk DEF PostRecvFailed
  <2>2. Touch(t)
    BY <1>3 DEF PostRecvFailed, Touch
  <2> QED
    BY <2>1, <2>2
<1>4. CASE UndoAddRef(t)
  <2>1. Walk(t)
    BY <1>h, <1>4, GotoWalk DEF UndoAddRef
  <2>2. Touch(t)
    BY <1>4 DEF UndoAddRef, Touch
  <2> QED
    BY <2>1, <2>2
<1> QED
  BY <1>1, <1>2, <1>3, <1>4 DEF PostRecv

(* Every step of FlushSend is a walk.                                      *)
LEMMA FlushSendWalk ==
  ASSUME TypeOK, PlaceInv, NEW t \in Threads \ {Main}, FlushSend(t)
  PROVE  Walk(t) /\ Touch(t)
<1> USE DEF lifeVars, queueVars, ioVars, contentVars
<1>0. cur[t] \in Slots /\ pc[t] \in LabelsOf(t) /\ "undo" \in ReturnsOf(t)
  BY DEF TypeOK, PlaceInv, ReturnsOf
<1>h. /\ Home(t) \in LabelsOf(t) /\ Home(t) \in {"idle", "unlock", "release"}
      /\ Home(t) \notin CloseLabels \cup SoleLabels \cup WindowLabels
  BY DEF Home, LabelsOf, CloseLabels, ClosingLabels, SoleLabels, WindowLabels
<1>f. pc[t] \in FlushLabels
  BY DEF FlushSend, FlushSendExchange, FlushSendGrab, FlushSendAddRef,
         FlushSendPosted, FlushSendFailed, FlushSendUndo, FlushLabels
<1>g. /\ FlushLabels \subseteq LabelsOf(t) /\ t # Acceptor
      /\ pc[t] # "idle" /\ FlushLabels \cap (CloseLabels \cup SoleLabels) = {}
  BY <1>0, <1>f DEF LabelsOf, RecvLabels, FlushLabels, CloseLabels, ClosingLabels,
                    SoleLabels
<1>1. CASE FlushSendExchange(t)
  <2>1. ASSUME Goto(t, Home(t)) PROVE Walk(t)
    BY <1>g, <1>h, <2>1, GotoWalk
  <2>2. ASSUME Goto(t, "grab") PROVE Walk(t)
    BY <1>1, <1>g, <2>2, GotoWalk DEF FlushSendExchange, FlushLabels, WindowLabels
  <2>3. Touch(t)
    BY <1>1 DEF FlushSendExchange, Touch
  <2> QED
    BY <1>1, <2>1, <2>2, <2>3 DEF FlushSendExchange
<1>2. CASE FlushSendGrab(t)
  <2>1. Walk(t)
    BY <1>2, <1>g, GotoWalk DEF FlushSendGrab, FlushLabels, WindowLabels
  <2>2. Touch(t)
    BY <1>0, <1>2 DEF FlushSendGrab, Touch, TypeOK
  <2> QED
    BY <2>1, <2>2
<1>3. CASE FlushSendAddRef(t)
  <2>1. Walk(t)
    BY <1>3, <1>g, GotoWalk DEF FlushSendAddRef, FlushLabels, WindowLabels
  <2>2. Touch(t)
    BY <1>3 DEF FlushSendAddRef, Touch
  <2> QED
    BY <2>1, <2>2
<1>4. CASE FlushSendPosted(t)
  <2>1. Walk(t)
    BY <1>4, <1>g, <1>h, GotoWalk DEF FlushSendPosted
  <2>2. Touch(t)
    BY <1>0, <1>4, <1>g DEF FlushSendPosted, Touch, TypeOK
  <2> QED
    BY <2>1, <2>2
<1>5. CASE FlushSendFailed(t)
  <2>1. Walk(t)
    BY <1>5, <1>g, GotoWalk DEF FlushSendFailed, FlushLabels, WindowLabels
  <2>2. Touch(t)
    BY <1>5 DEF FlushSendFailed, Touch
  <2> QED
    BY <2>1, <2>2
<1>6. CASE FlushSendUndo(t)
  <2>1. Walk(t)
    BY <1>0, <1>6, <1>g, CallWalk DEF FlushSendUndo
  <2>2. Touch(t)
    BY <1>0, <1>6 DEF FlushSendUndo, Touch, TypeOK
  <2> QED
    BY <2>1, <2>2
<1> QED
  BY <1>1, <1>2, <1>3, <1>4, <1>5, <1>6 DEF FlushSend

(* The handlers of a completion, the accept thread and the Update thread   *)
(* inside its calls.                                                       *)
LEMMA WorkerWalk ==
  ASSUME TypeOK, PlaceInv, NEW w \in Workers, WorkerStep(w)
  PROVE  Walk(w) /\ Touch(w)
<1> USE DEF lifeVars, queueVars, ioVars, contentVars
<1>0. /\ w \in Threads \ {Main} /\ cur[w] \in Slots
      /\ w # Acceptor /\ w # Updater
  BY ThreadNames DEF TypeOK
<1>l. /\ {"idle", "recvRef", "clearPending", "recheck", "exchange", "release"}
           \subseteq LabelsOf(w)
      /\ "release" \in ReturnsOf(w)
  BY <1>0 DEF LabelsOf, ReturnsOf, RecvLabels, FlushLabels
<1>c. {"idle", "recvRef", "clearPending", "recheck", "exchange", "release"}
        \cap CloseLabels = {}
  BY DEF CloseLabels, ClosingLabels
<1>1. CASE OnRecvComplete(w)
  <2>1. ASSUME Goto(w, "recvRef") PROVE Walk(w)
    BY <1>0, <1>1, <1>l, <1>c, <2>1, GotoWalk DEF OnRecvComplete
  <2>2. ASSUME CallCloseSession(w, "release") PROVE Walk(w)
    BY <1>0, <1>1, <1>l, <2>2, CallWalk DEF OnRecvComplete
  <2>3. Touch(w)
    BY <1>0, <1>1 DEF OnRecvComplete, Touch, TypeOK
  <2> QED
    BY <1>1, <2>1, <2>2, <2>3 DEF OnRecvComplete
<1>2. CASE OnSendCompleteRelease(w)
  <2>1. Walk(w)
    BY <1>0, <1>2, <1>l, <1>c, GotoWalk DEF OnSendCompleteRelease
  <2>2. Touch(w)
    BY <1>0, <1>2 DEF OnSendCompleteRelease, Touch, TypeOK
  <2> QED
    BY <2>1, <2>2
<1>3. CASE OnSendCompleteClear(w)
  <2>1. Walk(w)
    BY <1>0, <1>3, <1>l, <1>c, GotoWalk DEF OnSendCompleteClear
  <2>2. Touch(w)
    BY <1>3 DEF OnSendCompleteClear, Touch
  <2> QED
    BY <2>1, <2>2
<1>4. CASE OnSendCompleteRecheck(w)
  <2>1. ASSUME Goto(w, "exchange") PROVE Walk(w)
    BY <1>0, <1>4, <1>l, <1>c, <2>1, GotoWalk DEF OnSendCompleteRecheck
  <2>2. ASSUME Goto(w, "release") PROVE Walk(w)
    BY <1>0, <1>4, <1>l, <1>c, <2>2, GotoWalk DEF OnSendCompleteRecheck
  <2>3. Touch(w)
    BY <1>4 DEF OnSendCompleteRecheck, Touch
  <2> QED
    BY <1>4, <2>1, <2>2, <2>3 DEF OnSendCompleteRecheck
<1>5. CASE WorkerRelease(w)
  <2>1. Walk(w)
    BY <1>0, <1>5, <1>l, <1>c, GotoWalk DEF WorkerRelease
  <2>2. Touch(w)
    BY <1>5 DEF WorkerRelease, Touch
  <2> QED
    BY <2>1, <2>2
<1>6. CASE PostRecv(w) \/ UndoAddRef(w)
  BY <1>0, <1>6, PostRecvWalk
<1>7. CASE FlushSend(w)
  BY <1>0, <1>7, FlushSendWalk
<1>8. CASE CloseSession(w)
  BY <1>0, <1>8, CloseSessionWalk
<1> QED
  BY <1>1, <1>2, <1>3, <1>4, <1>5, <1>6, <1>7, <1>8 DEF WorkerStep

(* The accept thread walks once it has a slot.                             *)
LEMMA AcceptWalk ==
  ASSUME TypeOK, PlaceInv, AcceptStep
  PROVE  Walk(Acceptor) /\ Touch(Acceptor)
<1> USE DEF lifeVars, queueVars, ioVars, contentVars
<1>0. Acceptor \in Threads \ {Main} /\ Acceptor # Updater
  BY ThreadNames
<1>l. {"count", "join", "recvRef"} \subseteq LabelsOf(Acceptor)
      /\ "idle" \in ReturnsOf(Acceptor)
  BY ThreadsAssumption DEF LabelsOf, ReturnsOf, RecvLabels
<1>c. {"count", "join", "recvRef"} \cap CloseLabels = {}
  BY DEF CloseLabels, ClosingLabels
<1>1. CASE Associate
  <2>1. ASSUME Goto(Acceptor, "count") PROVE Walk(Acceptor)
    BY <1>0, <1>1, <1>l, <1>c, <2>1, GotoWalk DEF Associate, SoleLabels
  <2>2. ASSUME CallCloseSession(Acceptor, "idle") PROVE Walk(Acceptor)
    BY <1>0, <1>1, <1>l, <2>2, CallWalk DEF Associate
  <2>3. Touch(Acceptor)
    BY <1>1 DEF Associate, Touch
  <2> QED
    BY <1>1, <2>1, <2>2, <2>3 DEF Associate
<1>2. CASE CountAccept
  <2>1. Walk(Acceptor)
    BY <1>0, <1>2, <1>l, <1>c, GotoWalk DEF CountAccept, SoleLabels
  <2>2. Touch(Acceptor)
    BY <1>2 DEF CountAccept, Touch
  <2> QED
    BY <2>1, <2>2
<1>3. CASE Join
  <2>1. Walk(Acceptor)
    BY <1>0, <1>3, <1>l, <1>c, GotoWalk DEF Join, SoleLabels
  <2>2. Touch(Acceptor)
    BY <1>3 DEF Join, Touch
  <2> QED
    BY <2>1, <2>2
<1>4. CASE PostRecv(Acceptor) \/ UndoAddRef(Acceptor)
  BY <1>0, <1>4, PostRecvWalk
<1>5. CASE CloseSession(Acceptor)
  BY <1>0, <1>5, CloseSessionWalk
<1> QED
  BY <1>1, <1>2, <1>3, <1>4, <1>5 DEF AcceptStep

(* The Update thread walks inside SendPacket.                              *)
LEMMA UpdateWalk ==
  ASSUME TypeOK, PlaceInv, UpdateStep
  PROVE  Walk(Updater) /\ Touch(Updater)
<1> USE DEF lifeVars, queueVars, ioVars, contentVars
<1>0. /\ Updater \in Threads \ {Main} /\ Acceptor # Updater
      /\ cur[Updater] \in Slots
  BY ThreadNames DEF TypeOK
<1>l. /\ {"idle", "enqueue", "exchange"} \subseteq LabelsOf(Updater)
      /\ "idle" \in ReturnsOf(Updater)
  BY <1>0, ThreadsAssumption DEF LabelsOf, ReturnsOf, FlushLabels
<1>c. {"idle", "enqueue", "exchange"} \cap CloseLabels = {}
  BY DEF CloseLabels, ClosingLabels
<1>1. CASE SendPacketCheckFlag
  <2>1. CASE closeFlag[cur[Updater]] # 0
    <3>1. Goto(Updater, "idle") /\ pc[Updater] # "idle"
      BY <1>1, <2>1 DEF SendPacketCheckFlag
    <3>2. Walk(Updater)
      BY <1>0, <1>l, <1>c, <3>1, GotoWalk DEF WindowLabels
    <3> QED
      BY <1>1, <3>2 DEF SendPacketCheckFlag, Touch
  <2>2. CASE closeFlag[cur[Updater]] = 0
    <3>1. Goto(Updater, "enqueue") /\ pc[Updater] = "checkFlag"
          /\ ioRefCount' = ioRefCount
      BY <1>1, <2>2 DEF SendPacketCheckFlag
    <3>2. /\ Move(Updater) /\ pc'[Updater] = "enqueue" /\ cur' = cur
          /\ ret' = ret /\ sidGen' = sidGen
      BY <1>0, <3>1, GotoMove
    <3>3. Walk(Updater)
      BY <1>0, <1>l, <1>c, <2>2, <3>1, <3>2 DEF Walk
    <3> QED
      BY <1>1, <3>3 DEF SendPacketCheckFlag, Touch
  <2> QED
    BY <2>1, <2>2
<1>2. CASE SendPacketEnqueue
  <2>1. Walk(Updater)
    BY <1>0, <1>2, <1>l, <1>c, GotoWalk DEF SendPacketEnqueue, WindowLabels
  <2>2. Touch(Updater)
    BY <1>0, <1>2 DEF SendPacketEnqueue, Touch, TypeOK
  <2> QED
    BY <2>1, <2>2
<1>3. CASE SendPacketQueueFull
  <2>1. Walk(Updater)
    BY <1>0, <1>3, <1>l, CallWalk DEF SendPacketQueueFull
  <2>2. Touch(Updater)
    BY <1>3 DEF SendPacketQueueFull, Touch
  <2> QED
    BY <2>1, <2>2
<1>4. CASE SendPacketUnlock
  <2>1. Walk(Updater)
    BY <1>0, <1>4, <1>l, <1>c, GotoWalk DEF SendPacketUnlock, WindowLabels
  <2>2. Touch(Updater)
    BY <1>4 DEF SendPacketUnlock, Touch
  <2> QED
    BY <2>1, <2>2
<1>5. CASE FlushSend(Updater)
  BY <1>0, <1>5, FlushSendWalk
<1>6. CASE CloseSession(Updater)
  BY <1>0, <1>6, CloseSessionWalk
<1>7. CASE UndoAddRef(Updater)
  BY <1>0, <1>7, PostRecvWalk
<1> QED
  BY <1>1, <1>2, <1>3, <1>4, <1>5, <1>6, <1>7 DEF UpdateStep

-----------------------------------------------------------------------------
(* A worker that dequeues a completion, the Update thread that starts a    *)
(* SendPacket or a Disconnect, or Stop that calls CloseSession.            *)
Enter(t) ==
  /\ Move(t) /\ t # Acceptor
  /\ pc'[t] \in LabelsOf(t) \ WindowLabels
  /\ pc'[t] \in CloseLabels => ret'[t] \in ReturnsOf(t)
  /\ t \in Workers => recvIO[cur'[t]] > 0 \/ sendIO[cur'[t]] > 0
  /\ t # Updater => sidGen' = sidGen
  /\ t = Updater => /\ generation[cur'[t]] # 0
                    /\ received[cur'[t]] = generation[cur'[t]]
                    /\ sidGen' = generation[cur'[t]]
  /\ t = Main => pc[Acceptor] = "idle" /\ ret'[t] = "idle"
  /\ UNCHANGED <<closeFlag, generation, received, sendQ, sendPkts, ioRefCount, indexPool>>
  /\ \A s \in Slots : recvIO'[s] <= recvIO[s] /\ sendIO'[s] <= sendIO[s]

(* A worker that dequeues a completion enters its slot.                    *)
LEMMA DequeueEnter ==
  ASSUME TypeOK, TypeOK', NEW w \in Workers, DequeueRecv(w) \/ DequeueSend(w)
  PROVE  Enter(w)
<1> USE DEF lifeVars, queueVars, ioVars, contentVars
<1>0. /\ w \in Threads /\ w # Acceptor /\ w # Updater /\ w # Main
      /\ recvIO \in [Slots -> Nat] /\ sendIO \in [Slots -> Nat]
  BY ThreadNames DEF TypeOK
<1>1. PICK s \in Slots :
        /\ cur' = [cur EXCEPT ![w] = s]
        /\ \/ recvIO[s] > 0 /\ recvIO' = [recvIO EXCEPT ![s] = @ - 1] /\ sendIO' = sendIO
           \/ sendIO[s] > 0 /\ sendIO' = [sendIO EXCEPT ![s] = @ - 1] /\ recvIO' = recvIO
        /\ \/ pc' = [pc EXCEPT ![w] = "parse"] /\ ret' = ret
           \/ pc' = [pc EXCEPT ![w] = "sent"] /\ ret' = ret
           \/ pc' = [pc EXCEPT ![w] = "close"] /\ ret' = [ret EXCEPT ![w] = "release"]
  BY DEF DequeueRecv, DequeueSend
<1>2. UNCHANGED <<closeFlag, generation, received, sendQ, sendPkts, sidGen, ioRefCount,
                  indexPool>>
  BY DEF DequeueRecv, DequeueSend
<1>3. /\ DOMAIN pc = Threads /\ DOMAIN cur = Threads /\ DOMAIN ret = Threads
      /\ pc = [t \in Threads |-> pc[t]] /\ cur = [t \in Threads |-> cur[t]]
      /\ ret = [t \in Threads |-> ret[t]]
  BY DEF TypeOK
<1>4. Move(w) /\ cur'[w] = s
  BY <1>0, <1>1, <1>3 DEF Move
<1>5. /\ pc'[w] \in {"parse", "sent", "close"}
      /\ pc'[w] = "close" => ret'[w] = "release"
  BY <1>0, <1>1, <1>3
<1>6. /\ pc'[w] \in LabelsOf(w) \ WindowLabels
      /\ pc'[w] \in CloseLabels => ret'[w] \in ReturnsOf(w)
  BY <1>0, <1>5 DEF LabelsOf, WindowLabels, CloseLabels, ClosingLabels, ReturnsOf
<1>7. \A r \in Slots : recvIO'[r] <= recvIO[r] /\ sendIO'[r] <= sendIO[r]
  <2> TAKE r \in Slots
  <2>1. recvIO[r] \in Int /\ sendIO[r] \in Int
    BY <1>0
  <2>2. /\ recvIO'[r] \in {recvIO[r], recvIO[r] - 1}
        /\ sendIO'[r] \in {sendIO[r], sendIO[r] - 1}
    BY <1>0, <1>1
  <2> QED
    BY <2>1, <2>2
<1> QED
  BY <1>0, <1>1, <1>2, <1>4, <1>6, <1>7 DEF Enter

(* SendPacket and Disconnect enter the slot of a session heard from.       *)
LEMMA UpdateEnter ==
  ASSUME TypeOK, SendPacketCheckGeneration \/ Disconnect
  PROVE  Enter(Updater)
<1> USE DEF lifeVars, queueVars, ioVars, contentVars
<1>0. /\ Updater \in Threads /\ Updater # Acceptor /\ Updater \notin Workers
      /\ Updater # Main
  BY ThreadNames, ThreadsAssumption
<1>1. PICK s \in Slots :
        /\ HeardFrom(s) /\ cur' = [cur EXCEPT ![Updater] = s]
        /\ sidGen' = generation[s]
  BY DEF SendPacketCheckGeneration, Disconnect
<1>2. /\ pc'[Updater] \in {"checkFlag", "close"}
      /\ pc'[Updater] = "close" => ret'[Updater] = "idle"
      /\ Move(Updater)
  BY <1>0 DEF SendPacketCheckGeneration, Disconnect, TypeOK, Move
<1>3. cur'[Updater] = s
  BY <1>0, <1>1 DEF TypeOK
<1>4. UNCHANGED <<closeFlag, generation, received, recvIO, sendIO, sendQ, sendPkts,
                  ioRefCount, indexPool>>
  BY DEF SendPacketCheckGeneration, Disconnect
<1>5. \A r \in Slots : recvIO'[r] <= recvIO[r] /\ sendIO'[r] <= sendIO[r]
  <2>1. \A r \in Slots : recvIO[r] \in Nat /\ sendIO[r] \in Nat
    BY DEF TypeOK
  <2> QED
    BY <1>4, <2>1
<1>6. /\ pc'[Updater] \in LabelsOf(Updater) \ WindowLabels
      /\ pc'[Updater] \in CloseLabels => ret'[Updater] \in ReturnsOf(Updater)
  BY <1>0, <1>2 DEF LabelsOf, WindowLabels, CloseLabels, ClosingLabels, ReturnsOf
<1>7. /\ generation[cur'[Updater]] # 0
      /\ received[cur'[Updater]] = generation[cur'[Updater]]
  BY <1>1, <1>3 DEF HeardFrom
<1> QED
  BY <1>0, <1>1, <1>2, <1>3, <1>4, <1>5, <1>6, <1>7 DEF Enter

(* Stop's call of CloseSession enters a slot, used or not.                 *)
LEMMA VisitEnter ==
  ASSUME TypeOK, PlaceInv, NEW s \in Slots, Visit(s)
  PROVE  Enter(Main)
<1> USE DEF lifeVars, queueVars, ioVars, contentVars
<1>0. /\ Main \in Threads /\ Main # Acceptor /\ Main # Updater /\ Main \notin Workers
  BY ThreadNames
<1>1. /\ Move(Main) /\ pc'[Main] = "close" /\ ret'[Main] = "idle"
  BY <1>0 DEF Visit, PlaceInv, TypeOK, Move
<1>2. /\ pc'[Main] \in LabelsOf(Main) \ WindowLabels
      /\ ret'[Main] \in ReturnsOf(Main)
  BY <1>0, <1>1 DEF LabelsOf, WindowLabels, CloseLabels, ReturnsOf
<1>3. \A r \in Slots : recvIO'[r] <= recvIO[r] /\ sendIO'[r] <= sendIO[r]
  <2>1. \A r \in Slots : recvIO[r] \in Nat /\ sendIO[r] \in Nat
    BY DEF TypeOK
  <2> QED
    BY <2>1 DEF Visit
<1> QED
  BY <1>0, <1>1, <1>2, <1>3 DEF Enter, Visit

(* Every step is an allocation, the start of a handler, or a step in one. *)
LEMMA NextShape ==
  ASSUME TypeOK, TypeOK', PlaceInv, ThreadStep
  PROVE  \E t \in Threads \ {Main} : Enter(t) \/ (Walk(t) /\ Touch(t))
<1>1. CASE AcceptStep
  BY <1>1, AcceptWalk, ThreadNames
<1>2. CASE \E w \in Workers : DequeueRecv(w) \/ DequeueSend(w) \/ WorkerStep(w)
  <2>1. PICK w \in Workers : DequeueRecv(w) \/ DequeueSend(w) \/ WorkerStep(w)
    BY <1>2
  <2>2. w \in Threads \ {Main}
    BY ThreadNames
  <2> QED
    BY <2>1, <2>2, DequeueEnter, WorkerWalk
<1>3. CASE SendPacketCheckGeneration \/ Disconnect
  BY <1>3, UpdateEnter, ThreadNames
<1>4. CASE UpdateStep
  BY <1>4, UpdateWalk, ThreadNames
<1> QED
  BY <1>1, <1>2, <1>3, <1>4 DEF ThreadStep

(* The same when Stop may be closing sessions. *)
LEMMA StepShape ==
  ASSUME TypeOK, TypeOK', PlaceInv, ServerStep
  PROVE  \/ AllocSession /\ pc[Main] = "idle"
         \/ \E t \in Threads : Enter(t) \/ (Walk(t) /\ Touch(t))
<1>1. CASE ThreadStep
  BY <1>1, NextShape
<1>2. CASE \E s \in Slots : Visit(s)
  BY <1>2, VisitEnter, ThreadNames
<1>3. CASE CloseSession(Main)
  BY <1>3, CloseSessionWalk, ThreadNames
<1> QED
  BY <1>1, <1>2, <1>3 DEF ServerStep

(* AllocSession takes a free slot c and starts a new session of it. *)
Allocate(c) ==
  /\ InPool(c) /\ Move(Acceptor)
  /\ pc[Acceptor] = "idle" /\ pc'[Acceptor] = "associate" /\ cur'[Acceptor] = c
  /\ UNCHANGED <<received, recvIO, sendIO, sidGen>>
  /\ generation'[c] = generation[c] + 1 /\ closeFlag'[c] = 0
  /\ sendQ'[c] = <<>> /\ sendPkts'[c] = <<>>
  /\ \A s \in Slots \ {c} :
       /\ generation'[s] = generation[s] /\ closeFlag'[s] = closeFlag[s]
       /\ sendQ'[s] = sendQ[s] /\ sendPkts'[s] = sendPkts[s]
       /\ ioRefCount'[s] = ioRefCount[s]

(* AllocSession allocates the slot it pops.                                *)
LEMMA AllocShape ==
  ASSUME TypeOK, AllocSession
  PROVE  \E c \in Slots : Allocate(c)
<1> DEFINE c == indexPool[Len(indexPool)]
<1>1. indexPool \in Seq(Slots) /\ indexPool # <<>>
  BY DEF TypeOK, AllocSession
<1>2. Len(indexPool) \in Nat /\ Len(indexPool) > 0
  BY <1>1
<1>3. c \in Slots /\ InPool(c)
  BY <1>1, <1>2 DEF InPool
<1>4. /\ InitSession(c) /\ cur' = [cur EXCEPT ![Acceptor] = c]
      /\ pc[Acceptor] = "idle" /\ pc' = [pc EXCEPT ![Acceptor] = "associate"]
      /\ UNCHANGED <<ret, sidGen, received, recvIO, sendIO>>
  BY DEF AllocSession, ioVars, contentVars
<1> HIDE DEF c
<1>5. Move(Acceptor) /\ pc'[Acceptor] = "associate" /\ cur'[Acceptor] = c
  BY <1>4, ThreadNames DEF TypeOK, Move
<1>6. /\ generation'[c] = generation[c] + 1 /\ closeFlag'[c] = 0
      /\ sendQ'[c] = <<>> /\ sendPkts'[c] = <<>>
  BY <1>3, <1>4 DEF InitSession, TypeOK
<1>7. \A s \in Slots \ {c} :
        /\ generation'[s] = generation[s] /\ closeFlag'[s] = closeFlag[s]
        /\ sendQ'[s] = sendQ[s] /\ sendPkts'[s] = sendPkts[s]
        /\ ioRefCount'[s] = ioRefCount[s]
  BY <1>3, <1>4 DEF InitSession, TypeOK
<1>8. Allocate(c)
  BY <1>3, <1>4, <1>5, <1>6, <1>7 DEF Allocate
<1> QED
  BY <1>3, <1>8

(* The slot that is allocated is worked on by no worker and, the Update    *)
(* thread being timely, not by the Update thread either.                   *)
LEMMA AllocatedIsUnused ==
  ASSUME IInv, Timely, NEW c \in Slots, Allocate(c), pc[Main] = "idle",
         NEW t \in Threads \ {Acceptor}, pc[t] # "idle"
  PROVE  cur[t] # c
<1>1. CASE t \in Workers
  <2>1. Completing(t)
    BY <1>1 DEF Completing
  <2> QED
    BY <2>1, FreeSlot DEF IInv, Allocate
<1>2. CASE t = Updater
  <2>1. generation'[cur[t]] = generation[cur[t]]
    BY <1>2 DEF Timely
  <2>2. generation'[c] = generation[c] + 1 /\ generation[c] \in Nat
    BY DEF Allocate, IInv, TypeOK
  <2>3. generation[c] + 1 # generation[c]
    BY <2>2
  <2> QED
    BY <2>1, <2>2, <2>3
<1> QED
  BY <1>1, <1>2 DEF Threads

(* PlaceInv is kept by every step but the allocation.                      *)
LEMMA PlaceNext ==
  ASSUME PlaceInv, NEW t \in Threads, Enter(t) \/ Walk(t)
  PROVE  PlaceInv'
<1>1. /\ Move(t) /\ pc'[t] \in LabelsOf(t)
      /\ pc'[t] \in CloseLabels => ret'[t] \in ReturnsOf(t)
      /\ t = Main => ret'[t] = "idle"
  BY DEF Enter, Walk
<1>2. \A u \in Threads \ {t} : pc'[u] = pc[u] /\ ret'[u] = ret[u]
  BY <1>1 DEF Move
<1> QED
  BY <1>1, <1>2 DEF PlaceInv

(* PlaceInv is kept by the allocation of a slot.                           *)
LEMMA PlaceAlloc ==
  ASSUME PlaceInv, NEW c \in Slots, Allocate(c)
  PROVE  PlaceInv'
<1>1. Move(Acceptor) /\ pc'[Acceptor] = "associate"
  BY DEF Allocate
<1>2. "associate" \in LabelsOf(Acceptor) /\ "associate" \notin CloseLabels
  BY DEF LabelsOf, CloseLabels, ClosingLabels
<1>3. \A u \in Threads \ {Acceptor} : pc'[u] = pc[u] /\ ret'[u] = ret[u]
  BY <1>1 DEF Move
<1> QED
  BY <1>1, <1>2, <1>3, ThreadNames DEF PlaceInv

(* UsedInv is kept by every step but the allocation.                       *)
LEMMA UsedNext ==
  ASSUME TypeOK, TypeOK', UsedInv, NEW t \in Threads,
         Enter(t) \/ (Walk(t) /\ Touch(t))
  PROVE  UsedInv'
<1>1. generation' = generation /\ Move(t)
  BY DEF Enter, Walk, Touch
<1>2. /\ recvIO \in [Slots -> Nat] /\ sendIO \in [Slots -> Nat]
      /\ recvIO' \in [Slots -> Nat] /\ sendIO' \in [Slots -> Nat]
      /\ cur[t] \in Slots /\ cur'[t] \in Slots
  BY DEF TypeOK
<1>3. \A u \in Threads \ {Main, t} : pc'[u] # "idle" => generation'[cur'[u]] # 0
  BY <1>1 DEF UsedInv, Move
<1>4. CASE Enter(t)
  <2>1. t # Main => generation'[cur'[t]] # 0
    BY <1>1, <1>2, <1>4 DEF Enter, UsedInv, Threads
  <2>2. \A s \in Slots : recvIO'[s] > 0 \/ sendIO'[s] > 0
                           => recvIO[s] > 0 \/ sendIO[s] > 0
    <3> TAKE s \in Slots
    <3>1. /\ recvIO'[s] <= recvIO[s] /\ sendIO'[s] <= sendIO[s]
          /\ recvIO'[s] \in Nat /\ sendIO'[s] \in Nat
          /\ recvIO[s] \in Nat /\ sendIO[s] \in Nat
      BY <1>2, <1>4 DEF Enter
    <3> QED
      BY <3>1
  <2>3. ioRefCount' = ioRefCount
    BY <1>4 DEF Enter
  <2> QED
    BY <1>1, <1>3, <2>1, <2>2, <2>3 DEF UsedInv
<1>5. CASE Walk(t) /\ Touch(t)
  <2>1. (t # Main => generation[cur[t]] # 0) /\ cur'[t] = cur[t]
    BY <1>5 DEF Walk, UsedInv
  <2>2. \A s \in Slots : recvIO'[s] > 0 \/ sendIO'[s] > 0 => generation[s] # 0
    <3>1. CASE generation[cur[t]] # 0
      <4>1. \A s \in Slots \ {cur[t]} : recvIO'[s] = recvIO[s] /\ sendIO'[s] = sendIO[s]
        BY <1>5 DEF Touch
      <4> QED
        BY <3>1, <4>1 DEF UsedInv
    <3>2. CASE t = Main
      <4>1. recvIO' = recvIO /\ sendIO' = sendIO
        BY <1>5, <3>2 DEF Touch
      <4> QED
        BY <4>1 DEF UsedInv
    <3> QED
      BY <2>1, <3>1, <3>2
  <2>3. \A s \in Slots : generation[s] = 0 => ioRefCount'[s] <= 0
    <3> SUFFICES ASSUME NEW s \in Slots, generation[s] = 0 PROVE ioRefCount'[s] <= 0
      OBVIOUS
    <3>1. ioRefCount \in [Slots -> Int] /\ ioRefCount[s] \in Int /\ ioRefCount[s] <= 0
      BY DEF TypeOK, UsedInv
    <3>2. ioRefCount'[s] \in {ioRefCount[s], ioRefCount[s] - 1}
      <4>1. CASE UNCHANGED ioRefCount
        BY <4>1
      <4>2. CASE t # Main /\ IOAddRef(cur[t])
        BY <2>1, <3>1, <4>2 DEF IOAddRef
      <4>3. CASE IORelease(cur[t])
        BY <1>2, <3>1, <4>3 DEF IORelease
      <4> QED
        BY <1>5, <4>1, <4>2, <4>3 DEF Touch
    <3> QED
      BY <3>1, <3>2
  <2> QED
    BY <1>1, <1>3, <2>1, <2>2, <2>3 DEF UsedInv
<1> QED
  BY <1>4, <1>5

(* UsedInv is kept by the allocation of a slot.                            *)
LEMMA UsedAlloc ==
  ASSUME TypeOK, UsedInv, NEW c \in Slots, Allocate(c)
  PROVE  UsedInv'
<1>1. generation'[c] # 0
  <2>1. generation[c] \in Nat /\ generation'[c] = generation[c] + 1
    BY DEF TypeOK, Allocate
  <2> QED
    BY <2>1
<1>2. \A s \in Slots : generation'[s] = generation[s] \/ generation'[s] # 0
  BY <1>1 DEF Allocate
<1>3. /\ Move(Acceptor) /\ cur'[Acceptor] = c /\ recvIO' = recvIO /\ sendIO' = sendIO
  BY DEF Allocate
<1>4. \A u \in Threads \ {Main, Acceptor} : pc'[u] # "idle" => generation'[cur'[u]] # 0
  <2> TAKE u \in Threads \ {Main, Acceptor}
  <2>1. pc'[u] = pc[u] /\ cur'[u] = cur[u] /\ cur[u] \in Slots
    BY <1>3 DEF Move, TypeOK
  <2> QED
    BY <1>2, <2>1 DEF UsedInv
<1>5. \A s \in Slots : generation'[s] = 0 => ioRefCount'[s] <= 0
  BY <1>1 DEF Allocate, UsedInv
<1> QED
  BY <1>1, <1>2, <1>3, <1>4, <1>5 DEF UsedInv

(* No count of a used slot is negative in the next state. *)
LEMMA CountNatNext ==
  ASSUME TypeOK', RefCounted', NEW s \in Slots, generation'[s] # 0
  PROVE  ioRefCount'[s] \in Nat
<1>1. /\ recvIO'[s] \in Nat /\ sendIO'[s] \in Nat /\ BaseRef(s)' \in {0, 1}
  BY DEF TypeOK, BaseRef
<1>2. IsFiniteSet(Completers(s)') /\ IsFiniteSet(Posters(s)')
  BY ThreadNames, FS_Subset DEF Completers, Posters
<1>3. Cardinality(Completers(s)') \in Nat /\ Cardinality(Posters(s)') \in Nat
  BY <1>2, FS_CardinalityType
<1>4. ioRefCount'[s] = BaseRef(s)' + recvIO'[s] + sendIO'[s]
                       + Cardinality(Completers(s)') + Cardinality(Posters(s)')
  BY DEF RefCounted
<1> QED
  BY <1>1, <1>3, <1>4

(* AcceptInv is kept by every step but the allocation.                     *)
LEMMA AcceptNext ==
  ASSUME IInv, TypeOK', NEW t \in Threads, Enter(t) \/ (Walk(t) /\ Touch(t))
  PROVE  AcceptInv'
<1> DEFINE a == cur[Acceptor]
<1>0. TypeOK /\ AcceptInv /\ a \in Slots /\ Acceptor \in Threads
  BY ThreadNames DEF IInv, TypeOK
<1>1. SUFFICES ASSUME pc'[Acceptor] \in SoleLabels
               PROVE  /\ cur'[Acceptor] = a
                      /\ closeFlag'[a] = 0 /\ recvIO'[a] = 0 /\ sendIO'[a] = 0
                      /\ received'[a] # generation'[a]
                      /\ \A u \in Threads \ {Acceptor} : pc'[u] # "idle" => cur'[u] # a
  BY DEF AcceptInv
<1>2. Move(t) /\ generation' = generation
  BY DEF Enter, Walk, Touch
<1>3. CASE t = Acceptor
  <2>1. Walk(t) /\ Touch(t)
    BY <1>3 DEF Enter
  <2>2. pc[Acceptor] \in SoleLabels /\ cur' = cur
    BY <1>1, <1>3, <2>1 DEF Walk
  <2>3. UNCHANGED <<closeFlag, received, recvIO, sendIO>>
    BY <1>3, <2>1, <2>2 DEF Touch
  <2>4. \A u \in Threads \ {Acceptor} : pc'[u] = pc[u] /\ cur'[u] = cur[u]
    BY <1>2, <1>3 DEF Move
  <2> QED
    BY <1>0, <1>2, <2>2, <2>3, <2>4 DEF AcceptInv
<1>4. CASE t # Acceptor
  <2>1. pc'[Acceptor] = pc[Acceptor] /\ cur'[Acceptor] = a
    BY <1>0, <1>2, <1>4 DEF Move
  <2>2. /\ closeFlag[a] = 0 /\ recvIO[a] = 0 /\ sendIO[a] = 0
        /\ received[a] # generation[a]
        /\ \A u \in Threads \ {Acceptor} : pc[u] # "idle" => cur[u] # a
    BY <1>0, <1>1, <2>1 DEF AcceptInv
  <2>3. \A u \in Threads \ {Acceptor, t} : pc'[u] = pc[u] /\ cur'[u] = cur[u]
    BY <1>2 DEF Move
  <2>4. CASE Enter(t)
    <3>1. cur'[t] # a
      <4>1. CASE t \in Workers
        BY <1>0, <2>2, <2>4, <4>1 DEF Enter
      <4>2. CASE t = Updater
        BY <2>2, <2>4, <4>2 DEF Enter
      <4>3. CASE t = Main
        BY <1>1, <2>1, <2>4, <4>3 DEF Enter, SoleLabels
      <4> QED
        BY <1>4, <4>1, <4>2, <4>3 DEF Threads
    <3>2. recvIO'[a] = 0 /\ sendIO'[a] = 0
      <4>1. /\ recvIO'[a] <= recvIO[a] /\ sendIO'[a] <= sendIO[a]
            /\ recvIO'[a] \in Nat /\ sendIO'[a] \in Nat
        BY <1>0, <2>4 DEF Enter, TypeOK
      <4> QED
        BY <2>2, <4>1
    <3>3. closeFlag' = closeFlag /\ received' = received
      BY <2>4 DEF Enter
    <3> QED
      BY <1>2, <2>1, <2>2, <2>3, <3>1, <3>2, <3>3
  <2>5. CASE Walk(t) /\ Touch(t)
    <3>1. cur'[t] = cur[t] /\ cur[t] # a
      BY <1>4, <2>2, <2>5 DEF Walk
    <3>2. /\ closeFlag'[a] = closeFlag[a] /\ received'[a] = received[a]
          /\ recvIO'[a] = recvIO[a] /\ sendIO'[a] = sendIO[a]
      BY <1>0, <2>5, <3>1 DEF Touch
    <3> QED
      BY <1>2, <2>1, <2>2, <2>3, <3>1, <3>2
  <2> QED
    BY <2>4, <2>5
<1> QED
  BY <1>3, <1>4

(* AcceptInv is kept by the allocation of a slot.                          *)
LEMMA AcceptAlloc ==
  ASSUME IInv, Timely, NEW c \in Slots, Allocate(c), pc[Main] = "idle"
  PROVE  AcceptInv'
<1>0. TypeOK /\ RefInv /\ UsedInv /\ Acceptor \in Threads
  BY ThreadNames DEF IInv
<1>1. cur'[Acceptor] = c /\ closeFlag'[c] = 0 /\ recvIO' = recvIO /\ sendIO' = sendIO
  BY DEF Allocate
<1>2. recvIO[c] = 0 /\ sendIO[c] = 0
  BY <1>0, FreeSlot DEF Allocate
<1>3. received'[c] # generation'[c]
  <2>1. /\ received'[c] = received[c] /\ generation'[c] = generation[c] + 1
        /\ received[c] <= generation[c]
        /\ received[c] \in Nat /\ generation[c] \in Nat
    BY DEF Allocate, IInv, ReceivedInv, TypeOK
  <2> QED
    BY <2>1
<1>4. \A u \in Threads \ {Acceptor} : pc'[u] # "idle" => cur'[u] # c
  <2> TAKE u \in Threads \ {Acceptor}
  <2>1. pc'[u] = pc[u] /\ cur'[u] = cur[u]
    BY DEF Allocate, Move
  <2> QED
    BY <2>1, AllocatedIsUnused
<1> QED
  BY <1>1, <1>2, <1>3, <1>4 DEF AcceptInv

(* WindowInv is kept by every step but the allocation.                     *)
LEMMA WindowNext ==
  ASSUME IInv, TypeOK', RefInv', Timely, NEW t \in Threads,
         Enter(t) \/ (Walk(t) /\ Touch(t))
  PROVE  WindowInv'
<1>0. /\ TypeOK /\ RefCounted /\ WindowInv /\ Updater \in Threads \ {Main}
      /\ cur[Updater] \in Slots
  BY ThreadNames DEF IInv, RefInv, TypeOK
<1>1. Move(t) /\ generation' = generation
  BY DEF Enter, Walk, Touch
<1>2. pc'[Updater] # "idle" => sidGen' = generation'[cur'[Updater]]
  <2>1. CASE t # Updater
    <3>1. pc'[Updater] = pc[Updater] /\ cur'[Updater] = cur[Updater]
      BY <1>0, <1>1, <2>1 DEF Move
    <3>2. sidGen' = sidGen
      BY <2>1 DEF Enter, Walk
    <3> QED
      BY <1>0, <1>1, <3>1, <3>2 DEF WindowInv
  <2>2. CASE t = Updater /\ Enter(t)
    BY <1>1, <2>2 DEF Enter
  <2>3. CASE t = Updater /\ Walk(t)
    BY <1>0, <1>1, <2>3 DEF Walk, WindowInv
  <2> QED
    BY <2>1, <2>2, <2>3
<1>3. ASSUME pc'[Updater] \in WindowLabels
      PROVE  ioRefCount'[cur'[Updater]] > 0
  <2>1. cur'[Updater] = cur[Updater]
    BY <1>0, <1>1, <1>3 DEF Enter, Walk, Move
  <2>2. CASE pc[Updater] \in WindowLabels
    <3>1. ioRefCount[cur[Updater]] > 0
      BY <1>0, <2>2 DEF WindowInv
    <3>2. ioRefCount'[cur[Updater]] # 0
      BY <2>2, <3>1 DEF Timely
    <3>3. generation'[cur[Updater]] # 0
      BY <1>0, <1>1, <2>2 DEF IInv, UsedInv, WindowLabels
    <3>4. ioRefCount'[cur[Updater]] \in Nat
      BY <1>0, <3>3, CountNatNext DEF RefInv
    <3> QED
      BY <2>1, <3>2, <3>4
  <2>3. CASE pc[Updater] \notin WindowLabels
    <3>1. /\ pc[Updater] = "checkFlag" /\ closeFlag[cur[Updater]] = 0
          /\ ioRefCount' = ioRefCount
      BY <1>0, <1>1, <1>3, <2>3 DEF Enter, Walk, Move
    <3>2. generation[cur[Updater]] # 0
      BY <1>0, <3>1 DEF IInv, UsedInv
    <3>3. ioRefCount[cur[Updater]] > 0
      BY <1>0, <3>1, <3>2, CountPositive
    <3> QED
      BY <2>1, <3>1, <3>3
  <2> QED
    BY <2>2, <2>3
<1> QED
  BY <1>2, <1>3 DEF WindowInv

(* WindowInv is kept by the allocation of a slot.                          *)
LEMMA WindowAlloc ==
  ASSUME IInv, TypeOK', RefInv', Timely, NEW c \in Slots, Allocate(c)
  PROVE  WindowInv'
<1>0. /\ TypeOK /\ WindowInv /\ Updater \in Threads \ {Main} /\ Updater # Acceptor
      /\ cur[Updater] \in Slots
  BY ThreadNames DEF IInv, TypeOK
<1>1. /\ pc'[Updater] = pc[Updater] /\ cur'[Updater] = cur[Updater]
      /\ sidGen' = sidGen
  BY <1>0 DEF Allocate, Move
<1>2. pc[Updater] # "idle" => generation'[cur[Updater]] = generation[cur[Updater]]
  BY DEF Timely
<1>3. pc[Updater] \in WindowLabels => ioRefCount'[cur[Updater]] # 0
  BY <1>0 DEF Timely, WindowInv
<1>4. pc[Updater] # "idle" => ioRefCount'[cur[Updater]] \in Nat
  BY <1>0, <1>2, CountNatNext DEF RefInv, IInv, UsedInv
<1>5. pc'[Updater] \in WindowLabels => ioRefCount'[cur'[Updater]] > 0
  BY <1>1, <1>3, <1>4 DEF WindowLabels
<1> QED
  BY <1>0, <1>1, <1>2, <1>5 DEF WindowInv

(* ReceivedInv is kept by every step.                                      *)
LEMMA ReceivedNext ==
  ASSUME IInv, TypeOK', \/ \E t \in Threads : Enter(t) \/ Touch(t)
                        \/ \E c \in Slots : Allocate(c)
  PROVE  ReceivedInv'
<1>0. \A s \in Slots : /\ received[s] <= generation[s]
                       /\ received[s] \in Nat /\ generation[s] \in Nat
  BY DEF IInv, ReceivedInv, TypeOK
<1>1. ASSUME NEW t \in Threads, Enter(t) \/ Touch(t), NEW s \in Slots
      PROVE  generation'[s] = generation[s] /\ received'[s] \in {received[s], generation[s]}
  BY <1>1 DEF Enter, Touch
<1>2. ASSUME NEW c \in Slots, Allocate(c), NEW s \in Slots
      PROVE  generation'[s] \in {generation[s], generation[s] + 1} /\ received'[s] = received[s]
  BY <1>2 DEF Allocate
<1>3. ASSUME NEW s \in Slots
      PROVE  received'[s] <= generation'[s]
  BY <1>0, <1>1, <1>2
<1> QED
  BY <1>3 DEF ReceivedInv

(* PacketsInv is kept by every step but the allocation.                    *)
LEMMA PacketsNext ==
  ASSUME IInv, TypeOK', NEW t \in Threads, Enter(t) \/ (Walk(t) /\ Touch(t))
  PROVE  PacketsInv'
<1>0. TypeOK /\ PacketsInv /\ WindowInv /\ cur[t] \in Slots
  BY DEF IInv, TypeOK
<1>1. generation' = generation
  BY DEF Enter, Touch
<1>2. CASE Enter(t)
  BY <1>0, <1>1, <1>2 DEF Enter, PacketsInv
<1>3. CASE Walk(t) /\ Touch(t)
  <2> DEFINE c == cur[t]
  <2>1. \A s \in Slots \ {c} : sendQ'[s] = sendQ[s] /\ sendPkts'[s] = sendPkts[s]
    BY <1>3 DEF Touch
  <2>2. \A i \in 1 .. Len(sendQ'[c]) : sendQ'[c][i] = generation[c]
    <3>1. CASE sendQ'[c] \in {sendQ[c], <<>>}
      BY <1>0, <3>1 DEF PacketsInv
    <3>2. CASE t = Updater /\ sendQ'[c] = Append(sendQ[c], sidGen)
      <4>1. sidGen = generation[c] /\ sendQ[c] \in Seq(Nat) /\ sidGen \in Nat
        BY <1>0, <1>3, <3>2 DEF WindowInv, Walk, TypeOK
      <4>2. /\ Len(sendQ'[c]) = Len(sendQ[c]) + 1 /\ Len(sendQ[c]) \in Nat
            /\ \A i \in 1 .. Len(sendQ[c]) : sendQ'[c][i] = sendQ[c][i]
            /\ sendQ'[c][Len(sendQ[c]) + 1] = sidGen
        BY <3>2, <4>1, AppendProperties
      <4>3. \A i \in 1 .. Len(sendQ'[c]) :
              i \in 1 .. Len(sendQ[c]) \/ i = Len(sendQ[c]) + 1
        BY <4>2
      <4> QED
        BY <1>0, <4>1, <4>2, <4>3 DEF PacketsInv
    <3> QED
      BY <1>3, <3>1, <3>2 DEF Touch
  <2>3. \A i \in 1 .. Len(sendPkts'[c]) : sendPkts'[c][i] = generation[c]
    <3>1. sendPkts'[c] \in {sendPkts[c], sendQ[c], <<>>}
      BY <1>3 DEF Touch
    <3> QED
      BY <1>0, <3>1 DEF PacketsInv
  <2> QED
    BY <1>0, <1>1, <2>1, <2>2, <2>3 DEF PacketsInv
<1> QED
  BY <1>2, <1>3

(* PacketsInv is kept by the allocation of a slot.                         *)
LEMMA PacketsAlloc ==
  ASSUME PacketsInv, NEW c \in Slots, Allocate(c)
  PROVE  PacketsInv'
BY DEF PacketsInv, Allocate
-----------------------------------------------------------------------------
(* The invariant holds initially and every timely step preserves it. *)

(* The invariant holds when the server has started.                        *)
LEMMA InitInvariant == Init => IInv
<1> SUFFICES ASSUME Init PROVE IInv
  OBVIOUS
<1>0. TypeOK
  BY InitType
<1>1. \A t \in Threads : pc[t] = "idle"
  BY DEF Init
<1>2. PlaceInv /\ UsedInv /\ AcceptInv /\ WindowInv
  <2>1. \A s \in Slots : recvIO[s] = 0 /\ sendIO[s] = 0 /\ ioRefCount[s] = 0
    BY DEF Init
  <2>2. PlaceInv
    BY <1>1 DEF Init, PlaceInv, LabelsOf, CloseLabels, ClosingLabels
  <2>3. UsedInv
    BY <1>1, <2>1 DEF UsedInv
  <2>4. AcceptInv /\ WindowInv
    BY <1>1, ThreadNames DEF AcceptInv, WindowInv, SoleLabels, WindowLabels
  <2> QED
    BY <2>2, <2>3, <2>4
<1>3. ReceivedInv
  BY DEF Init, ReceivedInv
<1>4. PacketsInv
  BY DEF Init, PacketsInv
<1>5. \A s \in Slots : Closers(s) = {} /\ Completers(s) = {} /\ Posters(s) = {}
  BY <1>1, ThreadNames
     DEF Closers, Completers, Posters, Posting, CloseLabels, ClosingLabels
<1>6. OneCloser
  BY <1>5 DEF OneCloser
<1>7. RefCounted
  <2> SUFFICES ASSUME NEW s \in Slots
               PROVE  ioRefCount[s] = BaseRef(s) + recvIO[s] + sendIO[s]
                        + Cardinality(Completers(s)) + Cardinality(Posters(s))
    BY DEF RefCounted
  <2>1. Cardinality(Completers(s)) = 0 /\ Cardinality(Posters(s)) = 0
    BY <1>5, FS_EmptySet
  <2>2. ioRefCount[s] = 0 /\ recvIO[s] = 0 /\ sendIO[s] = 0 /\ generation[s] = 0
    BY DEF Init
  <2>3. BaseRef(s) = 0
    BY <1>5, <2>2 DEF BaseRef
  <2> QED
    BY <2>1, <2>2, <2>3
<1>8. Pooled
  <2>1. /\ indexPool = [i \in 1 .. MaxSession |-> i - 1]
        /\ Len(indexPool) = MaxSession /\ MaxSession \in Nat
    BY MaxSessionAssumption DEF Init
  <2>2. PoolDistinct
    BY <2>1 DEF PoolDistinct
  <2>3. \A s \in Slots : InPool(s)
    <3> TAKE s \in Slots
    <3>1. s + 1 \in 1 .. Len(indexPool) /\ indexPool[s + 1] = s
      BY <2>1 DEF Slots
    <3> QED
      BY <3>1 DEF InPool
  <2>4. \A s \in Slots : ioRefCount[s] = 0
    BY DEF Init
  <2> QED
    BY <2>2, <2>3, <2>4 DEF Pooled
<1> QED
  BY <1>0, <1>2, <1>3, <1>4, <1>6, <1>7, <1>8 DEF IInv, RefInv

(* Every step keeps the invariant, whether Stop has begun or not.          *)
LEMMA NextInvariant ==
  ASSUME IInv, [ServerNext]_vars
  PROVE  IInv'
<1>1. CASE ServerNext
  <2>0. TypeOK /\ PlaceInv /\ UsedInv /\ PacketsInv /\ ServerStep /\ Timely
    BY <1>1 DEF IInv, ServerNext
  <2>1. TypeOK'
    BY <2>0, ServerType
  <2>2. RefInv'
    BY <2>0, <2>1, NextRef
  <2>3. CASE AllocSession /\ pc[Main] = "idle"
    <3>1. PICK c \in Slots : Allocate(c)
      BY <2>0, <2>3, AllocShape
    <3>2. PlaceInv' /\ UsedInv' /\ PacketsInv'
      BY <2>0, <3>1, PlaceAlloc, UsedAlloc, PacketsAlloc
    <3>3. AcceptInv' /\ WindowInv'
      BY <2>0, <2>1, <2>2, <2>3, <3>1, AcceptAlloc, WindowAlloc
    <3>4. ReceivedInv'
      BY <2>1, <3>1, ReceivedNext
    <3> QED
      BY <2>1, <2>2, <3>2, <3>3, <3>4 DEF IInv
  <2>4. CASE \E t \in Threads : Enter(t) \/ (Walk(t) /\ Touch(t))
    <3>1. PICK t \in Threads : Enter(t) \/ (Walk(t) /\ Touch(t))
      BY <2>4
    <3>2. PlaceInv' /\ UsedInv'
      BY <2>0, <2>1, <3>1, PlaceNext, UsedNext
    <3>3. AcceptInv' /\ PacketsInv'
      BY <2>1, <3>1, AcceptNext, PacketsNext
    <3>4. WindowInv'
      BY <2>0, <2>1, <2>2, <3>1, WindowNext
    <3>5. ReceivedInv'
      BY <2>1, <3>1, ReceivedNext
    <3> QED
      BY <2>1, <2>2, <3>2, <3>3, <3>4, <3>5 DEF IInv
  <2> QED
    BY <2>0, <2>1, <2>3, <2>4, StepShape
<1>2. CASE UNCHANGED vars
  <2>1. TypeOK' /\ PlaceInv' /\ UsedInv' /\ AcceptInv' /\ WindowInv'
    BY <1>2 DEF IInv, vars, TypeOK, PlaceInv, UsedInv, AcceptInv, WindowInv
  <2>2. ReceivedInv' /\ PacketsInv'
    BY <1>2 DEF IInv, vars, ReceivedInv, PacketsInv
  <2>3. OneCloser'
    BY <1>2 DEF IInv, vars, RefInv, OneCloser, Closers
  <2>4. RefCounted'
    BY <1>2 DEF IInv, vars, RefInv, RefCounted, BaseRef, Closers, Completers,
                Posters, Posting
  <2>5. Pooled'
    BY <1>2 DEF IInv, vars, RefInv, Pooled, PoolDistinct, InPool
  <2> QED
    BY <2>1, <2>2, <2>3, <2>4, <2>5 DEF IInv, RefInv
<1> QED
  BY <1>1, <1>2

-----------------------------------------------------------------------------
(* As long as the process does not stop, the main thread stays out of the  *)
(* engine and a slot that never had a session waits in the pool.           *)
UnusedInv ==
  \A s \in Slots : generation[s] = 0 => ioRefCount[s] = 0 /\ InPool(s)

RunInv == IInv /\ pc[Main] = "idle" /\ UnusedInv

(* The engine's own steps keep the slots without a session in the pool.    *)
LEMMA UnusedNext ==
  ASSUME RunInv, TypeOK', Next
  PROVE  pc'[Main] = "idle" /\ UnusedInv'
<1>0. /\ TypeOK /\ PlaceInv /\ UsedInv /\ UnusedInv /\ pc[Main] = "idle"
      /\ Main \in Threads /\ Main # Acceptor /\ (AllocSession \/ ThreadStep)
  BY ThreadNames DEF RunInv, IInv, Next, ThreadStep
<1>1. CASE AllocSession
  <2> DEFINE c == indexPool[Len(indexPool)]
  <2>1. indexPool \in Seq(Slots) /\ indexPool # <<>>
    BY <1>0, <1>1 DEF TypeOK, AllocSession
  <2>2. c \in Slots
    BY <2>1
  <2>3. /\ pc' = [pc EXCEPT ![Acceptor] = "associate"]
        /\ generation' = [generation EXCEPT ![c] = @ + 1]
        /\ ioRefCount' = [ioRefCount EXCEPT ![c] = 1]
    BY <1>1 DEF AllocSession, InitSession
  <2>4. \A s \in Slots : InPool(s)' <=> InPool(s) /\ s # c
    BY <1>0, <1>1, PoolPopped DEF RunInv, IInv, RefInv, Pooled
  <2> HIDE DEF c
  <2>5. pc'[Main] = "idle"
    BY <1>0, <2>3 DEF TypeOK
  <2>6. ASSUME NEW s \in Slots, generation'[s] = 0
        PROVE  ioRefCount'[s] = 0 /\ InPool(s)'
    <3>1. generation'[c] = generation[c] + 1 /\ generation[c] \in Nat
      BY <1>0, <2>2, <2>3 DEF TypeOK
    <3>2. s # c
      BY <2>6, <3>1
    <3>3. generation'[s] = generation[s] /\ ioRefCount'[s] = ioRefCount[s]
      BY <1>0, <2>3, <3>2 DEF TypeOK
    <3> QED
      BY <1>0, <2>4, <2>6, <3>2, <3>3 DEF UnusedInv
  <2> QED
    BY <2>5, <2>6 DEF UnusedInv
<1>2. ASSUME NEW t \in Threads \ {Main}, Enter(t) \/ (Walk(t) /\ Touch(t))
      PROVE  pc'[Main] = "idle" /\ UnusedInv'
  <2>1. Move(t) /\ generation' = generation
    BY <1>2 DEF Enter, Walk, Touch
  <2>2. pc'[Main] = "idle"
    BY <1>0, <2>1 DEF Move
  <2>3. CASE Enter(t)
    BY <1>0, <2>1, <2>2, <2>3 DEF Enter, UnusedInv, InPool
  <2>4. CASE Walk(t) /\ Touch(t)
    <3> SUFFICES ASSUME NEW s \in Slots, generation[s] = 0
                 PROVE  ioRefCount'[s] = 0 /\ InPool(s)'
      BY <2>1, <2>2 DEF UnusedInv
    <3>1. ioRefCount[s] = 0 /\ InPool(s) /\ s # cur[t] /\ cur[t] \in Slots
      BY <1>0, <1>2, <2>4 DEF UnusedInv, UsedInv, Walk, TypeOK
    <3>2. ioRefCount'[s] = 0
      BY <1>0, <2>4, <3>1 DEF Touch, IOAddRef, IORelease, TypeOK
    <3>3. CASE indexPool' = indexPool
      BY <3>1, <3>2, <3>3 DEF InPool
    <3>4. CASE indexPool' = Append(indexPool, cur[t])
      <4>1. PICK i \in 1 .. Len(indexPool) : indexPool[i] = s
        BY <3>1 DEF InPool
      <4>2. /\ Len(indexPool') = Len(indexPool) + 1 /\ Len(indexPool) \in Nat
            /\ indexPool'[i] = indexPool[i]
        BY <1>0, <3>1, <3>4, AppendProperties DEF TypeOK
      <4>3. i \in 1 .. Len(indexPool')
        BY <4>2
      <4> QED
        BY <3>2, <4>1, <4>2, <4>3 DEF InPool
    <3> QED
      BY <2>4, <3>3, <3>4 DEF Touch, IORelease
  <2> QED
    BY <1>2, <2>3, <2>4
<1> QED
  BY <1>0, <1>1, <1>2, NextShape

(* Every step of TimelySpec keeps the invariant.                           *)
LEMMA NextRunInv ==
  ASSUME RunInv, [TimelyNext]_vars
  PROVE  RunInv'
<1>1. IInv'
  BY NextInvariant DEF RunInv, TimelyNext, Next, ServerNext, ServerStep, ThreadStep
<1>2. CASE TimelyNext
  <2>1. TypeOK'
    BY <1>1 DEF IInv
  <2> QED
    BY <1>1, <1>2, <2>1, UnusedNext DEF RunInv, TimelyNext
<1>3. CASE UNCHANGED vars
  BY <1>1, <1>3 DEF RunInv, UnusedInv, InPool, vars
<1> QED
  BY <1>2, <1>3

(* When the server has started nothing was used. *)
LEMMA InitRunInv == Init => RunInv
<1> SUFFICES ASSUME Init PROVE RunInv
  OBVIOUS
<1>1. IInv /\ pc[Main] = "idle"
  BY InitInvariant, ThreadNames DEF Init
<1>2. \A s \in Slots : ioRefCount[s] = 0
  BY DEF Init
<1>3. \A s \in Slots : InPool(s)
  <2> TAKE s \in Slots
  <2>1. /\ indexPool = [i \in 1 .. MaxSession |-> i - 1]
        /\ Len(indexPool) = MaxSession /\ MaxSession \in Nat
    BY MaxSessionAssumption DEF Init
  <2>2. s + 1 \in 1 .. Len(indexPool) /\ indexPool[s + 1] = s
    BY <2>1 DEF Slots
  <2> QED
    BY <2>2 DEF InPool
<1> QED
  BY <1>1, <1>2, <1>3 DEF RunInv, UnusedInv

(* Every reachable state of the timely system satisfies the invariant. *)
THEOREM Invariant == TimelySpec => []RunInv
<1>1. RunInv /\ [TimelyNext]_vars => RunInv'
  BY NextRunInv
<1> QED
  BY <1>1, InitRunInv, PTL DEF TimelySpec

(* IOAddRef and IORelease count exactly: for any number of slots and       *)
(* workers, ioRefCount is the number of references to the session.         *)
THEOREM ReferenceCount == TimelySpec => []RefCountExact
<1>1. RunInv => RefCountExact
  <2> SUFFICES ASSUME RunInv, NEW s \in Slots
               PROVE  ioRefCount[s] = BaseRef(s) + recvIO[s] + sendIO[s]
                        + Cardinality(Completers(s)) + Cardinality(Posters(s))
    BY DEF RefCountExact
  <2>1. CASE generation[s] # 0
    BY <2>1 DEF RunInv, IInv, RefInv, RefCounted
  <2>2. CASE generation[s] = 0
    <3>1. ioRefCount[s] = 0 /\ InPool(s)
      BY <2>2 DEF RunInv, UnusedInv
    <3>2. recvIO[s] = 0 /\ sendIO[s] = 0 /\ Held(s) = 0 /\ Closers(s) = {}
      BY <3>1, FreeSlot DEF RunInv, IInv
    <3>3. BaseRef(s) = 0
      BY <2>2, <3>2 DEF BaseRef
    <3> QED
      BY <3>1, <3>2, <3>3, HeldType
  <2> QED
    BY <2>1, <2>2
<1> QED
  BY <1>1, Invariant, PTL

(* ReleaseSession pushes a slot when and only when nobody refers to it,    *)
(* and once.                                                               *)
THEOREM Pool == TimelySpec => []PoolExact
<1>1. RunInv => PoolExact
  BY DEF RunInv, UnusedInv, IInv, RefInv, Pooled, PoolExact
<1> QED
  BY <1>1, Invariant, PTL

(* The exchange of closeFlag lets one thread per session through           *)
(* CloseSession.                                                           *)
THEOREM SingleCloser == TimelySpec => []OneCloser
<1>1. RunInv => OneCloser
  BY DEF RunInv, IInv, RefInv
<1> QED
  BY <1>1, Invariant, PTL

(* No packet is queued for, or handed to the socket of, another session of *)
(* the slot than the one it was sent to, as long as no SendPacket is late: *)
(* the corollary of StrayPackets for TimelySpec.                           *)
THEOREM PacketsReachTheirSession == TimelySpec => []NoStaleDelivery
<1>1. RunInv => NoStaleDelivery
  BY DEF RunInv, IInv, PacketsInv, NoStaleDelivery
<1> QED
  BY <1>1, Invariant, PTL
-----------------------------------------------------------------------------
(***************************************************************************)
(* The two channels of a session, proved for any number of slots and       *)
(* workers under TimelySpec: recvCtx with the ring buffer, and sendCtx     *)
(* with sendPkts, have one user at a time, and a queued packet always has  *)
(* somebody who will look at the queue again or close the session.         *)
(*                                                                         *)
(* A posted operation and a thread that prepares one or handles its        *)
(* completion are tokens of the channel.  A step passes a token on, or     *)
(* drops it; a receive token is made by the accept thread alone, on a      *)
(* session that nobody else works on, and a send token by the exchange of  *)
(* sendPending alone.                                                      *)
(***************************************************************************)

RecvOwner == {"parse", "recvRef", "recvPost"}
SendOwner == {"grab", "sendRef", "sendPost", "sendFail", "sent", "clearPending"}
Carrier == SendOwner \cup {"close"}
Waker == Carrier \cup {"exchange", "recheck"}

Receivers(s) == {t \in Threads : cur[t] = s /\ pc[t] \in RecvOwner}
Senders(s) == {t \in Threads : cur[t] = s /\ pc[t] \in SendOwner}

(* The send channel is in use only while sendPending is set. *)
SendInv ==
  \A s \in Slots : sendIO[s] + Cardinality(Senders(s)) <= sendPending[s]

(* Whoever set sendPending of an open session is still there to clear it,  *)
(* or closes the session.                                                  *)
PendingInv ==
  \A s \in Slots : closeFlag[s] = 0 /\ sendPending[s] = 1 =>
    sendIO[s] > 0 \/ \E t \in Threads : cur[t] = s /\ pc[t] \in Carrier

ChannelInv == OneReceive /\ SendInv /\ PendingInv /\ NoLostWakeup
-----------------------------------------------------------------------------
(* What a step of thread t does to the tokens of a slot. *)

RecvTokens(t, s) == recvIO[s] + (IF cur[t] = s /\ pc[t] \in RecvOwner THEN 1 ELSE 0)
SendTokens(t, s) == sendIO[s] + (IF cur[t] = s /\ pc[t] \in SendOwner THEN 1 ELSE 0)

(* The users of a channel, but for t, do not change when t moves. *)
LEMMA UsersMove ==
  ASSUME NEW t \in Threads, Move(t), NEW s \in Slots
  PROVE  /\ Cardinality(Receivers(s)) \in Nat /\ Cardinality(Receivers(s)') \in Nat
         /\ Cardinality(Senders(s)) \in Nat /\ Cardinality(Senders(s)') \in Nat
         /\ Cardinality(Receivers(s)')
              - (IF (cur[t] = s /\ pc[t] \in RecvOwner)' THEN 1 ELSE 0)
            = Cardinality(Receivers(s))
              - (IF cur[t] = s /\ pc[t] \in RecvOwner THEN 1 ELSE 0)
         /\ Cardinality(Senders(s)')
              - (IF (cur[t] = s /\ pc[t] \in SendOwner)' THEN 1 ELSE 0)
            = Cardinality(Senders(s))
              - (IF cur[t] = s /\ pc[t] \in SendOwner THEN 1 ELSE 0)
<1>1. /\ Receivers(s) \in SUBSET Threads /\ Receivers(s)' \in SUBSET Threads
      /\ Senders(s) \in SUBSET Threads /\ Senders(s)' \in SUBSET Threads
  BY DEF Receivers, Senders
<1>2. Receivers(s) \ {t} = Receivers(s)' \ {t}
  BY DEF Receivers, Move
<1>3. Senders(s) \ {t} = Senders(s)' \ {t}
  BY DEF Senders, Move
<1>4. /\ t \in Receivers(s) <=> cur[t] = s /\ pc[t] \in RecvOwner
      /\ t \in Receivers(s)' <=> (cur[t] = s /\ pc[t] \in RecvOwner)'
  BY DEF Receivers
<1>5. /\ t \in Senders(s) <=> cur[t] = s /\ pc[t] \in SendOwner
      /\ t \in Senders(s)' <=> (cur[t] = s /\ pc[t] \in SendOwner)'
  BY DEF Senders
<1>6. /\ Cardinality(Receivers(s)) \in Nat /\ Cardinality(Receivers(s)') \in Nat
      /\ Cardinality(Receivers(s)')
           - (IF (cur[t] = s /\ pc[t] \in RecvOwner)' THEN 1 ELSE 0)
         = Cardinality(Receivers(s))
           - (IF cur[t] = s /\ pc[t] \in RecvOwner THEN 1 ELSE 0)
  BY <1>1, <1>2, <1>4, ThreadNames, CardUpdate
<1>7. /\ Cardinality(Senders(s)) \in Nat /\ Cardinality(Senders(s)') \in Nat
      /\ Cardinality(Senders(s)')
           - (IF (cur[t] = s /\ pc[t] \in SendOwner)' THEN 1 ELSE 0)
         = Cardinality(Senders(s))
           - (IF cur[t] = s /\ pc[t] \in SendOwner THEN 1 ELSE 0)
  BY <1>1, <1>3, <1>5, ThreadNames, CardUpdate
<1> QED
  BY <1>6, <1>7

(* OneReceive in terms of Receivers. *)
LEMMA OneReceiveCount ==
  OneReceive <=> \A s \in Slots : recvIO[s] + Cardinality(Receivers(s)) <= 1
BY DEF OneReceive, Receivers, RecvOwner

(* A step that makes no receive token keeps the receive channel exclusive. *)
LEMMA ReceiveStep ==
  ASSUME TypeOK, TypeOK', OneReceive, NEW t \in Threads, Move(t),
         \A s \in Slots : RecvTokens(t, s)' <= RecvTokens(t, s)
  PROVE  OneReceive'
<1>1. ASSUME NEW s \in Slots
      PROVE  recvIO'[s] + Cardinality(Receivers(s)') <= 1
  <2>1. recvIO[s] + Cardinality(Receivers(s)) <= 1
    BY OneReceiveCount
  <2>2. recvIO[s] \in Nat /\ recvIO'[s] \in Nat
    BY DEF TypeOK
  <2>3. RecvTokens(t, s)' <= RecvTokens(t, s)
    OBVIOUS
  <2> QED
    BY <2>1, <2>2, <2>3, UsersMove DEF RecvTokens
<1> QED
  BY <1>1 DEF OneReceive, Receivers, RecvOwner

(* A step that makes a send token only when it sets sendPending, and       *)
(* clears sendPending only when it drops one, keeps SendInv.               *)
LEMMA SendStep ==
  ASSUME TypeOK, TypeOK', SendInv, NEW t \in Threads, Move(t),
         \A s \in Slots : SendTokens(t, s)' - sendPending'[s]
                            <= SendTokens(t, s) - sendPending[s]
  PROVE  SendInv'
<1>1. ASSUME NEW s \in Slots
      PROVE  sendIO'[s] + Cardinality(Senders(s)') <= sendPending'[s]
  <2>1. sendIO[s] + Cardinality(Senders(s)) <= sendPending[s]
    BY DEF SendInv
  <2>2. /\ sendIO[s] \in Nat /\ sendIO'[s] \in Nat
        /\ sendPending[s] \in {0, 1} /\ sendPending'[s] \in {0, 1}
    BY DEF TypeOK
  <2>3. SendTokens(t, s)' - sendPending'[s] <= SendTokens(t, s) - sendPending[s]
    OBVIOUS
  <2> QED
    BY <2>1, <2>2, <2>3, UsersMove DEF SendTokens
<1> QED
  BY <1>1 DEF SendInv

(* PendingInv and NoLostWakeup are kept by a step of t that leaves a       *)
(* witness behind: t itself, the posted operation, or, when t was not the  *)
(* witness, whoever else was.                                              *)
LEMMA PendingStep ==
  ASSUME PendingInv, NEW t \in Threads, Move(t),
         \A s \in Slots : closeFlag'[s] = 0 /\ sendPending'[s] = 1 =>
           \/ sendIO'[s] > 0
           \/ cur'[t] = s /\ pc'[t] \in Carrier
           \/ /\ closeFlag[s] = 0 /\ sendPending[s] = 1
              /\ ~(sendIO[s] > 0) /\ ~(cur[t] = s /\ pc[t] \in Carrier)
  PROVE  PendingInv'
BY DEF PendingInv, Move

(* The same for the send queue.                                            *)
LEMMA WakeupStep ==
  ASSUME NoLostWakeup, NEW t \in Threads, Move(t),
         \A s \in Slots : closeFlag'[s] = 0 /\ sendQ'[s] # <<>> =>
           \/ sendIO'[s] > 0
           \/ cur'[t] = s /\ pc'[t] \in Waker
           \/ /\ closeFlag[s] = 0 /\ sendQ[s] # <<>>
              /\ ~(sendIO[s] > 0) /\ ~(cur[t] = s /\ pc[t] \in Waker)
  PROVE  NoLostWakeup'
BY DEF NoLostWakeup, Move, Waker, Carrier, SendOwner
-----------------------------------------------------------------------------
(* A step that neither posts nor dequeues, leaves sendPending alone and    *)
(* adds no packet: it may drop what t carries only when the session is     *)
(* closed.                                                                 *)
LEMMA QuietChannel ==
  ASSUME TypeOK, TypeOK', ChannelInv, NEW t \in Threads, Move(t), cur' = cur,
         UNCHANGED <<recvIO, sendIO, sendPending>>,
         \A s \in Slots : closeFlag'[s] = 0 => closeFlag[s] = 0,
         \A s \in Slots : sendQ'[s] \in {sendQ[s], <<>>},
         pc'[t] \in RecvOwner => pc[t] \in RecvOwner,
         pc'[t] \in SendOwner => pc[t] \in SendOwner,
         pc[t] \in Carrier => pc'[t] \in Carrier \/ closeFlag'[cur[t]] # 0,
         pc[t] \in Waker => pc'[t] \in Waker \/ closeFlag'[cur[t]] # 0
  PROVE  ChannelInv'
<1>0. /\ OneReceive /\ SendInv /\ PendingInv /\ NoLostWakeup
      /\ \A s \in Slots : /\ recvIO[s] \in Nat /\ sendIO[s] \in Nat
                          /\ sendPending[s] \in {0, 1}
  BY DEF ChannelInv, TypeOK
<1>1. \A s \in Slots : RecvTokens(t, s)' <= RecvTokens(t, s)
  BY <1>0 DEF RecvTokens
<1>2. \A s \in Slots : SendTokens(t, s)' - sendPending'[s]
                         <= SendTokens(t, s) - sendPending[s]
  BY <1>0 DEF SendTokens
<1>3. OneReceive'
  BY <1>0, <1>1, ReceiveStep
<1>4. SendInv'
  BY <1>0, <1>2, SendStep
<1>5. PendingInv'
  BY <1>0, PendingStep
<1>6. NoLostWakeup'
  BY <1>0, WakeupStep
<1> QED
  BY <1>3, <1>4, <1>5, <1>6 DEF ChannelInv

(* A jump of that kind. *)
LEMMA GotoChannel ==
  ASSUME TypeOK, TypeOK', ChannelInv, NEW t \in Threads, NEW l, Goto(t, l),
         UNCHANGED <<recvIO, sendIO, sendPending, closeFlag>>,
         \A s \in Slots : sendQ'[s] \in {sendQ[s], <<>>},
         l \in RecvOwner => pc[t] \in RecvOwner,
         l \in SendOwner => pc[t] \in SendOwner,
         pc[t] \in Carrier => l \in Carrier,
         pc[t] \in Waker => l \in Waker
  PROVE  ChannelInv'
<1>1. Move(t) /\ pc'[t] = l /\ cur' = cur
  BY GotoMove
<1> QED
  BY <1>1, QuietChannel

(* A call of CloseSession. *)
LEMMA CallChannel ==
  ASSUME TypeOK, TypeOK', ChannelInv, NEW t \in Threads, NEW b,
         CallCloseSession(t, b),
         UNCHANGED <<recvIO, sendIO, sendPending, closeFlag, sendQ>>
  PROVE  ChannelInv'
<1>1. Move(t) /\ pc'[t] = "close" /\ cur' = cur
  BY CallMove
<1> QED
  BY <1>1, QuietChannel DEF RecvOwner, SendOwner, Carrier, Waker

(* CloseSession drops what its caller carried only after closeFlag is set. *)
LEMMA CloseSessionChannel ==
  ASSUME TypeOK, TypeOK', ChannelInv, NEW t \in Threads, CloseSession(t)
  PROVE  ChannelInv'
<1> USE DEF lifeVars, queueVars, ioVars, RecvOwner, SendOwner, Carrier, Waker
<1>0. /\ cur[t] \in Slots /\ ret[t] \in {"idle", "release", "undo"}
      /\ closeFlag \in [Slots -> {0, 1}] /\ sendQ \in [Slots -> Seq(Nat)]
  BY DEF TypeOK
<1>1. CASE CloseSessionTestFlag(t)
  <2>1. /\ pc'[t] \in {ret[t], "closeSock"} /\ cur' = cur /\ Move(t)
        /\ pc[t] = "close"
    <3>1. CASE closeFlag[cur[t]] # 0
      BY <1>1, <3>1, ReturnMove DEF CloseSessionTestFlag
    <3>2. CASE closeFlag[cur[t]] = 0
      BY <1>1, <3>2, GotoMove DEF CloseSessionTestFlag
    <3> QED
      BY <3>1, <3>2
  <2>2. closeFlag'[cur[t]] = 1 /\ \A s \in Slots : closeFlag'[s] = 0 => closeFlag[s] = 0
    BY <1>0, <1>1 DEF CloseSessionTestFlag
  <2>3. UNCHANGED <<recvIO, sendIO, sendPending, sendQ>>
    BY <1>1 DEF CloseSessionTestFlag
  <2> QED
    BY <1>0, <2>1, <2>2, <2>3, QuietChannel
<1>2. CASE CloseSessionCloseSocket(t)
  BY <1>2, GotoChannel DEF CloseSessionCloseSocket
<1>3. CASE CloseSessionDrain(t)
  <2>1. \A s \in Slots : sendQ'[s] \in {sendQ[s], <<>>}
    BY <1>0, <1>3 DEF CloseSessionDrain
  <2> QED
    BY <1>3, <2>1, GotoChannel DEF CloseSessionDrain
<1>4. CASE CloseSessionLeave(t)
  BY <1>4, GotoChannel DEF CloseSessionLeave
<1>5. CASE CloseSessionCount(t)
  BY <1>5, GotoChannel DEF CloseSessionCount
<1>6. CASE CloseSessionDropBase(t)
  <2>1. pc'[t] = ret[t] /\ cur' = cur /\ Move(t) /\ pc[t] = "dropBase"
    BY <1>6, ReturnMove DEF CloseSessionDropBase
  <2>2. UNCHANGED <<recvIO, sendIO, sendPending, sendQ, closeFlag>>
    BY <1>6 DEF CloseSessionDropBase
  <2> QED
    BY <1>0, <2>1, <2>2, QuietChannel
<1> QED
  BY <1>1, <1>2, <1>3, <1>4, <1>5, <1>6 DEF CloseSession
(* PostRecv and the IORelease after a failed post.  The receive token goes *)
(* from the thread to the posted operation.                                *)
LEMMA PostRecvChannel ==
  ASSUME TypeOK, TypeOK', ChannelInv, NEW t \in Threads,
         PostRecv(t) \/ UndoAddRef(t)
  PROVE  ChannelInv'
<1> USE DEF lifeVars, queueVars, ioVars, RecvOwner, SendOwner, Carrier, Waker
<1>0. /\ cur[t] \in Slots /\ Home(t) \in {"idle", "unlock", "release"}
      /\ recvIO \in [Slots -> Nat]
      /\ OneReceive /\ SendInv /\ PendingInv /\ NoLostWakeup
  BY DEF TypeOK, Home, ChannelInv
<1>1. CASE PostRecvAddRef(t)
  BY <1>1, GotoChannel DEF PostRecvAddRef
<1>2. CASE PostRecvPosted(t)
  <2>1. pc'[t] = Home(t) /\ cur' = cur /\ Move(t) /\ pc[t] = "recvPost"
    BY <1>2, GotoMove DEF PostRecvPosted
  <2>2. /\ UNCHANGED <<sendIO, sendPending, closeFlag, sendQ>>
        /\ recvIO' = [recvIO EXCEPT ![cur[t]] = @ + 1]
    BY <1>2 DEF PostRecvPosted
  <2>3. \A s \in Slots : RecvTokens(t, s)' <= RecvTokens(t, s)
    BY <1>0, <2>1, <2>2 DEF RecvTokens
  <2>4. \A s \in Slots : SendTokens(t, s)' - sendPending'[s]
                           <= SendTokens(t, s) - sendPending[s]
    <3>1. \A s \in Slots : sendIO[s] \in Nat /\ sendPending[s] \in {0, 1}
      BY DEF TypeOK
    <3> QED
      BY <1>0, <2>1, <2>2, <3>1 DEF SendTokens
  <2>5. OneReceive' /\ SendInv'
    BY <1>0, <2>1, <2>3, <2>4, ReceiveStep, SendStep
  <2>6. PendingInv' /\ NoLostWakeup'
    BY <1>0, <2>1, <2>2, PendingStep, WakeupStep
  <2> QED
    BY <2>5, <2>6 DEF ChannelInv
<1>3. CASE PostRecvFailed(t)
  BY <1>3, CallChannel DEF PostRecvFailed
<1>4. CASE UndoAddRef(t)
  BY <1>0, <1>4, GotoChannel DEF UndoAddRef
<1> QED
  BY <1>1, <1>2, <1>3, <1>4 DEF PostRecv

(* FlushSend.  Its exchange makes the send token when sendPending was      *)
(* clear; when it was set, whoever set it is the one who will look again.  *)
LEMMA FlushSendChannel ==
  ASSUME TypeOK, TypeOK', ChannelInv, NEW t \in Threads, FlushSend(t)
  PROVE  ChannelInv'
<1> USE DEF lifeVars, queueVars, ioVars, RecvOwner, SendOwner, Carrier, Waker
<1>0. /\ cur[t] \in Slots /\ Home(t) \in {"idle", "unlock", "release"}
      /\ recvIO \in [Slots -> Nat] /\ sendIO \in [Slots -> Nat]
      /\ sendPending \in [Slots -> {0, 1}] /\ sendQ \in [Slots -> Seq(Nat)]
      /\ OneReceive /\ SendInv /\ PendingInv /\ NoLostWakeup
  BY DEF TypeOK, Home, ChannelInv
<1>1. CASE FlushSendExchange(t)
  <2>1. /\ pc'[t] = IF sendPending[cur[t]] # 0 THEN Home(t) ELSE "grab"
        /\ cur' = cur /\ Move(t) /\ pc[t] = "exchange"
    BY <1>1, GotoMove DEF FlushSendExchange
  <2>2. /\ UNCHANGED <<recvIO, sendIO, closeFlag, sendQ>>
        /\ sendPending' = [sendPending EXCEPT ![cur[t]] = 1]
    BY <1>1 DEF FlushSendExchange
  <2>3. \A s \in Slots : RecvTokens(t, s)' <= RecvTokens(t, s)
    BY <1>0, <2>1, <2>2 DEF RecvTokens
  <2>4. \A s \in Slots : SendTokens(t, s)' - sendPending'[s]
                           <= SendTokens(t, s) - sendPending[s]
    BY <1>0, <2>1, <2>2 DEF SendTokens
  <2>5. OneReceive' /\ SendInv'
    BY <1>0, <2>1, <2>3, <2>4, ReceiveStep, SendStep
  <2>6. PendingInv'
    BY <1>0, <2>1, <2>2, PendingStep
  <2>7. NoLostWakeup'
    <3>1. ASSUME NEW s \in Slots, closeFlag'[s] = 0, sendQ'[s] # <<>>, s = cur[t]
          PROVE  \/ sendIO'[s] > 0
                 \/ \E u \in Threads : cur'[u] = s /\ pc'[u] \in Waker
      <4>1. sendPending'[s] = 1
        BY <1>0, <2>2, <3>1
      <4>2. sendIO'[s] > 0 \/ \E u \in Threads : cur'[u] = s /\ pc'[u] \in Carrier
        BY <2>6, <3>1, <4>1 DEF PendingInv
      <4> QED
        BY <4>2
    <3>2. ASSUME NEW s \in Slots, closeFlag'[s] = 0, sendQ'[s] # <<>>, s # cur[t]
          PROVE  \/ sendIO'[s] > 0
                 \/ \E u \in Threads : cur'[u] = s /\ pc'[u] \in Waker
      <4>1. \/ sendIO[s] > 0
            \/ \E u \in Threads : cur[u] = s /\ pc[u] \in Waker
        BY <1>0, <2>2, <3>2 DEF NoLostWakeup
      <4> QED
        BY <2>1, <2>2, <3>2, <4>1 DEF Move
    <3> QED
      BY <3>1, <3>2 DEF NoLostWakeup
  <2> QED
    BY <2>5, <2>6, <2>7 DEF ChannelInv
<1>2. CASE FlushSendGrab(t)
  <2>1. \A s \in Slots : sendQ'[s] \in {sendQ[s], <<>>}
    BY <1>0, <1>2 DEF FlushSendGrab
  <2> QED
    BY <1>2, <2>1, GotoChannel DEF FlushSendGrab
<1>3. CASE FlushSendAddRef(t)
  BY <1>3, GotoChannel DEF FlushSendAddRef
<1>4. CASE FlushSendPosted(t)
  <2>1. pc'[t] = Home(t) /\ cur' = cur /\ Move(t) /\ pc[t] = "sendPost"
    BY <1>4, GotoMove DEF FlushSendPosted
  <2>2. /\ UNCHANGED <<recvIO, sendPending, closeFlag, sendQ>>
        /\ sendIO' = [sendIO EXCEPT ![cur[t]] = @ + 1]
    BY <1>4 DEF FlushSendPosted
  <2>3. \A s \in Slots : RecvTokens(t, s)' <= RecvTokens(t, s)
    BY <1>0, <2>1, <2>2 DEF RecvTokens
  <2>4. \A s \in Slots : SendTokens(t, s)' - sendPending'[s]
                           <= SendTokens(t, s) - sendPending[s]
    <3> TAKE s \in Slots
    <3>0. sendIO[s] \in Nat /\ sendPending[s] \in {0, 1}
      BY <1>0
    <3>1. CASE s = cur[t]
      <4>1. sendIO'[s] = sendIO[s] + 1 /\ sendPending'[s] = sendPending[s]
        BY <1>0, <2>2, <3>1
      <4>2. SendTokens(t, s)' = sendIO'[s] + 0 /\ SendTokens(t, s) = sendIO[s] + 1
        BY <1>0, <2>1, <3>1 DEF SendTokens
      <4> QED
        BY <3>0, <4>1, <4>2
    <3>2. CASE s # cur[t]
      <4>1. sendIO'[s] = sendIO[s] /\ sendPending'[s] = sendPending[s]
        BY <1>0, <2>2, <3>2
      <4>2. SendTokens(t, s)' = sendIO'[s] + 0 /\ SendTokens(t, s) = sendIO[s] + 0
        BY <2>1, <3>2 DEF SendTokens
      <4> QED
        BY <3>0, <4>1, <4>2
    <3> QED
      BY <3>1, <3>2
  <2>5. OneReceive' /\ SendInv'
    BY <1>0, <2>1, <2>3, <2>4, ReceiveStep, SendStep
  <2>6. /\ sendIO'[cur[t]] > 0
        /\ \A s \in Slots \ {cur[t]} : sendIO'[s] = sendIO[s]
    BY <1>0, <2>2
  <2>7. PendingInv' /\ NoLostWakeup'
    BY <1>0, <2>1, <2>2, <2>6, PendingStep, WakeupStep
  <2> QED
    BY <2>5, <2>7 DEF ChannelInv
<1>5. CASE FlushSendFailed(t)
  BY <1>5, GotoChannel DEF FlushSendFailed
<1>6. CASE FlushSendUndo(t)
  <2>1. pc'[t] = "close" /\ cur' = cur /\ Move(t) /\ pc[t] = "sendFail"
    BY <1>6, CallMove DEF FlushSendUndo
  <2>2. /\ UNCHANGED <<recvIO, sendIO, closeFlag, sendQ>>
        /\ sendPending' = [sendPending EXCEPT ![cur[t]] = 0]
    BY <1>6 DEF FlushSendUndo
  <2>3. \A s \in Slots : RecvTokens(t, s)' <= RecvTokens(t, s)
    BY <1>0, <2>1, <2>2 DEF RecvTokens
  <2>4. \A s \in Slots : SendTokens(t, s)' - sendPending'[s]
                           <= SendTokens(t, s) - sendPending[s]
    <3> TAKE s \in Slots
    <3>0. sendIO[s] \in Nat /\ sendPending[s] \in {0, 1}
      BY <1>0
    <3>1. CASE s = cur[t]
      <4>1. sendIO'[s] = sendIO[s] /\ sendPending'[s] = 0
        BY <1>0, <2>2, <3>1
      <4>2. SendTokens(t, s)' = sendIO'[s] + 0 /\ SendTokens(t, s) = sendIO[s] + 1
        BY <2>1, <3>1 DEF SendTokens
      <4> QED
        BY <3>0, <4>1, <4>2
    <3>2. CASE s # cur[t]
      <4>1. sendIO'[s] = sendIO[s] /\ sendPending'[s] = sendPending[s]
        BY <1>0, <2>2, <3>2
      <4>2. SendTokens(t, s)' = sendIO'[s] + 0 /\ SendTokens(t, s) = sendIO[s] + 0
        BY <2>1, <3>2 DEF SendTokens
      <4> QED
        BY <3>0, <4>1, <4>2
    <3> QED
      BY <3>1, <3>2
  <2>5. OneReceive' /\ SendInv'
    BY <1>0, <2>1, <2>3, <2>4, ReceiveStep, SendStep
  <2>6. PendingInv' /\ NoLostWakeup'
    BY <1>0, <2>1, <2>2, PendingStep, WakeupStep
  <2> QED
    BY <2>5, <2>6 DEF ChannelInv
<1> QED
  BY <1>1, <1>2, <1>3, <1>4, <1>5, <1>6 DEF FlushSend
(* A worker between two completions.  OnSendComplete drops the send token  *)
(* when it clears sendPending, and looks at the queue once more.           *)
LEMMA WorkerChannel ==
  ASSUME TypeOK, TypeOK', ChannelInv, NEW w \in Workers, WorkerStep(w)
  PROVE  ChannelInv'
<1> USE DEF lifeVars, queueVars, ioVars, RecvOwner, SendOwner, Carrier, Waker
<1>0. /\ w \in Threads /\ cur[w] \in Slots
      /\ recvIO \in [Slots -> Nat] /\ sendIO \in [Slots -> Nat]
      /\ sendPending \in [Slots -> {0, 1}] /\ sendQ \in [Slots -> Seq(Nat)]
      /\ OneReceive /\ SendInv /\ PendingInv /\ NoLostWakeup
  BY ThreadNames DEF TypeOK, ChannelInv
<1>1. CASE OnRecvComplete(w)
  <2>1. CASE Goto(w, "recvRef")
    BY <1>0, <1>1, <2>1, GotoChannel DEF OnRecvComplete
  <2>2. CASE CallCloseSession(w, "release")
    BY <1>0, <1>1, <2>2, CallChannel DEF OnRecvComplete
  <2> QED
    BY <1>1, <2>1, <2>2 DEF OnRecvComplete
<1>2. CASE OnSendCompleteRelease(w)
  BY <1>0, <1>2, GotoChannel DEF OnSendCompleteRelease
<1>3. CASE OnSendCompleteClear(w)
  <2>1. pc'[w] = "recheck" /\ cur' = cur /\ Move(w) /\ pc[w] = "clearPending"
    BY <1>0, <1>3, GotoMove DEF OnSendCompleteClear
  <2>2. /\ UNCHANGED <<recvIO, sendIO, closeFlag, sendQ>>
        /\ sendPending' = [sendPending EXCEPT ![cur[w]] = 0]
    BY <1>3 DEF OnSendCompleteClear
  <2>3. \A s \in Slots : RecvTokens(w, s)' <= RecvTokens(w, s)
    BY <1>0, <2>1, <2>2 DEF RecvTokens
  <2>4. \A s \in Slots : SendTokens(w, s)' - sendPending'[s]
                           <= SendTokens(w, s) - sendPending[s]
    <3> TAKE s \in Slots
    <3>0. sendIO[s] \in Nat /\ sendPending[s] \in {0, 1}
      BY <1>0
    <3>1. CASE s = cur[w]
      <4>1. sendIO'[s] = sendIO[s] /\ sendPending'[s] = 0
        BY <1>0, <2>2, <3>1
      <4>2. SendTokens(w, s)' = sendIO'[s] + 0 /\ SendTokens(w, s) = sendIO[s] + 1
        BY <2>1, <3>1 DEF SendTokens
      <4> QED
        BY <3>0, <4>1, <4>2
    <3>2. CASE s # cur[w]
      <4>1. sendIO'[s] = sendIO[s] /\ sendPending'[s] = sendPending[s]
        BY <1>0, <2>2, <3>2
      <4>2. SendTokens(w, s)' = sendIO'[s] + 0 /\ SendTokens(w, s) = sendIO[s] + 0
        BY <2>1, <3>2 DEF SendTokens
      <4> QED
        BY <3>0, <4>1, <4>2
    <3> QED
      BY <3>1, <3>2
  <2>5. OneReceive' /\ SendInv'
    BY <1>0, <2>1, <2>3, <2>4, ReceiveStep, SendStep
  <2>6. PendingInv' /\ NoLostWakeup'
    BY <1>0, <2>1, <2>2, PendingStep, WakeupStep
  <2> QED
    BY <2>5, <2>6 DEF ChannelInv
<1>4. CASE OnSendCompleteRecheck(w)
  <2>1. /\ pc'[w] = IF sendQ[cur[w]] # <<>> THEN "exchange" ELSE "release"
        /\ cur' = cur /\ Move(w) /\ pc[w] = "recheck"
    BY <1>0, <1>4, GotoMove DEF OnSendCompleteRecheck
  <2>2. UNCHANGED <<recvIO, sendIO, closeFlag, sendQ, sendPending>>
    BY <1>4 DEF OnSendCompleteRecheck
  <2>3. \A s \in Slots : RecvTokens(w, s)' <= RecvTokens(w, s)
    BY <1>0, <2>1, <2>2 DEF RecvTokens
  <2>4. \A s \in Slots : SendTokens(w, s)' - sendPending'[s]
                           <= SendTokens(w, s) - sendPending[s]
    <3>1. pc'[w] \notin SendOwner /\ pc[w] \notin SendOwner
      BY <2>1
    <3>2. \A s \in Slots : sendIO[s] \in Nat /\ sendPending[s] \in {0, 1}
      BY <1>0
    <3> QED
      BY <2>2, <3>1, <3>2 DEF SendTokens
  <2>5. OneReceive' /\ SendInv'
    BY <1>0, <2>1, <2>3, <2>4, ReceiveStep, SendStep
  <2>6. PendingInv' /\ NoLostWakeup'
    BY <1>0, <2>1, <2>2, PendingStep, WakeupStep
  <2> QED
    BY <2>5, <2>6 DEF ChannelInv
<1>5. CASE WorkerRelease(w)
  BY <1>0, <1>5, GotoChannel DEF WorkerRelease
<1>6. CASE PostRecv(w) \/ UndoAddRef(w)
  BY <1>0, <1>6, PostRecvChannel
<1>7. CASE FlushSend(w) \/ CloseSession(w)
  BY <1>0, <1>7, FlushSendChannel, CloseSessionChannel
<1> QED
  BY <1>1, <1>2, <1>3, <1>4, <1>5, <1>6, <1>7 DEF WorkerStep

(* A dequeued completion: the token goes from the operation to the worker, *)
(* which handles it or closes the session.                                 *)
LEMMA DequeueChannel ==
  ASSUME TypeOK, TypeOK', ChannelInv, NEW w \in Workers,
         DequeueRecv(w) \/ DequeueSend(w)
  PROVE  ChannelInv'
<1> USE DEF lifeVars, queueVars, ioVars, RecvOwner, SendOwner, Carrier, Waker
<1>0. /\ w \in Threads /\ pc[w] = "idle"
      /\ recvIO \in [Slots -> Nat] /\ sendIO \in [Slots -> Nat]
      /\ pc \in [Threads -> Labels] /\ cur \in [Threads -> Slots]
      /\ ret \in [Threads -> {"idle", "release", "undo"}]
      /\ \A s \in Slots : sendPending[s] \in {0, 1}
      /\ OneReceive /\ SendInv /\ PendingInv /\ NoLostWakeup
      /\ UNCHANGED <<closeFlag, sendQ, sendPending>>
  BY ThreadNames DEF TypeOK, ChannelInv, DequeueRecv, DequeueSend
<1>1. CASE DequeueRecv(w)
  <2>1. PICK c \in Slots :
          /\ recvIO[c] > 0 /\ recvIO' = [recvIO EXCEPT ![c] = @ - 1]
          /\ cur' = [cur EXCEPT ![w] = c] /\ sendIO' = sendIO
          /\ \/ pc' = [pc EXCEPT ![w] = "parse"] /\ ret' = ret
             \/ pc' = [pc EXCEPT ![w] = "close"] /\ ret' = [ret EXCEPT ![w] = "release"]
    BY <1>1 DEF DequeueRecv
  <2>2. Move(w) /\ cur'[w] = c /\ pc'[w] \in {"parse", "close"}
    BY <1>0, <2>1 DEF Move
  <2>3. \A s \in Slots : RecvTokens(w, s)' <= RecvTokens(w, s)
    BY <1>0, <2>1, <2>2 DEF RecvTokens
  <2>4. \A s \in Slots : SendTokens(w, s)' - sendPending'[s]
                           <= SendTokens(w, s) - sendPending[s]
    BY <1>0, <2>1, <2>2 DEF SendTokens
  <2>5. OneReceive' /\ SendInv'
    BY <1>0, <2>2, <2>3, <2>4, ReceiveStep, SendStep
  <2>6. PendingInv' /\ NoLostWakeup'
    BY <1>0, <2>1, <2>2, PendingStep, WakeupStep
  <2> QED
    BY <2>5, <2>6 DEF ChannelInv
<1>2. CASE DequeueSend(w)
  <2>1. PICK c \in Slots :
          /\ sendIO[c] > 0 /\ sendIO' = [sendIO EXCEPT ![c] = @ - 1]
          /\ cur' = [cur EXCEPT ![w] = c] /\ recvIO' = recvIO
          /\ \/ pc' = [pc EXCEPT ![w] = "sent"] /\ ret' = ret
             \/ pc' = [pc EXCEPT ![w] = "close"] /\ ret' = [ret EXCEPT ![w] = "release"]
    BY <1>2 DEF DequeueSend
  <2>2. Move(w) /\ cur'[w] = c /\ pc'[w] \in {"sent", "close"}
    BY <1>0, <2>1 DEF Move
  <2>3. \A s \in Slots : RecvTokens(w, s)' <= RecvTokens(w, s)
    BY <1>0, <2>1, <2>2 DEF RecvTokens
  <2>4. \A s \in Slots : SendTokens(w, s)' - sendPending'[s]
                           <= SendTokens(w, s) - sendPending[s]
    BY <1>0, <2>1, <2>2 DEF SendTokens
  <2>5. OneReceive' /\ SendInv'
    BY <1>0, <2>2, <2>3, <2>4, ReceiveStep, SendStep
  <2>6. \A s \in Slots \ {c} : sendIO'[s] = sendIO[s]
    BY <1>0, <2>1
  <2>7. PendingInv' /\ NoLostWakeup'
    BY <1>0, <2>1, <2>2, <2>6, PendingStep, WakeupStep
  <2> QED
    BY <2>5, <2>7 DEF ChannelInv
<1> QED
  BY <1>1, <1>2
(* The accept thread: after OnClientJoin it makes the receive token of a   *)
(* session that nobody else works on.                                      *)
LEMMA AcceptChannel ==
  ASSUME RunInv, TypeOK', ChannelInv, AcceptStep
  PROVE  ChannelInv'
<1> USE DEF lifeVars, queueVars, ioVars, RecvOwner, SendOwner, Carrier, Waker
<1>0. /\ Acceptor \in Threads /\ TypeOK
      /\ OneReceive /\ SendInv /\ PendingInv /\ NoLostWakeup
  BY ThreadNames DEF RunInv, IInv, ChannelInv
<1>1. CASE Associate
  <2>1. CASE Goto(Acceptor, "count")
    BY <1>0, <1>1, <2>1, GotoChannel DEF Associate
  <2>2. CASE CallCloseSession(Acceptor, "idle")
    BY <1>0, <1>1, <2>2, CallChannel DEF Associate
  <2> QED
    BY <1>1, <2>1, <2>2 DEF Associate
<1>2. CASE CountAccept
  BY <1>0, <1>2, GotoChannel DEF CountAccept
<1>3. CASE Join
  <2>1. /\ pc'[Acceptor] = "recvRef" /\ cur' = cur /\ Move(Acceptor)
        /\ pc[Acceptor] = "join" /\ cur[Acceptor] \in Slots
    BY <1>0, <1>3, GotoMove DEF Join, TypeOK
  <2>2. UNCHANGED <<recvIO, sendIO, closeFlag, sendQ, sendPending>>
    BY <1>3 DEF Join
  <2>3. OneReceive'
    <3>1. ASSUME NEW s \in Slots, s # cur[Acceptor]
          PROVE  recvIO'[s] + Cardinality(Receivers(s)') <= 1
      <4>1. recvIO[s] + Cardinality(Receivers(s)) <= 1
        BY <1>0, OneReceiveCount
      <4>2. Receivers(s)' = Receivers(s)
        BY <2>1, <3>1 DEF Receivers, Move
      <4> QED
        BY <2>2, <4>1, <4>2
    <3>2. ASSUME NEW s \in Slots, s = cur[Acceptor]
          PROVE  recvIO'[s] + Cardinality(Receivers(s)') <= 1
      <4>1. /\ recvIO[s] = 0
            /\ \A t \in Threads \ {Acceptor} : pc[t] # "idle" => cur[t] # s
        BY <2>1, <3>2 DEF RunInv, IInv, AcceptInv, SoleLabels
      <4>2. Receivers(s)' = {Acceptor}
        <5>1. \A t \in Threads \ {Acceptor} : pc'[t] # "idle" => cur'[t] # s
          BY <2>1, <4>1 DEF Move
        <5> QED
          BY <1>0, <2>1, <3>2, <5>1 DEF Receivers
      <4>3. Cardinality(Receivers(s)') = 1
        BY <4>2, FS_Singleton
      <4> QED
        BY <2>2, <4>1, <4>3
    <3> QED
      BY <3>1, <3>2 DEF OneReceive, Receivers
  <2>4. SendInv'
    <3>1. \A s \in Slots : Senders(s)' = Senders(s)
      BY <2>1 DEF Senders, Move
    <3> QED
      BY <1>0, <2>2, <3>1 DEF SendInv
  <2>5. PendingInv' /\ NoLostWakeup'
    BY <1>0, <2>1, <2>2, PendingStep, WakeupStep
  <2> QED
    BY <2>3, <2>4, <2>5 DEF ChannelInv
<1>4. CASE PostRecv(Acceptor) \/ UndoAddRef(Acceptor)
  BY <1>0, <1>4, PostRecvChannel
<1>5. CASE CloseSession(Acceptor)
  BY <1>0, <1>5, CloseSessionChannel
<1> QED
  BY <1>1, <1>2, <1>3, <1>4, <1>5 DEF AcceptStep

(* The Update thread: SendPacket goes on to the exchange after it queued   *)
(* the packet.                                                             *)
LEMMA UpdateChannel ==
  ASSUME TypeOK, TypeOK', ChannelInv,
         SendPacketCheckGeneration \/ Disconnect \/ UpdateStep
  PROVE  ChannelInv'
<1> USE DEF lifeVars, queueVars, ioVars, RecvOwner, SendOwner, Carrier, Waker
<1>0. /\ Updater \in Threads /\ sendQ \in [Slots -> Seq(Nat)]
      /\ recvIO \in [Slots -> Nat] /\ sendIO \in [Slots -> Nat]
      /\ \A s \in Slots : sendPending[s] \in {0, 1}
      /\ OneReceive /\ SendInv /\ PendingInv /\ NoLostWakeup
  BY ThreadNames DEF ChannelInv, TypeOK
<1>1. CASE SendPacketCheckGeneration \/ Disconnect
  <2>1. /\ UNCHANGED <<recvIO, sendIO, closeFlag, sendQ, sendPending>>
        /\ pc[Updater] = "idle"
    BY <1>1 DEF SendPacketCheckGeneration, Disconnect
  <2>2. Move(Updater) /\ pc'[Updater] \in {"checkFlag", "close"}
    BY <1>0, <1>1 DEF SendPacketCheckGeneration, Disconnect, Move, TypeOK
  <2>3. \A s \in Slots : RecvTokens(Updater, s)' <= RecvTokens(Updater, s)
    BY <1>0, <2>1, <2>2 DEF RecvTokens
  <2>4. \A s \in Slots : SendTokens(Updater, s)' - sendPending'[s]
                           <= SendTokens(Updater, s) - sendPending[s]
    BY <1>0, <2>1, <2>2 DEF SendTokens
  <2>5. OneReceive' /\ SendInv'
    BY <1>0, <2>2, <2>3, <2>4, ReceiveStep, SendStep
  <2>6. PendingInv' /\ NoLostWakeup'
    BY <1>0, <2>1, <2>2, PendingStep, WakeupStep
  <2> QED
    BY <2>5, <2>6 DEF ChannelInv
<1>2. CASE SendPacketCheckFlag
  BY <1>0, <1>2, GotoChannel DEF SendPacketCheckFlag
<1>3. CASE SendPacketEnqueue
  <2>1. /\ pc'[Updater] = "exchange" /\ cur' = cur /\ Move(Updater)
        /\ pc[Updater] = "enqueue" /\ cur[Updater] \in Slots
    BY <1>0, <1>3, GotoMove DEF SendPacketEnqueue, TypeOK
  <2>2. /\ UNCHANGED <<recvIO, sendIO, closeFlag, sendPending>>
        /\ \A s \in Slots \ {cur[Updater]} : sendQ'[s] = sendQ[s]
    BY <1>0, <1>3 DEF SendPacketEnqueue
  <2>3. \A s \in Slots : RecvTokens(Updater, s)' <= RecvTokens(Updater, s)
    BY <1>0, <2>1, <2>2 DEF RecvTokens
  <2>4. \A s \in Slots : SendTokens(Updater, s)' - sendPending'[s]
                           <= SendTokens(Updater, s) - sendPending[s]
    <3>1. pc'[Updater] \notin SendOwner /\ pc[Updater] \notin SendOwner
      BY <2>1
    <3>2. \A s \in Slots : sendIO[s] \in Nat /\ sendPending[s] \in {0, 1}
      BY <1>0
    <3> QED
      BY <2>2, <3>1, <3>2 DEF SendTokens
  <2>5. OneReceive' /\ SendInv'
    BY <1>0, <2>1, <2>3, <2>4, ReceiveStep, SendStep
  <2>6. PendingInv' /\ NoLostWakeup'
    BY <1>0, <2>1, <2>2, PendingStep, WakeupStep
  <2> QED
    BY <2>5, <2>6 DEF ChannelInv
<1>4. CASE SendPacketQueueFull
  BY <1>0, <1>4, CallChannel DEF SendPacketQueueFull
<1>5. CASE SendPacketUnlock
  BY <1>0, <1>5, GotoChannel DEF SendPacketUnlock
<1>6. CASE FlushSend(Updater) \/ CloseSession(Updater) \/ UndoAddRef(Updater)
  BY <1>0, <1>6, FlushSendChannel, CloseSessionChannel, PostRecvChannel
<1> QED
  BY <1>1, <1>2, <1>3, <1>4, <1>5, <1>6 DEF UpdateStep

(* A slot that is allocated has no token, and starts with sendPending      *)
(* clear and an empty queue.                                               *)
LEMMA AllocChannel ==
  ASSUME RunInv, TypeOK', ChannelInv, Timely, AllocSession
  PROVE  ChannelInv'
<1> USE DEF RecvOwner, SendOwner, Carrier, Waker
<1>0. /\ TypeOK /\ RefInv /\ OneReceive /\ SendInv /\ PendingInv /\ NoLostWakeup
      /\ IInv /\ UsedInv /\ pc[Main] = "idle"
  BY DEF RunInv, IInv, ChannelInv
<1>1. PICK c \in Slots : Allocate(c)
  BY <1>0, AllocShape
<1>2. /\ recvIO[c] = 0 /\ sendIO[c] = 0
      /\ \A t \in Threads \ {Acceptor} : pc[t] # "idle" => cur[t] # c
  BY <1>0, <1>1, FreeSlot, AllocatedIsUnused DEF Allocate
<1>3. /\ Move(Acceptor) /\ pc[Acceptor] = "idle" /\ pc'[Acceptor] = "associate"
      /\ cur'[Acceptor] = c /\ UNCHANGED <<recvIO, sendIO>>
      /\ closeFlag'[c] = 0 /\ sendQ'[c] = <<>>
      /\ \A s \in Slots \ {c} : closeFlag'[s] = closeFlag[s] /\ sendQ'[s] = sendQ[s]
  BY <1>1 DEF Allocate
<1>4. sendPending'[c] = 0 /\ \A s \in Slots \ {c} : sendPending'[s] = sendPending[s]
  <2>1. \E d \in Slots : sendPending' = [sendPending EXCEPT ![d] = 0]
                         /\ cur'[Acceptor] = d
    <3>1. /\ indexPool \in Seq(Slots) /\ indexPool # <<>>
          /\ Acceptor \in Threads /\ cur \in [Threads -> Slots]
      BY <1>0, ThreadNames DEF TypeOK, AllocSession
    <3>2. indexPool[Len(indexPool)] \in Slots
      BY <3>1
    <3> QED
      BY <3>1, <3>2 DEF AllocSession, InitSession
  <2> QED
    BY <1>0, <1>3, <2>1 DEF TypeOK
<1>5. \A s \in Slots : Receivers(s)' = Receivers(s) /\ Senders(s)' = Senders(s)
  BY <1>3 DEF Receivers, Senders, Move
<1>6. Senders(c) = {} /\ Cardinality(Senders(c)) = 0
  BY <1>2, <1>3, FS_EmptySet DEF Senders
<1>7. OneReceive'
  <2>1. \A s \in Slots : recvIO'[s] + Cardinality(Receivers(s)') <= 1
    BY <1>0, <1>3, <1>5, OneReceiveCount
  <2> QED
    BY <2>1 DEF OneReceive, Receivers
<1>8. SendInv'
  <2>1. sendIO'[c] + Cardinality(Senders(c)') <= sendPending'[c]
    <3>1. Cardinality(Senders(c)') = 0
      BY <1>5, <1>6
    <3> QED
      BY <1>2, <1>3, <1>4, <3>1
  <2>2. \A s \in Slots \ {c} : sendIO'[s] + Cardinality(Senders(s)') <= sendPending'[s]
    BY <1>0, <1>3, <1>4, <1>5 DEF SendInv
  <2> QED
    BY <2>1, <2>2 DEF SendInv
<1>9. PendingInv'
  BY <1>0, <1>3, <1>4, PendingStep, ThreadNames
<1>10. NoLostWakeup'
  BY <1>0, <1>3, WakeupStep, ThreadNames
<1> QED
  BY <1>7, <1>8, <1>9, <1>10 DEF ChannelInv
-----------------------------------------------------------------------------
(* The channels are unused when the server has started. *)
LEMMA InitChannel == Init => ChannelInv
<1> SUFFICES ASSUME Init PROVE ChannelInv
  OBVIOUS
<1>1. /\ \A t \in Threads : pc[t] = "idle"
      /\ \A s \in Slots : /\ recvIO[s] = 0 /\ sendIO[s] = 0
                          /\ sendPending[s] = 0 /\ sendQ[s] = <<>>
  BY DEF Init
<1>2. ASSUME NEW s \in Slots
      PROVE  Cardinality(Receivers(s)) = 0 /\ Cardinality(Senders(s)) = 0
  <2>1. Receivers(s) = {} /\ Senders(s) = {}
    BY <1>1 DEF Receivers, Senders, RecvOwner, SendOwner
  <2> QED
    BY <2>1, FS_EmptySet
<1>3. OneReceive
  <2>1. \A s \in Slots : recvIO[s] + Cardinality(Receivers(s)) <= 1
    BY <1>1, <1>2
  <2> QED
    BY <2>1, OneReceiveCount
<1>4. SendInv
  BY <1>1, <1>2 DEF SendInv
<1>5. PendingInv /\ NoLostWakeup
  BY <1>1 DEF PendingInv, NoLostWakeup
<1> QED
  BY <1>3, <1>4, <1>5 DEF ChannelInv

(* Every timely step keeps the channels exclusive and the queue watched. *)
LEMMA NextChannel ==
  ASSUME RunInv, ChannelInv, [TimelyNext]_vars
  PROVE  ChannelInv'
<1>0. TypeOK
  BY DEF RunInv, IInv
<1>1. CASE TimelyNext
  <2>1. Next /\ Timely
    BY <1>1 DEF TimelyNext
  <2>2. TypeOK'
    BY <1>0, <2>1, NextType
  <2>3. CASE AllocSession
    BY <2>1, <2>2, <2>3, AllocChannel
  <2>4. CASE AcceptStep
    BY <2>2, <2>4, AcceptChannel
  <2>5. CASE \E w \in Workers : DequeueRecv(w) \/ DequeueSend(w) \/ WorkerStep(w)
    BY <1>0, <2>2, <2>5, DequeueChannel, WorkerChannel
  <2>6. CASE SendPacketCheckGeneration \/ Disconnect \/ UpdateStep
    BY <1>0, <2>2, <2>6, UpdateChannel
  <2> QED
    BY <2>1, <2>3, <2>4, <2>5, <2>6 DEF Next
<1>2. CASE UNCHANGED vars
  <2>1. OneReceive' /\ NoLostWakeup'
    BY <1>2 DEF ChannelInv, vars, OneReceive, NoLostWakeup
  <2>2. SendInv' /\ PendingInv'
    BY <1>2 DEF ChannelInv, vars, SendInv, Senders, PendingInv
  <2> QED
    BY <2>1, <2>2 DEF ChannelInv
<1> QED
  BY <1>1, <1>2

(* Every reachable state of the timely system satisfies ChannelInv.        *)
THEOREM Channels == TimelySpec => []ChannelInv
<1>1. RunInv /\ ChannelInv /\ [TimelyNext]_vars => ChannelInv'
  BY NextChannel
<1> QED
  BY <1>1, InitChannel, Invariant, PTL DEF TimelySpec

(* A session has one WSARecv at a time, and no thread touches the ring     *)
(* buffer while one is posted: PostRecv is called by the accept thread     *)
(* once and then only by the worker that dequeued the last one.            *)
THEOREM SingleReceive == TimelySpec => []OneReceive
<1>1. ChannelInv => OneReceive
  BY DEF ChannelInv
<1> QED
  BY <1>1, Channels, PTL

(* sendPkts, sendWsaBuf and sendCtx have one user at a time: the exchange  *)
(* of sendPending in FlushSend lets nobody in while a WSASend is posted or *)
(* its completion handled.                                                 *)
THEOREM SingleSend == TimelySpec => []OneSend
<1>1. TypeOK /\ SendInv => OneSend
  <2> SUFFICES ASSUME TypeOK, SendInv, NEW s \in Slots
               PROVE  sendIO[s] + Cardinality(Senders(s)) <= 1
    BY DEF OneSend, Senders, SendOwner
  <2>1. IsFiniteSet(Senders(s))
    BY ThreadNames, FS_Subset DEF Senders
  <2>2. Cardinality(Senders(s)) \in Nat /\ sendIO[s] \in Nat /\ sendPending[s] \in {0, 1}
    BY <2>1, FS_CardinalityType DEF TypeOK
  <2>3. sendIO[s] + Cardinality(Senders(s)) <= sendPending[s]
    BY DEF SendInv
  <2> QED
    BY <2>2, <2>3
<1>2. RunInv /\ ChannelInv => OneSend
  BY <1>1 DEF RunInv, IInv, ChannelInv
<1> QED
  BY <1>2, Invariant, Channels, PTL

(* A packet queued for an open session is not forgotten, whatever the      *)
(* order in which SendPacket queues it and OnSendComplete clears           *)
(* sendPending.                                                            *)
THEOREM QueueIsWatched == TimelySpec => []NoLostWakeup
<1>1. ChannelInv => NoLostWakeup
  BY DEF ChannelInv
<1> QED
  BY <1>1, Channels, PTL
-----------------------------------------------------------------------------
(***************************************************************************)
(* CLanServer implements SessionEvents: the accept thread, the workers and *)
(* the Update thread push JOIN, RECV and LEAVE in the order the content    *)
(* relies on.  The mapping is the identity on joined, received and left.   *)
(* What has to be shown is that the announcements keep pace with the life  *)
(* of the slot: EventsInv relates them to generation, closeFlag and the    *)
(* places of the threads.                                                  *)
(***************************************************************************)

(* CloseSession before OnClientLeave, and the accept thread before         *)
(* OnClientJoin.                                                           *)
BeforeLeave == {"closeSock", "drain", "leave"}
BeforeJoin == {"associate", "count", "join"}

(* The slot has a session whose end was not announced. *)
Open(s) ==
  /\ generation[s] # 0
  /\ closeFlag[s] = 0 \/ \E t \in Threads : cur[t] = s /\ pc[t] \in BeforeLeave

(* The announcements of slot s belong to its sessions: the last JOIN is    *)
(* the present session's, or it was followed by its LEAVE; LEAVE is still  *)
(* to come when and only when the session is open; a posted recv belongs   *)
(* to a session that was announced.                                        *)
SlotEvents(s) ==
  /\ generation[s] <= MaxGeneration
  /\ joined[s] <= generation[s] /\ left[s] <= generation[s]
  /\ joined[s] = generation[s] \/ joined[s] <= left[s]
  /\ left[s] < generation[s] <=> Open(s)
  /\ recvIO[s] > 0 => joined[s] = generation[s]

(* A thread that parses or receives works for an announced session, and    *)
(* the accept thread announces a session once.                             *)
ThreadEvents(t) ==
  /\ pc[t] \in RecvOwner => joined[cur[t]] = generation[cur[t]]
  /\ t = Acceptor /\ pc[t] \in BeforeJoin => joined[cur[t]] < generation[cur[t]]

EventsInv ==
  /\ \A s \in Slots : SlotEvents(s)
  /\ \A t \in Threads : ThreadEvents(t)
-----------------------------------------------------------------------------
(* A step that announces nothing, begins or ends no session, and posts a   *)
(* recv only if it had the right to.                                       *)
LEMMA QuietEvents ==
  ASSUME TypeOK, EventsInv, NEW t \in Threads, Move(t), cur' = cur,
         UNCHANGED <<generation, joined, left, closeFlag>>,
         \A s \in Slots : recvIO'[s] > 0 =>
                            recvIO[s] > 0 \/ (cur[t] = s /\ pc[t] \in RecvOwner),
         pc'[t] \in RecvOwner => pc[t] \in RecvOwner,
         pc'[t] \in BeforeLeave <=> pc[t] \in BeforeLeave,
         t = Acceptor /\ pc'[t] \in BeforeJoin => pc[t] \in BeforeJoin
  PROVE  EventsInv'
<1>1. ASSUME NEW s \in Slots
      PROVE  SlotEvents(s)'
  <2>1. SlotEvents(s) /\ ThreadEvents(t)
    BY DEF EventsInv
  <2>2. Open(s)' <=> Open(s)
    BY DEF Open, Move
  <2>3. recvIO'[s] > 0 => joined'[s] = generation'[s]
    BY <2>1 DEF SlotEvents, ThreadEvents
  <2> QED
    BY <2>1, <2>2, <2>3 DEF SlotEvents
<1>2. ASSUME NEW u \in Threads
      PROVE  ThreadEvents(u)'
  <2>1. ThreadEvents(u)
    BY DEF EventsInv
  <2>2. CASE u = t
    BY <2>1, <2>2 DEF ThreadEvents
  <2>3. CASE u # t
    BY <2>1, <2>3 DEF ThreadEvents, Move
  <2> QED
    BY <2>2, <2>3
<1> QED
  BY <1>1, <1>2 DEF EventsInv

(* A jump of that kind. *)
LEMMA GotoEvents ==
  ASSUME TypeOK, EventsInv, NEW t \in Threads, NEW l, Goto(t, l),
         UNCHANGED <<generation, joined, left, closeFlag, recvIO>>,
         l \in RecvOwner => pc[t] \in RecvOwner,
         l \in BeforeLeave <=> pc[t] \in BeforeLeave,
         l \in BeforeJoin => pc[t] \in BeforeJoin
  PROVE  EventsInv'
<1>1. Move(t) /\ pc'[t] = l /\ cur' = cur
  BY GotoMove
<1> QED
  BY <1>1, QuietEvents

(* A call of CloseSession. *)
LEMMA CallEvents ==
  ASSUME TypeOK, EventsInv, NEW t \in Threads, NEW b, CallCloseSession(t, b),
         UNCHANGED <<generation, joined, left, closeFlag, recvIO>>,
         pc[t] \notin BeforeLeave
  PROVE  EventsInv'
<1>1. Move(t) /\ pc'[t] = "close" /\ cur' = cur
  BY CallMove
<1> QED
  BY <1>1, QuietEvents DEF RecvOwner, BeforeLeave, BeforeJoin

(* A return from CloseSession. *)
LEMMA ReturnEvents ==
  ASSUME TypeOK, EventsInv, NEW t \in Threads, ReturnFromCloseSession(t),
         UNCHANGED <<generation, joined, left, closeFlag, recvIO>>,
         pc[t] \notin BeforeLeave
  PROVE  EventsInv'
<1>1. Move(t) /\ pc'[t] = ret[t] /\ cur' = cur
  BY ReturnMove
<1>2. ret[t] \in {"idle", "release", "undo"}
  BY DEF TypeOK
<1> QED
  BY <1>1, <1>2, QuietEvents DEF RecvOwner, BeforeLeave, BeforeJoin

(* What the abstract specification allows in one step. *)
EventStep == [Events!Next]_<<joined, received, left>>

(* CloseSession: the first closer leaves the session open until it         *)
(* announces the end; nobody else is before OnClientLeave then.            *)
LEMMA CloseSessionEvents ==
  ASSUME RunInv, EventsInv, NEW t \in Threads, CloseSession(t)
  PROVE  EventsInv' /\ EventStep
<1> USE DEF lifeVars, queueVars, ioVars, contentVars, RecvOwner, BeforeLeave,
            BeforeJoin
<1>0. TypeOK /\ UsedInv /\ OneCloser /\ cur[t] \in Slots /\ pc[Main] = "idle"
  BY DEF RunInv, IInv, RefInv, TypeOK
<1>u. pc[t] # "idle" => generation[cur[t]] # 0
  BY <1>0 DEF UsedInv
<1>1. CASE CloseSessionTestFlag(t)
  <2>0. UNCHANGED <<generation, joined, received, left, recvIO>> /\ pc[t] = "close"
    BY <1>1 DEF CloseSessionTestFlag
  <2>1. CASE closeFlag[cur[t]] # 0
    <3>1. closeFlag' = closeFlag
      BY <1>0, <1>1, <2>1 DEF CloseSessionTestFlag, TypeOK
    <3>2. ReturnFromCloseSession(t)
      BY <1>1, <2>1 DEF CloseSessionTestFlag
    <3> QED
      BY <1>0, <2>0, <3>1, <3>2, ReturnEvents DEF EventStep
  <2>2. CASE closeFlag[cur[t]] = 0
    <3>c. PICK c \in Slots : c = cur[t]
      BY <1>0
    <3>1. Move(t) /\ pc'[t] = "closeSock" /\ cur' = cur
      BY <1>0, <1>1, <2>2, GotoMove DEF CloseSessionTestFlag
    <3>2. \A s \in Slots \ {c} : closeFlag'[s] = closeFlag[s]
      BY <1>0, <1>1, <3>c DEF CloseSessionTestFlag, TypeOK
    <3>3. \A s \in Slots \ {c} : Open(s)' <=> Open(s)
      BY <2>0, <3>1, <3>2, <3>c DEF Open, Move
    <3>4. Open(c)
      BY <1>0, <1>u, <2>0, <2>2, <3>c DEF Open
    <3>5. Open(c)'
      BY <1>0, <2>0, <3>1, <3>4, <3>c DEF Open
    <3>6. ASSUME NEW s \in Slots PROVE SlotEvents(s)'
      <4>1. Open(s)' <=> Open(s)
        BY <3>3, <3>4, <3>5
      <4>2. SlotEvents(s)
        BY DEF EventsInv
      <4> QED
        BY <2>0, <4>1, <4>2 DEF SlotEvents
    <3>7. \A u \in Threads : ThreadEvents(u)'
      BY <2>0, <3>1 DEF EventsInv, ThreadEvents, Move
    <3> QED
      BY <2>0, <3>6, <3>7 DEF EventsInv, EventStep
  <2> QED
    BY <2>1, <2>2
<1>2. CASE CloseSessionCloseSocket(t)
  BY <1>0, <1>2, GotoEvents DEF CloseSessionCloseSocket, EventStep
<1>3. CASE CloseSessionDrain(t)
  BY <1>0, <1>3, GotoEvents DEF CloseSessionDrain, EventStep
<1>4. CASE CloseSessionLeave(t)
  <2>c. PICK c \in Slots : c = cur[t]
    BY <1>0
  <2>0. /\ UNCHANGED <<generation, joined, received, closeFlag, recvIO>>
        /\ pc[t] = "leave" /\ left' = [left EXCEPT ![c] = generation[c]]
    BY <1>4, <2>c DEF CloseSessionLeave
  <2>1. Move(t) /\ pc'[t] = "countLeave" /\ cur' = cur
    BY <1>0, <1>4, GotoMove DEF CloseSessionLeave
  <2>2. closeFlag[c] = 1 /\ \A u \in Threads : cur[u] = c /\ pc[u] \in BeforeLeave => u = t
    <3>1. t \in Closers(c)
      BY <2>0, <2>c DEF Closers, ClosingLabels
    <3>2. \A u \in Threads : cur[u] = c /\ pc[u] \in BeforeLeave => u \in Closers(c)
      BY DEF Closers, ClosingLabels
    <3> QED
      BY <1>0, <3>1, <3>2 DEF OneCloser
  <2>3. Open(c) /\ ~Open(c)'
    <3>1. Open(c)
      BY <1>0, <1>u, <2>0, <2>c DEF Open
    <3>2. \A u \in Threads : ~(cur'[u] = c /\ pc'[u] \in BeforeLeave)
      BY <2>1, <2>2 DEF Move
    <3> QED
      BY <2>0, <2>2, <3>1, <3>2 DEF Open
  <2>4. \A s \in Slots \ {c} : (Open(s)' <=> Open(s)) /\ left'[s] = left[s]
    <3>1. \A s \in Slots \ {c} : Open(s)' <=> Open(s)
      BY <2>0, <2>1, <2>c DEF Open, Move
    <3> QED
      BY <1>0, <2>0, <3>1 DEF TypeOK
  <2>5. /\ SlotEvents(c) /\ left'[c] = generation[c]
        /\ generation[c] \in Nat /\ left[c] \in Nat /\ joined[c] \in Nat
    BY <1>0, <2>0 DEF EventsInv, TypeOK
  <2>6. SlotEvents(c)'
    BY <2>0, <2>3, <2>5 DEF SlotEvents
  <2>7. \A s \in Slots \ {c} : SlotEvents(s)'
    BY <2>0, <2>4 DEF EventsInv, SlotEvents
  <2>8. \A u \in Threads : ThreadEvents(u)'
    BY <2>0, <2>1 DEF EventsInv, ThreadEvents, Move
  <2>9. Events!Leave(c)
    <3>1. /\ generation[c] \in 1 .. MaxGeneration /\ generation[c] > left[c]
          /\ generation[c] >= joined[c]
          /\ joined[c] > left[c] => generation[c] = joined[c]
      BY <2>3, <2>5, MaxGenerationAssumption DEF SlotEvents, Open
    <3> QED
      BY <2>0, <3>1 DEF Events!Leave
  <2> QED
    BY <1>0, <2>6, <2>7, <2>8, <2>9 DEF EventsInv, EventStep, Events!Next
<1>5. CASE CloseSessionCount(t)
  BY <1>0, <1>5, GotoEvents DEF CloseSessionCount, EventStep
<1>6. CASE CloseSessionDropBase(t)
  BY <1>0, <1>6, ReturnEvents DEF CloseSessionDropBase, EventStep
<1> QED
  BY <1>1, <1>2, <1>3, <1>4, <1>5, <1>6 DEF CloseSession
(* PostRecv and FlushSend announce nothing.                                *)
LEMMA PostEvents ==
  ASSUME TypeOK, EventsInv, NEW t \in Threads,
         PostRecv(t) \/ UndoAddRef(t) \/ FlushSend(t)
  PROVE  EventsInv' /\ EventStep
<1> USE DEF lifeVars, queueVars, ioVars, contentVars, RecvOwner, BeforeLeave,
            BeforeJoin
<1>0. /\ Home(t) \in {"idle", "unlock", "release"} /\ cur[t] \in Slots
      /\ recvIO \in [Slots -> Nat]
  BY DEF Home, TypeOK
<1>1. EventStep
  BY DEF PostRecv, PostRecvAddRef, PostRecvPosted, PostRecvFailed, UndoAddRef,
         FlushSend, FlushSendExchange, FlushSendGrab, FlushSendAddRef,
         FlushSendPosted, FlushSendFailed, FlushSendUndo, EventStep
<1>2. CASE PostRecvAddRef(t)
  BY <1>1, <1>2, GotoEvents DEF PostRecvAddRef
<1>3. CASE PostRecvPosted(t)
  <2>1. /\ Move(t) /\ pc'[t] = Home(t) /\ cur' = cur /\ pc[t] = "recvPost"
        /\ UNCHANGED <<generation, joined, left, closeFlag>>
        /\ recvIO' = [recvIO EXCEPT ![cur[t]] = @ + 1]
    BY <1>3, GotoMove DEF PostRecvPosted
  <2>2. \A s \in Slots : recvIO'[s] > 0 => recvIO[s] > 0 \/ cur[t] = s
    BY <1>0, <2>1
  <2> QED
    BY <1>0, <1>1, <2>1, <2>2, QuietEvents
<1>4. CASE PostRecvFailed(t)
  BY <1>1, <1>4, CallEvents DEF PostRecvFailed
<1>5. CASE UndoAddRef(t)
  BY <1>0, <1>1, <1>5, GotoEvents DEF UndoAddRef
<1>6. CASE FlushSendExchange(t)
  BY <1>0, <1>1, <1>6, GotoEvents DEF FlushSendExchange
<1>7. CASE FlushSendGrab(t) \/ FlushSendAddRef(t) \/ FlushSendFailed(t)
  BY <1>1, <1>7, GotoEvents DEF FlushSendGrab, FlushSendAddRef, FlushSendFailed
<1>8. CASE FlushSendPosted(t)
  BY <1>0, <1>1, <1>8, GotoEvents DEF FlushSendPosted
<1>9. CASE FlushSendUndo(t)
  BY <1>1, <1>9, CallEvents DEF FlushSendUndo
<1> QED
  BY <1>1, <1>2, <1>3, <1>4, <1>5, <1>6, <1>7, <1>8, <1>9 DEF PostRecv, FlushSend

(* The accept thread announces a session of which neither JOIN nor LEAVE   *)
(* was pushed, after the LEAVE of the one before.                          *)
LEMMA AcceptEvents ==
  ASSUME RunInv, EventsInv, AcceptStep
  PROVE  EventsInv' /\ EventStep
<1> USE DEF lifeVars, queueVars, ioVars, contentVars, RecvOwner, BeforeLeave,
            BeforeJoin
<1>0. TypeOK /\ UsedInv /\ Acceptor \in Threads /\ cur[Acceptor] \in Slots
  BY ThreadNames DEF RunInv, IInv, TypeOK
<1>1. CASE Associate
  <2>0. EventStep
    BY <1>1 DEF Associate, EventStep
  <2>1. CASE Goto(Acceptor, "count")
    BY <1>0, <1>1, <2>0, <2>1, GotoEvents DEF Associate
  <2>2. CASE CallCloseSession(Acceptor, "idle")
    BY <1>0, <1>1, <2>0, <2>2, CallEvents DEF Associate
  <2> QED
    BY <1>1, <2>1, <2>2 DEF Associate
<1>2. CASE CountAccept
  BY <1>0, <1>2, GotoEvents DEF CountAccept, EventStep
<1>3. CASE Join
  <2>c. PICK c \in Slots : c = cur[Acceptor]
    BY <1>0
  <2>0. /\ UNCHANGED <<generation, left, received, closeFlag, recvIO>>
        /\ pc[Acceptor] = "join" /\ joined' = [joined EXCEPT ![c] = generation[c]]
    BY <1>3, <2>c DEF Join
  <2>1. Move(Acceptor) /\ pc'[Acceptor] = "recvRef" /\ cur' = cur
    BY <1>0, <1>3, GotoMove DEF Join
  <2>2. /\ SlotEvents(c) /\ Open(c) /\ joined[c] < generation[c]
        /\ generation[c] \in Nat /\ left[c] \in Nat /\ joined[c] \in Nat
    <3>1. closeFlag[c] = 0 /\ generation[c] # 0
      BY <1>0, <2>0, <2>c DEF RunInv, IInv, AcceptInv, SoleLabels, UsedInv
    <3> QED
      BY <1>0, <2>0, <2>c, <3>1 DEF Open, EventsInv, ThreadEvents, TypeOK
  <2>3. \A s \in Slots : Open(s)' <=> Open(s)
    BY <2>0, <2>1 DEF Open, Move
  <2>4. joined'[c] = generation[c] /\ \A s \in Slots \ {c} : joined'[s] = joined[s]
    BY <1>0, <2>0 DEF TypeOK
  <2>5. SlotEvents(c)'
    BY <2>0, <2>2, <2>3, <2>4 DEF SlotEvents
  <2>6. \A s \in Slots \ {c} : SlotEvents(s)'
    BY <2>0, <2>3, <2>4 DEF EventsInv, SlotEvents
  <2>7. ThreadEvents(Acceptor)'
    BY <2>0, <2>1, <2>4, <2>c DEF ThreadEvents
  <2>8. ASSUME NEW u \in Threads \ {Acceptor} PROVE ThreadEvents(u)'
    <3>1. ThreadEvents(u) /\ pc'[u] = pc[u] /\ cur'[u] = cur[u] /\ cur[u] \in Slots
      BY <1>0, <2>1 DEF EventsInv, Move, TypeOK
    <3> QED
      BY <2>0, <2>4, <3>1 DEF ThreadEvents
  <2>9. Events!Join(c)
    <3>1. /\ left[c] >= joined[c] /\ generation[c] > left[c]
          /\ generation[c] \in 1 .. MaxGeneration
      BY <2>2, MaxGenerationAssumption DEF SlotEvents
    <3> QED
      BY <2>0, <3>1 DEF Events!Join
  <2> QED
    BY <2>5, <2>6, <2>7, <2>8, <2>9 DEF EventsInv, EventStep, Events!Next
<1>4. CASE PostRecv(Acceptor) \/ UndoAddRef(Acceptor)
  BY <1>0, <1>4, PostEvents
<1>5. CASE CloseSession(Acceptor)
  BY <1>0, <1>5, CloseSessionEvents
<1> QED
  BY <1>1, <1>2, <1>3, <1>4, <1>5 DEF AcceptStep

(* A worker hands a packet to OnRecv only of the session announced last.   *)
LEMMA WorkerEvents ==
  ASSUME RunInv, EventsInv, NEW w \in Workers, WorkerStep(w)
  PROVE  EventsInv' /\ EventStep
<1> USE DEF lifeVars, queueVars, ioVars, contentVars, RecvOwner, BeforeLeave,
            BeforeJoin
<1>0. TypeOK /\ UsedInv /\ w \in Threads /\ cur[w] \in Slots
  BY ThreadNames DEF RunInv, IInv, TypeOK
<1>1. CASE OnRecvComplete(w)
  <2>1. /\ pc[w] = "parse" /\ UNCHANGED <<generation, joined, left, closeFlag, recvIO>>
        /\ \/ received' = received
           \/ received' = [received EXCEPT ![cur[w]] = generation[cur[w]]]
    BY <1>1 DEF OnRecvComplete
  <2>2. joined[cur[w]] = generation[cur[w]] /\ generation[cur[w]] # 0
    BY <1>0, <2>1, ThreadNames DEF EventsInv, ThreadEvents, UsedInv
  <2>3. EventStep
    BY <1>0, <2>1, <2>2 DEF EventStep, Events!Next, Events!Recv
  <2>4. CASE Goto(w, "recvRef")
    BY <1>0, <2>1, <2>3, <2>4, GotoEvents
  <2>5. CASE CallCloseSession(w, "release")
    BY <1>0, <2>1, <2>3, <2>5, CallEvents
  <2> QED
    BY <1>1, <2>4, <2>5 DEF OnRecvComplete
<1>2. CASE OnSendCompleteRelease(w)
  BY <1>0, <1>2, GotoEvents DEF OnSendCompleteRelease, EventStep
<1>3. CASE OnSendCompleteClear(w)
  BY <1>0, <1>3, GotoEvents DEF OnSendCompleteClear, EventStep
<1>4. CASE OnSendCompleteRecheck(w)
  BY <1>0, <1>4, GotoEvents DEF OnSendCompleteRecheck, EventStep
<1>5. CASE WorkerRelease(w)
  BY <1>0, <1>5, GotoEvents DEF WorkerRelease, EventStep
<1>6. CASE PostRecv(w) \/ UndoAddRef(w) \/ FlushSend(w)
  BY <1>0, <1>6, PostEvents
<1>7. CASE CloseSession(w)
  BY <1>0, <1>7, CloseSessionEvents
<1> QED
  BY <1>1, <1>2, <1>3, <1>4, <1>5, <1>6, <1>7 DEF WorkerStep

(* A thread that starts a handler: a worker that parses got the recv of an *)
(* announced session.                                                      *)
LEMMA EnterEvents ==
  ASSUME TypeOK, TypeOK', EventsInv,
         \/ \E w \in Workers : DequeueRecv(w) \/ DequeueSend(w)
         \/ SendPacketCheckGeneration \/ Disconnect
  PROVE  EventsInv' /\ EventStep
<1> USE DEF lifeVars, queueVars, ioVars, contentVars, RecvOwner, BeforeLeave,
            BeforeJoin
<1>0. /\ recvIO \in [Slots -> Nat] /\ pc \in [Threads -> Labels]
      /\ cur \in [Threads -> Slots]
      /\ ret \in [Threads -> {"idle", "release", "undo"}]
      /\ UNCHANGED <<generation, joined, left, received, closeFlag>>
  BY DEF TypeOK, DequeueRecv, DequeueSend, SendPacketCheckGeneration, Disconnect
<1>1. \E t \in Threads \ {Acceptor} :
        /\ Move(t) /\ pc[t] = "idle" /\ pc'[t] \in {"parse", "sent", "close", "checkFlag"}
        /\ cur'[t] \in Slots
        /\ pc'[t] = "parse" => recvIO[cur'[t]] > 0
        /\ \A s \in Slots : recvIO'[s] > 0 => recvIO[s] > 0
  <2>1. CASE \E w \in Workers : DequeueRecv(w)
    <3>1. PICK w \in Workers : DequeueRecv(w)
      BY <2>1
    <3>2. PICK c \in Slots :
            /\ recvIO[c] > 0 /\ recvIO' = [recvIO EXCEPT ![c] = @ - 1]
            /\ cur' = [cur EXCEPT ![w] = c] /\ pc[w] = "idle"
            /\ \/ pc' = [pc EXCEPT ![w] = "parse"] /\ ret' = ret
               \/ pc' = [pc EXCEPT ![w] = "close"] /\ ret' = [ret EXCEPT ![w] = "release"]
      BY <3>1 DEF DequeueRecv
    <3>3. w \in Threads \ {Acceptor}
      BY ThreadNames, ThreadsAssumption
    <3>4. \A s \in Slots : recvIO'[s] > 0 => recvIO[s] > 0
      BY <1>0, <3>2
    <3>5. Move(w) /\ cur'[w] = c /\ pc'[w] \in {"parse", "close"}
      BY <1>0, <3>2, <3>3 DEF Move
    <3> QED
      BY <3>2, <3>3, <3>4, <3>5
  <2>2. CASE \E w \in Workers : DequeueSend(w)
    <3>1. PICK w \in Workers : DequeueSend(w)
      BY <2>2
    <3>2. PICK c \in Slots :
            /\ cur' = [cur EXCEPT ![w] = c] /\ pc[w] = "idle" /\ recvIO' = recvIO
            /\ \/ pc' = [pc EXCEPT ![w] = "sent"] /\ ret' = ret
               \/ pc' = [pc EXCEPT ![w] = "close"] /\ ret' = [ret EXCEPT ![w] = "release"]
      BY <3>1 DEF DequeueSend
    <3>3. w \in Threads \ {Acceptor}
      BY ThreadNames, ThreadsAssumption
    <3>4. Move(w) /\ cur'[w] = c /\ pc'[w] \in {"sent", "close"}
      BY <1>0, <3>2, <3>3 DEF Move
    <3> QED
      BY <3>2, <3>3, <3>4
  <2>3. CASE SendPacketCheckGeneration \/ Disconnect
    <3>1. Updater \in Threads \ {Acceptor}
      BY ThreadNames, ThreadsAssumption
    <3>2. Move(Updater) /\ pc[Updater] = "idle" /\ pc'[Updater] \in {"checkFlag", "close"}
      BY <1>0, <2>3, <3>1 DEF SendPacketCheckGeneration, Disconnect, Move
    <3>3. cur'[Updater] \in Slots /\ recvIO' = recvIO
      BY <2>3, <3>1 DEF TypeOK, SendPacketCheckGeneration, Disconnect
    <3> QED
      BY <3>1, <3>2, <3>3
  <2> QED
    BY <2>1, <2>2, <2>3
<1>2. PICK t \in Threads \ {Acceptor} :
        /\ Move(t) /\ pc[t] = "idle" /\ pc'[t] \in {"parse", "sent", "close", "checkFlag"}
        /\ cur'[t] \in Slots
        /\ pc'[t] = "parse" => recvIO[cur'[t]] > 0
        /\ \A s \in Slots : recvIO'[s] > 0 => recvIO[s] > 0
  BY <1>1
<1>3. ASSUME NEW s \in Slots PROVE SlotEvents(s)'
  <2>1. Open(s)' <=> Open(s)
    BY <1>0, <1>2 DEF Open, Move
  <2>2. SlotEvents(s)
    BY DEF EventsInv
  <2> QED
    BY <1>0, <1>2, <2>1, <2>2 DEF SlotEvents
<1>4. ThreadEvents(t)'
  <2>1. SlotEvents(cur'[t])
    BY <1>2 DEF EventsInv
  <2> QED
    BY <1>0, <1>2, <2>1 DEF ThreadEvents, SlotEvents
<1>5. \A u \in Threads \ {t} : ThreadEvents(u)'
  BY <1>0, <1>2 DEF EventsInv, ThreadEvents, Move
<1> QED
  BY <1>0, <1>3, <1>4, <1>5 DEF EventsInv, EventStep
(* The Update thread announces nothing but the end of a session it closes. *)
LEMMA UpdateEvents ==
  ASSUME RunInv, EventsInv, UpdateStep
  PROVE  EventsInv' /\ EventStep
<1> USE DEF lifeVars, queueVars, ioVars, contentVars, RecvOwner, BeforeLeave,
            BeforeJoin
<1>0. TypeOK /\ Updater \in Threads
  BY ThreadNames DEF RunInv, IInv
<1>1. CASE SendPacketCheckFlag
  BY <1>0, <1>1, GotoEvents DEF SendPacketCheckFlag, EventStep
<1>2. CASE SendPacketEnqueue
  BY <1>0, <1>2, GotoEvents DEF SendPacketEnqueue, EventStep
<1>3. CASE SendPacketQueueFull
  BY <1>0, <1>3, CallEvents DEF SendPacketQueueFull, EventStep
<1>4. CASE SendPacketUnlock
  BY <1>0, <1>4, GotoEvents DEF SendPacketUnlock, EventStep
<1>5. CASE FlushSend(Updater) \/ UndoAddRef(Updater)
  BY <1>0, <1>5, PostEvents
<1>6. CASE CloseSession(Updater)
  BY <1>0, <1>6, CloseSessionEvents
<1> QED
  BY <1>1, <1>2, <1>3, <1>4, <1>5, <1>6 DEF UpdateStep

(* The end of the slot's last session was announced before the slot is     *)
(* allocated again.                                                        *)
LEMMA AllocEvents ==
  ASSUME RunInv, TypeOK', EventsInv, Timely, AllocSession
  PROVE  EventsInv' /\ EventStep
<1> USE DEF RecvOwner, BeforeLeave, BeforeJoin
<1>0. TypeOK /\ RefInv /\ IInv /\ UsedInv /\ UnusedInv /\ pc[Main] = "idle"
  BY DEF RunInv, IInv
<1>1. PICK c \in Slots : Allocate(c)
  BY <1>0, AllocShape
<1>2. /\ recvIO[c] = 0 /\ Closers(c) = {} /\ ioRefCount[c] = 0
      /\ \A t \in Threads \ {Acceptor} : pc[t] # "idle" => cur[t] # c
  <2>1. InPool(c)
    BY <1>1 DEF Allocate
  <2>2. ioRefCount[c] = 0
    BY <1>0, <2>1 DEF RefInv, Pooled, UnusedInv
  <2> QED
    BY <1>0, <1>1, <2>1, <2>2, FreeSlot, AllocatedIsUnused
<1>3. /\ Move(Acceptor) /\ pc[Acceptor] = "idle" /\ pc'[Acceptor] = "associate"
      /\ cur'[Acceptor] = c /\ recvIO' = recvIO
      /\ generation'[c] = generation[c] + 1 /\ closeFlag'[c] = 0
      /\ \A s \in Slots \ {c} : /\ closeFlag'[s] = closeFlag[s]
                                 /\ generation'[s] = generation[s]
  BY <1>1 DEF Allocate
<1>4. UNCHANGED <<joined, received, left>> /\ generation[c] < MaxGeneration
  <2>1. UNCHANGED <<joined, received, left>>
    BY DEF AllocSession, contentVars
  <2>2. \E d \in Slots : generation[d] < MaxGeneration /\ cur'[Acceptor] = d
    <3>1. /\ indexPool \in Seq(Slots) /\ indexPool # <<>>
          /\ Acceptor \in Threads /\ cur \in [Threads -> Slots]
      BY <1>0, ThreadNames DEF TypeOK, AllocSession
    <3>2. indexPool[Len(indexPool)] \in Slots
      BY <3>1
    <3> QED
      BY <3>1, <3>2 DEF AllocSession
  <2> QED
    BY <1>3, <2>1, <2>2
<1>5. generation[c] \in Nat /\ left[c] \in Nat /\ joined[c] \in Nat
  BY <1>0 DEF TypeOK
<1>6. ~Open(c)
  <2>1. generation[c] # 0 => closeFlag[c] # 0
    BY <1>0, <1>2, CountPositive DEF RefInv
  <2>2. \A t \in Threads : cur[t] = c => pc[t] \notin BeforeLeave
    BY <1>2 DEF Closers, ClosingLabels
  <2> QED
    BY <2>1, <2>2 DEF Open
<1>7. Open(c)'
  BY <1>3, <1>5 DEF Open
<1>8. SlotEvents(c)'
  <2>1. SlotEvents(c)
    BY DEF EventsInv
  <2>2. left[c] = generation[c] /\ joined[c] <= generation[c]
    BY <1>5, <1>6, <2>1 DEF SlotEvents
  <2> QED
    BY <1>2, <1>3, <1>4, <1>5, <1>7, <2>2, MaxGenerationAssumption DEF SlotEvents
<1>9. ASSUME NEW s \in Slots \ {c} PROVE SlotEvents(s)'
  <2>1. Open(s)' <=> Open(s)
    BY <1>3 DEF Open, Move
  <2>2. SlotEvents(s)
    BY DEF EventsInv
  <2> QED
    BY <1>3, <1>4, <2>1, <2>2 DEF SlotEvents
<1>10. ThreadEvents(Acceptor)'
  <2>1. joined[c] <= generation[c]
    BY DEF EventsInv, SlotEvents
  <2> QED
    BY <1>3, <1>4, <1>5, <2>1 DEF ThreadEvents
<1>11. ASSUME NEW u \in Threads \ {Acceptor} PROVE ThreadEvents(u)'
  <2>1. ThreadEvents(u) /\ pc'[u] = pc[u] /\ cur'[u] = cur[u] /\ cur[u] \in Slots
    BY <1>0, <1>3 DEF EventsInv, Move, TypeOK
  <2>2. pc[u] \in RecvOwner => cur[u] # c
    BY <1>2
  <2> QED
    BY <1>3, <1>4, <2>1, <2>2 DEF ThreadEvents
<1> QED
  BY <1>4, <1>8, <1>9, <1>10, <1>11 DEF EventsInv, EventStep
-----------------------------------------------------------------------------
(* Nothing was announced when the server has started. *)
LEMMA InitEvents == Init => EventsInv /\ Events!Init
<1> SUFFICES ASSUME Init PROVE EventsInv /\ Events!Init
  OBVIOUS
<1>1. /\ \A t \in Threads : pc[t] = "idle"
      /\ \A s \in Slots : /\ recvIO[s] = 0 /\ generation[s] = 0
                          /\ joined[s] = 0 /\ left[s] = 0
  BY DEF Init
<1>2. \A s \in Slots : SlotEvents(s)
  BY <1>1, MaxGenerationAssumption DEF SlotEvents, Open
<1>3. \A t \in Threads : ThreadEvents(t)
  BY <1>1 DEF ThreadEvents, RecvOwner, BeforeJoin
<1>4. Events!Init
  BY DEF Init, Events!Init
<1> QED
  BY <1>2, <1>3, <1>4 DEF EventsInv

(* Every timely step keeps EventsInv, and is a step of the abstract        *)
(* specification or leaves its variables alone.                            *)
LEMMA NextEvents ==
  ASSUME RunInv, EventsInv, [TimelyNext]_vars
  PROVE  EventsInv' /\ EventStep
<1>0. TypeOK
  BY DEF RunInv, IInv
<1>1. CASE TimelyNext
  <2>1. Next /\ Timely
    BY <1>1 DEF TimelyNext
  <2>2. TypeOK'
    BY <1>0, <2>1, NextType
  <2>3. CASE AllocSession
    BY <2>1, <2>2, <2>3, AllocEvents
  <2>4. CASE AcceptStep
    BY <2>4, AcceptEvents
  <2>5. CASE \E w \in Workers : DequeueRecv(w) \/ DequeueSend(w) \/ WorkerStep(w)
    BY <1>0, <2>2, <2>5, EnterEvents, WorkerEvents
  <2>6. CASE SendPacketCheckGeneration \/ Disconnect \/ UpdateStep
    BY <1>0, <2>2, <2>6, EnterEvents, UpdateEvents
  <2> QED
    BY <2>1, <2>3, <2>4, <2>5, <2>6 DEF Next
<1>2. CASE UNCHANGED vars
  <2>1. EventStep
    BY <1>2 DEF vars, EventStep
  <2>2. \A s \in Slots : SlotEvents(s)'
    BY <1>2 DEF vars, EventsInv, SlotEvents, Open
  <2>3. \A t \in Threads : ThreadEvents(t)'
    BY <1>2 DEF vars, EventsInv, ThreadEvents
  <2> QED
    BY <2>1, <2>2, <2>3 DEF EventsInv
<1> QED
  BY <1>1, <1>2

(* The network engine implements SessionEvents: the content hears JOIN of  *)
(* a session after the LEAVE of the one before, packets only of the        *)
(* session announced last, and one LEAVE per session, although the accept  *)
(* thread, the workers and the Update thread all push to its queue.        *)
THEOREM AnnouncementsRefine == TimelySpec => AnnouncesInOrder
<1>1. Init => EventsInv /\ Events!Init
  BY InitEvents
<1>2. RunInv /\ EventsInv /\ [TimelyNext]_vars => EventsInv'
  BY NextEvents
<1>3. RunInv /\ EventsInv /\ [TimelyNext]_vars => [Events!Next]_(Events!events)
  BY NextEvents DEF EventStep, Events!events
<1> QED
  BY <1>1, <1>2, <1>3, Invariant, PTL DEF TimelySpec, AnnouncesInOrder, Events!Spec
-----------------------------------------------------------------------------
(* What a step of a thread says of the sessions: it is mute, begins or     *)
(* announces the end of a session, or counts and announces a new one.      *)

Marked == BeforeLeave \cup BeforeJoin \cup {"countLeave"}

Mute(t) ==
  /\ UNCHANGED <<closeFlag, joined, left, totalAccept, totalDisconn>>
  /\ pc[t] \in Marked => cur'[t] = cur[t]
  /\ pc'[t] \in BeforeLeave <=> pc[t] \in BeforeLeave
  /\ pc'[t] \in {"join", "countLeave"} <=> pc[t] \in {"join", "countLeave"}
  /\ t = Acceptor /\ pc[t] \in BeforeJoin => pc'[t] \in BeforeJoin \/ AssocMayFail

BeginsClose(t) ==
  /\ pc[t] = "close" /\ pc'[t] = "closeSock" /\ cur' = cur
  /\ closeFlag' = [closeFlag EXCEPT ![cur[t]] = 1]
  /\ UNCHANGED <<joined, left, totalAccept, totalDisconn>>

AnnouncesEnd(t) ==
  /\ pc[t] = "leave" /\ pc'[t] = "countLeave" /\ cur' = cur
  /\ left' = [left EXCEPT ![cur[t]] = generation[cur[t]]]
  /\ UNCHANGED <<closeFlag, joined, totalAccept, totalDisconn>>

CountsEnd(t) ==
  /\ pc[t] = "countLeave" /\ pc'[t] = "dropBase" /\ cur' = cur
  /\ totalDisconn' = totalDisconn + 1
  /\ UNCHANGED <<closeFlag, joined, left, totalAccept>>

CountsBegin(t) ==
  /\ t = Acceptor /\ pc[t] = "count" /\ pc'[t] = "join" /\ cur' = cur
  /\ totalAccept' = totalAccept + 1
  /\ UNCHANGED <<closeFlag, joined, left, totalDisconn>>

AnnouncesBegin(t) ==
  /\ t = Acceptor /\ pc[t] = "join" /\ pc'[t] = "recvRef" /\ cur' = cur
  /\ joined' = [joined EXCEPT ![cur[t]] = generation[cur[t]]]
  /\ UNCHANGED <<closeFlag, left, totalAccept, totalDisconn>>

Report(t) ==
  /\ Move(t) /\ generation' = generation
  /\ pc[t] = "close" => cur' = cur /\ closeFlag'[cur[t]] = 1
  /\ \/ Mute(t) \/ BeginsClose(t) \/ AnnouncesEnd(t) \/ CountsEnd(t)
     \/ CountsBegin(t) \/ AnnouncesBegin(t)

(* A jump between places where nothing is announced. *)
LEMMA GotoReport ==
  ASSUME TypeOK, NEW t \in Threads, NEW l, Goto(t, l), l \notin Marked,
         pc[t] \notin Marked, pc[t] # "close",
         UNCHANGED <<generation, closeFlag, joined, left, totalAccept, totalDisconn>>
  PROVE  Report(t)
<1>1. Move(t) /\ pc'[t] = l /\ cur' = cur
  BY GotoMove
<1>2. Mute(t)
  BY <1>1 DEF Mute, Marked, BeforeLeave, BeforeJoin
<1> QED
  BY <1>1, <1>2 DEF Report

(* The same for a call of CloseSession. *)
LEMMA CallReport ==
  ASSUME TypeOK, NEW t \in Threads, NEW b, CallCloseSession(t, b),
         pc[t] \notin Marked, pc[t] # "close",
         UNCHANGED <<generation, closeFlag, joined, left, totalAccept, totalDisconn>>
  PROVE  Report(t)
<1>1. Move(t) /\ pc'[t] = "close" /\ cur' = cur
  BY CallMove
<1>2. Mute(t)
  BY <1>1 DEF Mute, Marked, BeforeLeave, BeforeJoin
<1> QED
  BY <1>1, <1>2 DEF Report

(* CloseSession begins, announces and counts the end of a session. *)
LEMMA CloseSessionReport ==
  ASSUME TypeOK, NEW t \in Threads, CloseSession(t)
  PROVE  Report(t)
<1> USE DEF lifeVars, queueVars, ioVars, contentVars
<1>0. cur[t] \in Slots /\ closeFlag[cur[t]] \in {0, 1}
      /\ ret[t] \in {"idle", "release", "undo"}
  BY DEF TypeOK
<1>1. CASE CloseSessionTestFlag(t)
  <2>0. /\ pc[t] = "close" /\ closeFlag' = [closeFlag EXCEPT ![cur[t]] = 1]
        /\ UNCHANGED <<generation, joined, left, totalAccept, totalDisconn>>
    BY <1>1 DEF CloseSessionTestFlag
  <2>1. closeFlag'[cur[t]] = 1
    BY <1>0, <2>0 DEF TypeOK
  <2>2. CASE closeFlag[cur[t]] # 0
    <3>1. Move(t) /\ pc'[t] = ret[t] /\ cur' = cur
      BY <1>1, <2>2, ReturnMove DEF CloseSessionTestFlag
    <3>2. closeFlag' = closeFlag
      BY <1>0, <2>0, <2>2 DEF TypeOK
    <3>3. Mute(t)
      BY <1>0, <2>0, <3>1, <3>2 DEF Mute, Marked, BeforeLeave, BeforeJoin
    <3> QED
      BY <2>0, <2>1, <3>1, <3>3 DEF Report
  <2>3. CASE closeFlag[cur[t]] = 0
    <3>1. Move(t) /\ pc'[t] = "closeSock" /\ cur' = cur
      BY <1>1, <2>3, GotoMove DEF CloseSessionTestFlag
    <3> QED
      BY <2>0, <2>1, <3>1 DEF Report, BeginsClose
  <2> QED
    BY <2>2, <2>3
<1>2. CASE CloseSessionCloseSocket(t)
  <2>1. Move(t) /\ pc'[t] = "drain" /\ cur' = cur
    BY <1>2, GotoMove DEF CloseSessionCloseSocket
  <2>2. Mute(t)
    BY <1>2, <2>1 DEF CloseSessionCloseSocket, Mute, Marked, BeforeLeave, BeforeJoin
  <2> QED
    BY <1>2, <2>1, <2>2 DEF CloseSessionCloseSocket, Report
<1>3. CASE CloseSessionDrain(t)
  <2>1. Move(t) /\ pc'[t] = "leave" /\ cur' = cur
    BY <1>3, GotoMove DEF CloseSessionDrain
  <2>2. Mute(t)
    BY <1>3, <2>1 DEF CloseSessionDrain, Mute, Marked, BeforeLeave, BeforeJoin
  <2> QED
    BY <1>3, <2>1, <2>2 DEF CloseSessionDrain, Report
<1>4. CASE CloseSessionLeave(t)
  <2>1. Move(t) /\ pc'[t] = "countLeave" /\ cur' = cur
    BY <1>4, GotoMove DEF CloseSessionLeave
  <2> QED
    BY <1>4, <2>1 DEF CloseSessionLeave, Report, AnnouncesEnd
<1>5. CASE CloseSessionCount(t)
  <2>1. Move(t) /\ pc'[t] = "dropBase" /\ cur' = cur
    BY <1>5, GotoMove DEF CloseSessionCount
  <2> QED
    BY <1>5, <2>1 DEF CloseSessionCount, Report, CountsEnd
<1>6. CASE CloseSessionDropBase(t)
  <2>1. Move(t) /\ pc'[t] = ret[t] /\ cur' = cur
    BY <1>6, ReturnMove DEF CloseSessionDropBase
  <2>2. Mute(t)
    BY <1>0, <1>6, <2>1
       DEF CloseSessionDropBase, Mute, Marked, BeforeLeave, BeforeJoin
  <2> QED
    BY <1>6, <2>1, <2>2 DEF CloseSessionDropBase, Report
<1> QED
  BY <1>1, <1>2, <1>3, <1>4, <1>5, <1>6 DEF CloseSession

(* PostRecv, FlushSend and the release after a failed post are mute. *)
LEMMA PostReport ==
  ASSUME TypeOK, NEW t \in Threads, PostRecv(t) \/ UndoAddRef(t) \/ FlushSend(t)
  PROVE  Report(t)
<1> USE DEF lifeVars, queueVars, ioVars, contentVars, Marked, BeforeLeave, BeforeJoin
<1>0. Home(t) \in {"idle", "unlock", "release"}
  BY DEF Home
<1>1. CASE PostRecvAddRef(t)
  BY <1>1, GotoReport DEF PostRecvAddRef
<1>2. CASE PostRecvPosted(t)
  BY <1>0, <1>2, GotoReport DEF PostRecvPosted
<1>3. CASE PostRecvFailed(t)
  BY <1>3, CallReport DEF PostRecvFailed
<1>4. CASE UndoAddRef(t)
  BY <1>0, <1>4, GotoReport DEF UndoAddRef
<1>5. CASE FlushSendExchange(t)
  <2>1. (IF sendPending[cur[t]] # 0 THEN Home(t) ELSE "grab") \notin Marked
    BY <1>0
  <2> QED
    BY <1>5, <2>1, GotoReport DEF FlushSendExchange
<1>6. CASE FlushSendGrab(t)
  BY <1>6, GotoReport DEF FlushSendGrab
<1>7. CASE FlushSendAddRef(t)
  BY <1>7, GotoReport DEF FlushSendAddRef
<1>8. CASE FlushSendPosted(t)
  BY <1>0, <1>8, GotoReport DEF FlushSendPosted
<1>9. CASE FlushSendFailed(t)
  BY <1>9, GotoReport DEF FlushSendFailed
<1>10. CASE FlushSendUndo(t)
  BY <1>10, CallReport DEF FlushSendUndo
<1> QED
  BY <1>1, <1>2, <1>3, <1>4, <1>5, <1>6, <1>7, <1>8, <1>9, <1>10
     DEF PostRecv, FlushSend

(* The accept thread counts and announces a session. *)
LEMMA AcceptReport ==
  ASSUME TypeOK, AcceptStep
  PROVE  Report(Acceptor)
<1> USE DEF lifeVars, queueVars, ioVars, contentVars
<1>0. Acceptor \in Threads
  BY ThreadNames
<1>1. CASE Associate
  <2>1. /\ pc[Acceptor] = "associate" /\ Move(Acceptor) /\ cur' = cur
        /\ \/ pc'[Acceptor] = "count"
           \/ AssocMayFail /\ pc'[Acceptor] = "close"
    BY <1>0, <1>1, GotoMove, CallMove DEF Associate
  <2>2. Mute(Acceptor)
    BY <1>1, <2>1 DEF Associate, Mute, Marked, BeforeLeave, BeforeJoin
  <2> QED
    BY <1>1, <2>1, <2>2 DEF Associate, Report
<1>2. CASE CountAccept
  <2>1. Move(Acceptor) /\ pc'[Acceptor] = "join" /\ cur' = cur
    BY <1>0, <1>2, GotoMove DEF CountAccept
  <2> QED
    BY <1>2, <2>1 DEF CountAccept, Report, CountsBegin
<1>3. CASE Join
  <2>1. Move(Acceptor) /\ pc'[Acceptor] = "recvRef" /\ cur' = cur
    BY <1>0, <1>3, GotoMove DEF Join
  <2> QED
    BY <1>3, <2>1 DEF Join, Report, AnnouncesBegin
<1>4. CASE PostRecv(Acceptor) \/ UndoAddRef(Acceptor)
  BY <1>0, <1>4, PostReport
<1>5. CASE CloseSession(Acceptor)
  BY <1>0, <1>5, CloseSessionReport
<1> QED
  BY <1>1, <1>2, <1>3, <1>4, <1>5 DEF AcceptStep

(* So does every step of a worker or of the Update thread. *)
LEMMA WorkerReport ==
  ASSUME TypeOK, NEW w \in Workers, DequeueRecv(w) \/ DequeueSend(w) \/ WorkerStep(w)
  PROVE  Report(w)
<1> USE DEF lifeVars, queueVars, ioVars, contentVars, Marked, BeforeLeave, BeforeJoin
<1>0. w \in Threads /\ w # Acceptor
  BY ThreadNames
<1>1. CASE DequeueRecv(w) \/ DequeueSend(w)
  <2>1. /\ Move(w) /\ pc[w] = "idle" /\ pc'[w] \in {"parse", "sent", "close"}
        /\ UNCHANGED <<generation, closeFlag, joined, left, totalAccept, totalDisconn>>
    BY <1>0, <1>1 DEF DequeueRecv, DequeueSend, TypeOK, Move
  <2>2. Mute(w)
    BY <1>0, <2>1 DEF Mute
  <2> QED
    BY <2>1, <2>2 DEF Report
<1>2. CASE OnRecvComplete(w)
  <2>1. CASE Goto(w, "recvRef")
    BY <1>0, <1>2, <2>1, GotoReport DEF OnRecvComplete
  <2>2. CASE CallCloseSession(w, "release")
    BY <1>0, <1>2, <2>2, CallReport DEF OnRecvComplete
  <2> QED
    BY <1>2, <2>1, <2>2 DEF OnRecvComplete
<1>3. CASE OnSendCompleteRelease(w)
  BY <1>0, <1>3, GotoReport DEF OnSendCompleteRelease
<1>4. CASE OnSendCompleteClear(w)
  BY <1>0, <1>4, GotoReport DEF OnSendCompleteClear
<1>5. CASE OnSendCompleteRecheck(w)
  <2>1. (IF sendQ[cur[w]] # <<>> THEN "exchange" ELSE "release") \notin Marked
    OBVIOUS
  <2> QED
    BY <1>0, <1>5, <2>1, GotoReport DEF OnSendCompleteRecheck
<1>6. CASE WorkerRelease(w)
  BY <1>0, <1>6, GotoReport DEF WorkerRelease
<1>7. CASE PostRecv(w) \/ UndoAddRef(w) \/ FlushSend(w)
  BY <1>0, <1>7, PostReport
<1>8. CASE CloseSession(w)
  BY <1>0, <1>8, CloseSessionReport
<1> QED
  BY <1>1, <1>2, <1>3, <1>4, <1>5, <1>6, <1>7, <1>8 DEF WorkerStep

(* The Update thread's steps, with the start of SendPacket and Disconnect. *)
LEMMA UpdateReport ==
  ASSUME TypeOK, SendPacketCheckGeneration \/ Disconnect \/ UpdateStep
  PROVE  Report(Updater)
<1> USE DEF lifeVars, queueVars, ioVars, contentVars, Marked, BeforeLeave, BeforeJoin
<1>0. Updater \in Threads /\ Updater # Acceptor
  BY ThreadNames
<1>1. CASE SendPacketCheckGeneration \/ Disconnect
  <2>1. /\ Move(Updater) /\ pc[Updater] = "idle"
        /\ pc'[Updater] \in {"checkFlag", "close"}
        /\ UNCHANGED <<generation, closeFlag, joined, left, totalAccept, totalDisconn>>
    BY <1>0, <1>1 DEF SendPacketCheckGeneration, Disconnect, TypeOK, Move
  <2>2. Mute(Updater)
    BY <1>0, <2>1 DEF Mute
  <2> QED
    BY <2>1, <2>2 DEF Report
<1>2. CASE SendPacketCheckFlag
  <2>1. (IF closeFlag[cur[Updater]] # 0 THEN "idle" ELSE "enqueue") \notin Marked
    OBVIOUS
  <2> QED
    BY <1>0, <1>2, <2>1, GotoReport DEF SendPacketCheckFlag
<1>3. CASE SendPacketEnqueue
  BY <1>0, <1>3, GotoReport DEF SendPacketEnqueue
<1>4. CASE SendPacketQueueFull
  BY <1>0, <1>4, CallReport DEF SendPacketQueueFull
<1>5. CASE SendPacketUnlock
  BY <1>0, <1>5, GotoReport DEF SendPacketUnlock
<1>6. CASE FlushSend(Updater) \/ UndoAddRef(Updater)
  BY <1>0, <1>6, PostReport
<1>7. CASE CloseSession(Updater)
  BY <1>0, <1>7, CloseSessionReport
<1> QED
  BY <1>1, <1>2, <1>3, <1>4, <1>5, <1>6, <1>7 DEF UpdateStep
-----------------------------------------------------------------------------
(* The end of a closed session was announced, or the thread that is to     *)
(* announce it is on its way.                                              *)
LeftInv ==
  \A s \in Slots :
    /\ joined[s] <= generation[s]
    /\ closeFlag[s] = 1 =>
         \/ left[s] = generation[s]
         \/ \E t \in Threads : cur[t] = s /\ pc[t] \in BeforeLeave

(* A step of a thread keeps it. *)
LEMMA LeftReport ==
  ASSUME TypeOK, TypeOK', LeftInv, NEW t \in Threads, Report(t)
  PROVE  LeftInv'
<1> SUFFICES ASSUME NEW s \in Slots
             PROVE  /\ joined'[s] <= generation'[s]
                    /\ closeFlag'[s] = 1 =>
                         \/ left'[s] = generation'[s]
                         \/ \E u \in Threads : cur'[u] = s /\ pc'[u] \in BeforeLeave
  BY DEF LeftInv
<1>0. /\ joined[s] <= generation[s] /\ generation' = generation /\ cur[t] \in Slots
      /\ generation[s] \in Nat /\ joined[s] \in Nat
      /\ \A u \in Threads \ {t} : pc'[u] = pc[u] /\ cur'[u] = cur[u]
  BY DEF LeftInv, Report, Move, TypeOK
<1>1. closeFlag[s] = 1 =>
         left[s] = generation[s] \/ \E u \in Threads : cur[u] = s /\ pc[u] \in BeforeLeave
  BY DEF LeftInv
<1>2. CASE Mute(t)
  <2>1. UNCHANGED <<closeFlag, joined, left>>
    BY <1>2 DEF Mute
  <2>2. ASSUME NEW u \in Threads, cur[u] = s, pc[u] \in BeforeLeave
        PROVE  cur'[u] = s /\ pc'[u] \in BeforeLeave
    <3>1. CASE u = t
      BY <1>2, <2>2, <3>1 DEF Mute, Marked
    <3>2. CASE u # t
      BY <1>0, <2>2, <3>2
    <3> QED
      BY <3>1, <3>2
  <2> QED
    BY <1>0, <1>1, <2>1, <2>2
<1>3. CASE BeginsClose(t)
  <2>1. /\ UNCHANGED <<joined, left>> /\ cur' = cur /\ pc'[t] \in BeforeLeave
        /\ s # cur[t] => closeFlag'[s] = closeFlag[s]
        /\ pc[t] \notin BeforeLeave
    BY <1>0, <1>3 DEF BeginsClose, BeforeLeave, TypeOK
  <2>2. CASE s = cur[t]
    BY <1>0, <2>1, <2>2
  <2>3. CASE s # cur[t]
    BY <1>0, <1>1, <2>1, <2>3
  <2> QED
    BY <2>2, <2>3
<1>4. CASE AnnouncesEnd(t)
  <2>1. /\ UNCHANGED <<joined, closeFlag>> /\ cur' = cur
        /\ s = cur[t] => left'[s] = generation[s]
        /\ s # cur[t] => left'[s] = left[s]
    BY <1>0, <1>4 DEF AnnouncesEnd, TypeOK
  <2>2. CASE s = cur[t]
    BY <1>0, <2>1, <2>2
  <2>3. CASE s # cur[t]
    BY <1>0, <1>1, <2>1, <2>3
  <2> QED
    BY <2>2, <2>3
<1>5. CASE CountsEnd(t) \/ CountsBegin(t)
  <2>1. UNCHANGED <<joined, left, closeFlag, cur>> /\ pc[t] \notin BeforeLeave
    BY <1>5 DEF CountsEnd, CountsBegin, BeforeLeave
  <2> QED
    BY <1>0, <1>1, <2>1
<1>6. CASE AnnouncesBegin(t)
  <2>1. /\ UNCHANGED <<left, closeFlag, cur>> /\ pc[t] \notin BeforeLeave
        /\ joined'[s] = joined[s] \/ joined'[s] = generation[s]
    BY <1>0, <1>6 DEF AnnouncesBegin, BeforeLeave, TypeOK
  <2> QED
    BY <1>0, <1>1, <2>1
<1> QED
  BY <1>2, <1>3, <1>4, <1>5, <1>6 DEF Report

(* So does the allocation of a slot, which begins a session. *)
LEMMA LeftAlloc ==
  ASSUME TypeOK, LeftInv, AllocSession
  PROVE  LeftInv'
<1>1. PICK c \in Slots : Allocate(c)
  BY AllocShape
<1>2. UNCHANGED <<joined, left>> /\ Acceptor \in Threads
  BY ThreadNames DEF AllocSession, contentVars
<1> SUFFICES ASSUME NEW s \in Slots
             PROVE  /\ joined'[s] <= generation'[s]
                    /\ closeFlag'[s] = 1 =>
                         \/ left'[s] = generation'[s]
                         \/ \E u \in Threads : cur'[u] = s /\ pc'[u] \in BeforeLeave
  BY DEF LeftInv
<1>3. /\ joined[s] <= generation[s] /\ joined[s] \in Nat /\ generation[s] \in Nat
      /\ closeFlag[s] = 1 =>
           left[s] = generation[s] \/ \E u \in Threads : cur[u] = s /\ pc[u] \in BeforeLeave
  BY DEF LeftInv, TypeOK
<1>4. CASE s = c
  BY <1>1, <1>2, <1>3, <1>4 DEF Allocate
<1>5. CASE s # c
  <2>1. generation'[s] = generation[s] /\ closeFlag'[s] = closeFlag[s]
    BY <1>1, <1>5 DEF Allocate
  <2>2. ASSUME NEW u \in Threads, cur[u] = s, pc[u] \in BeforeLeave
        PROVE  cur'[u] = s /\ pc'[u] \in BeforeLeave
    BY <1>1, <2>2 DEF Allocate, Move, BeforeLeave
  <2> QED
    BY <1>2, <1>3, <2>1, <2>2
<1> QED
  BY <1>4, <1>5
-----------------------------------------------------------------------------
(***************************************************************************)
(* The process (ServerMain).  Stop is the only caller of CloseSession      *)
(* without a reference, and it comes when the accept thread has ended: so  *)
(* every step of MainSpec is a step of ServerNext, which keeps IInv, and   *)
(* until Stop closes sessions a step of TimelyNext, which keeps RunInv.    *)
(***************************************************************************)

Running == {"startContent", "start", "run", "waitAccept"}

(* Where main is tells which threads are left and which slots Stop's loop  *)
(* has visited: a visited slot is closed, or main is about to close it.    *)
StageInv ==
  /\ slot \in 0 .. MaxSession
  /\ pc[Main] # "idle" => stage = "closeAll"
  /\ isrun => stage \in {"run", "return", "done"}
  /\ alive \cap {Acceptor, Stat} # {} => stage \in {"run", "waitAccept"}
  /\ client => Acceptor \in alive /\ pc[Acceptor] = "idle"
  /\ \A t \in Workers \cup {Acceptor} : pc[t] # "idle" => t \in alive
  /\ freed => stage \in {"stopContent", "waitUpdate", "return", "done"}
  /\ stage \in Running => slot = 0
  /\ stage \in {"postNulls", "waitWorkers"} \/ freed => slot = MaxSession
  /\ freed /\ workerCount <= MAXIMUM_WAIT_OBJECTS => alive \cap Workers = {}
  /\ destroyed => stage = "done"
  /\ stage \in {"return", "done"} /\ ~StartMayFail => Updater \notin alive

ClosedInv ==
  \A s \in Slots : s < slot =>
    closeFlag[s] = 1 \/ (cur[Main] = s /\ pc[Main] = "close")

(* What the process's steps do to the engine. *)
LEMMA MainCases ==
  ASSUME TypeOK, StageInv, MainNext
  PROVE  \/ UNCHANGED vars
         \/ CallClose /\ Visit(slot) /\ slot \in Slots
         \/ CloseSession(Main) /\ UNCHANGED mainVars
         \/ /\ AcceptClient /\ AllocSession
            /\ Acceptor \in alive /\ pc[Main] = "idle" /\ stage \in Running
         \/ Engine(AcceptStep)
         \/ \E w \in Workers : Dequeue(w) \/ Engine(WorkerStep(w))
         \/ Engine(SendPacketCheckGeneration \/ Disconnect \/ UpdateStep)
<1>0. Acceptor \in Threads /\ Main \in Threads
  BY ThreadNames
<1>1. CASE CallClose
  <2>1. slot \in Slots
    BY <1>1, MaxSessionAssumption DEF CallClose, StageInv, Slots
  <2>2. pc[Acceptor] = "idle"
    BY <1>1 DEF CallClose, StageInv
  <2>3. Visit(slot)
    BY <1>1, <2>2 DEF CallClose, Visit
  <2> QED
    BY <1>1, <2>1, <2>3
<1>2. CASE AcceptClient
  <2>1. Acceptor \in alive /\ stage \in Running /\ pc[Main] = "idle"
    BY <1>2 DEF AcceptClient, StageInv, Running
  <2> QED
    BY <1>2, <2>1 DEF AcceptClient
<1>3. CASE \/ Engine(AcceptStep)
           \/ \E w \in Workers : Dequeue(w) \/ Engine(WorkerStep(w))
           \/ Updater \in alive /\ Engine(SendPacketCheckGeneration \/ Disconnect)
           \/ Engine(UpdateStep)
  BY <1>3 DEF Engine
<1>4. CASE CloseSession(Main) /\ UNCHANGED mainVars
  BY <1>4
<1>5. CASE \/ StartContent \/ Start \/ StartFails \/ StopListening \/ WaitAccept
           \/ CloseAllDone \/ PostNulls \/ FreeSessions \/ StopContent \/ WaitUpdate
           \/ Destroy
  BY <1>5 DEF StartContent, Start, StartFails, StopListening, WaitAccept,
     CloseAllDone, PostNulls, FreeSessions, StopContent, WaitUpdate, Destroy
<1>6. CASE \/ AcceptReturns \/ AcceptEnds \/ StatEnds \/ UpdateEnds
           \/ \E w \in Workers : WorkerEnds(w)
           \/ \E t \in Threads : UseAfterFree(t)
  BY <1>6 DEF AcceptReturns, AcceptEnds, StatEnds, UpdateEnds, WorkerEnds, UseAfterFree
<1> QED
  BY <1>1, <1>2, <1>3, <1>4, <1>5, <1>6 DEF MainNext, MainStep

(* Every step of the process is one of ServerNext or leaves the engine     *)
(* alone, and until Stop closes sessions it is one of TimelyNext.          *)
LEMMA MainShape ==
  ASSUME IInv, StageInv, [MainNext]_allVars
  PROVE  /\ [ServerNext]_vars
         /\ stage \in Running \/ isrun => [TimelyNext]_vars
<1>0. TypeOK /\ PlaceInv /\ Main \in Threads
  BY ThreadNames DEF IInv
<1>1. CASE UNCHANGED allVars
  BY <1>1 DEF allVars
<1>2. CASE MainNext
  <2>0. Timely
    BY <1>2 DEF MainNext
  <2>1. CASE CallClose /\ Visit(slot) /\ slot \in Slots
    BY <2>0, <2>1 DEF ServerNext, ServerStep, CallClose, StageInv, Running
  <2>2. CASE CloseSession(Main) /\ UNCHANGED mainVars
    <3>1. Walk(Main)
      BY <1>0, <2>2, CloseSessionWalk
    <3>2. stage \notin Running /\ ~isrun
      BY <3>1 DEF Walk, StageInv, Running
    <3> QED
      BY <2>0, <2>2, <3>2 DEF ServerNext, ServerStep
  <2>3. CASE AllocSession /\ pc[Main] = "idle"
    BY <2>0, <2>3 DEF ServerNext, ServerStep, TimelyNext, Next
  <2>4. CASE \/ Engine(AcceptStep)
             \/ \E w \in Workers : Dequeue(w) \/ Engine(WorkerStep(w))
             \/ Engine(SendPacketCheckGeneration \/ Disconnect \/ UpdateStep)
    <3>1. ThreadStep
      BY <2>4 DEF Engine, Dequeue, ThreadStep
    <3> QED
      BY <2>0, <3>1 DEF ServerNext, ServerStep, ThreadStep, TimelyNext, Next
  <2> QED
    BY <1>0, <1>2, <2>1, <2>2, <2>3, <2>4, MainCases
<1> QED
  BY <1>1, <1>2

(* A step of a thread that runs, or of the Update thread. *)
LEMMA StageMove ==
  ASSUME StageInv, UNCHANGED mainVars, NEW t \in Threads \ {Main}, Move(t),
         t \in Workers \cup {Acceptor} => t \in alive,
         t = Acceptor => ~client
  PROVE  StageInv'
<1>0. /\ UNCHANGED <<stage, slot, isrun, isRun, alive, client, nulls, freed, destroyed>>
      /\ \A u \in Threads \ {t} : pc'[u] = pc[u]
  BY DEF mainVars, procVars, Move
<1>1. pc'[Main] = pc[Main]
  BY <1>0, ThreadNames
<1>2. client => pc'[Acceptor] = pc[Acceptor]
  BY <1>0, ThreadNames
<1>3. \A u \in Workers \cup {Acceptor} : pc'[u] # "idle" => u \in alive
  <2> TAKE u \in Workers \cup {Acceptor}
  <2>1. u \in Threads
    BY ThreadNames
  <2> QED
    BY <1>0, <2>1 DEF StageInv
<1> QED
  BY <1>0, <1>1, <1>2, <1>3 DEF StageInv

(* The steps of main itself, and threads that start or end.                *)
LEMMA StageMain ==
  ASSUME TypeOK, StageInv, UNCHANGED vars, MainNext
  PROVE  StageInv'
<1> USE DEF Advance
<1>0. /\ UNCHANGED pc /\ Acceptor # Updater /\ Stat \notin Threads
      /\ Stat # Acceptor /\ Stat # Updater /\ Updater \in Threads
      /\ Acceptor \in Threads /\ Workers \subseteq Threads /\ Updater \notin Workers
      /\ Acceptor \notin Workers /\ Main \in Threads
  BY ThreadNames, MainAssumption DEF vars
<1>1. workerCount \in Nat /\ MAXIMUM_WAIT_OBJECTS \in Nat
  BY ThreadNames, MainAssumption, FS_CardinalityType DEF workerCount
<1>2. CASE StartContent
  BY <1>0, <1>2 DEF StartContent, StageInv, Running
<1>3. CASE Start
  BY <1>0, <1>3 DEF Start, StageInv, Running
<1>4. CASE StartFails
  BY <1>0, <1>4 DEF StartFails, StageInv, Running, procVars
<1>5. CASE StopListening
  BY <1>0, <1>5 DEF StopListening, StageInv, Running
<1>6. CASE WaitAccept
  BY <1>0, <1>6 DEF WaitAccept, StageInv, Running, procVars
<1>7. CASE CloseAllDone
  BY <1>0, <1>7 DEF CloseAllDone, StageInv, Running, procVars
<1>8. CASE PostNulls
  BY <1>0, <1>8 DEF PostNulls, StageInv, Running
<1>9. CASE FreeSessions
  BY <1>0, <1>1, <1>9 DEF FreeSessions, WaitWorkers, StageInv, Running
<1>10. CASE StopContent
  BY <1>0, <1>10 DEF StopContent, StageInv, Running
<1>11. CASE WaitUpdate
  BY <1>0, <1>11 DEF WaitUpdate, StageInv, Running, procVars
<1>12. CASE Destroy
  BY <1>0, <1>12 DEF Destroy, StageInv, Running
<1>13. CASE AcceptReturns
  BY <1>0, <1>13 DEF AcceptReturns, StageInv
<1>14. CASE AcceptClient
  BY <1>0, <1>14 DEF AcceptClient, StageInv
<1>15. CASE AcceptEnds
  BY <1>0, <1>15 DEF AcceptEnds, StageInv
<1>16. CASE StatEnds \/ UpdateEnds
  BY <1>0, <1>16 DEF StatEnds, UpdateEnds, StageInv
<1>17. CASE \E w \in Workers : WorkerEnds(w)
  BY <1>0, <1>17 DEF WorkerEnds, StageInv
<1>18. CASE \E t \in Threads : UseAfterFree(t)
  BY <1>0, <1>18 DEF UseAfterFree, StageInv
<1>19. CASE UNCHANGED mainVars
  BY <1>0, <1>19 DEF StageInv, mainVars, procVars
<1>20. CASE CallClose
  BY <1>0, <1>20 DEF CallClose, TypeOK
<1> QED
  BY <1>2, <1>3, <1>4, <1>5, <1>6, <1>7, <1>8, <1>9, <1>10, <1>11, <1>12, <1>13,
     <1>14, <1>15, <1>16, <1>17, <1>18, <1>19, <1>20
     DEF MainNext, MainStep, Engine, Dequeue

(* All steps. *)
LEMMA StageNext ==
  ASSUME IInv, TypeOK', StageInv, [MainNext]_allVars
  PROVE  StageInv'
<1>0. TypeOK /\ PlaceInv /\ Main \in Threads /\ Acceptor \in Threads \ {Main}
      /\ Updater \in Threads \ {Main} /\ Workers \subseteq Threads \ {Main}
      /\ Updater \notin Workers \cup {Acceptor} /\ Acceptor \notin Workers
  BY ThreadNames DEF IInv
<1>1. CASE UNCHANGED allVars
  BY <1>1 DEF allVars, vars, mainVars, procVars, StageInv
<1>2. CASE MainNext /\ UNCHANGED vars
  BY <1>0, <1>2, StageMain
<1>3. CASE CallClose
  <2>1. /\ \A t \in Threads \ {Main} : pc'[t] = pc[t]
        /\ stage = "closeAll" /\ slot < MaxSession /\ slot' = slot + 1
        /\ UNCHANGED <<stage, isrun, alive, client, freed, destroyed>>
    BY <1>0, <1>3 DEF CallClose, procVars, TypeOK
  <2>2. slot' \in 0 .. MaxSession
    BY <2>1, MaxSessionAssumption DEF StageInv
  <2>3. ~freed
    BY <2>1 DEF StageInv
  <2> QED
    BY <1>0, <2>1, <2>2, <2>3 DEF StageInv, Running
<1>4. CASE CloseSession(Main) /\ UNCHANGED mainVars
  <2>1. Walk(Main)
    BY <1>0, <1>4, CloseSessionWalk
  <2>2. /\ \A t \in Threads \ {Main} : pc'[t] = pc[t]
        /\ stage = "closeAll"
        /\ UNCHANGED <<stage, slot, isrun, alive, client, freed, destroyed>>
    BY <1>4, <2>1 DEF Walk, Move, StageInv, mainVars, procVars
  <2> QED
    BY <1>0, <2>2 DEF StageInv
<1>5. CASE AcceptClient /\ AllocSession /\ Acceptor \in alive
  <2>1. /\ \A t \in Threads \ {Acceptor} : pc'[t] = pc[t]
        /\ UNCHANGED <<stage, slot, isrun, alive, freed, destroyed>> /\ ~client'
    BY <1>0, <1>5 DEF AcceptClient, AllocSession, TypeOK
  <2> QED
    BY <1>0, <1>5, <2>1 DEF StageInv
<1>6. CASE Engine(AcceptStep)
  <2>1. Walk(Acceptor) /\ UNCHANGED mainVars
    BY <1>0, <1>6, AcceptWalk DEF Engine
  <2>2. Move(Acceptor) /\ Acceptor \in alive /\ ~client
    BY <2>1 DEF Walk, StageInv
  <2> QED
    BY <1>0, <2>1, <2>2, StageMove
<1>7. CASE \E w \in Workers : Dequeue(w) \/ Engine(WorkerStep(w))
  <2>1. PICK w \in Workers : Dequeue(w) \/ Engine(WorkerStep(w))
    BY <1>7
  <2>2. /\ UNCHANGED mainVars /\ Move(w) /\ w \in alive
    <3>1. CASE Dequeue(w)
      BY <1>0, <3>1, DequeueEnter DEF Dequeue, Engine, Enter
    <3>2. CASE Engine(WorkerStep(w))
      BY <1>0, <3>2, WorkerWalk DEF Engine, Walk, StageInv
    <3> QED
      BY <2>1, <3>1, <3>2
  <2> QED
    BY <1>0, <2>2, StageMove
<1>8. CASE Engine(SendPacketCheckGeneration \/ Disconnect \/ UpdateStep)
  <2>1. Move(Updater) /\ UNCHANGED mainVars
    BY <1>0, <1>8, UpdateEnter, UpdateWalk DEF Engine, Enter, Walk
  <2> QED
    BY <1>0, <2>1, StageMove
<1> QED
  BY <1>0, <1>1, <1>2, <1>3, <1>4, <1>5, <1>6, <1>7, <1>8, MainCases

(* No step of a thread reopens a session, and a step of a thread but main  *)
(* keeps the slots that Stop visited closed.                               *)
LEMMA ClosedReport ==
  ASSUME TypeOK, ClosedInv, NEW t \in Threads, Report(t), slot' = slot
  PROVE  ClosedInv'
<1>1. \A s \in Slots : closeFlag[s] = 1 => closeFlag'[s] = 1
  BY DEF Report, Mute, BeginsClose, AnnouncesEnd, CountsEnd, CountsBegin,
         AnnouncesBegin, TypeOK
<1> SUFFICES ASSUME NEW s \in Slots, s < slot
             PROVE  closeFlag'[s] = 1 \/ (cur'[Main] = s /\ pc'[Main] = "close")
  BY DEF ClosedInv
<1>2. CASE closeFlag[s] = 1
  BY <1>1, <1>2
<1>3. CASE cur[Main] = s /\ pc[Main] = "close"
  <2>1. CASE t = Main
    BY <1>3, <2>1 DEF Report
  <2>2. CASE t # Main
    BY <1>3, <2>2, ThreadNames DEF Report, Move
  <2> QED
    BY <2>1, <2>2
<1> QED
  BY <1>2, <1>3 DEF ClosedInv

(* Stop closes every slot, and the end of every session is announced. *)
LEMMA ClosedNext ==
  ASSUME IInv, TypeOK', StageInv, ClosedInv, LeftInv, [MainNext]_allVars
  PROVE  ClosedInv' /\ LeftInv'
<1>0. TypeOK /\ PlaceInv /\ Main \in Threads /\ Acceptor \in Threads
      /\ Updater \in Threads /\ Workers \subseteq Threads
  BY ThreadNames DEF IInv
<1>1. CASE UNCHANGED <<vars, slot>>
  BY <1>1 DEF vars, ClosedInv, LeftInv
<1>2. CASE CallClose /\ Visit(slot) /\ slot \in Slots
  <2>1. /\ \A t \in Threads \ {Main} : pc'[t] = pc[t] /\ cur'[t] = cur[t]
        /\ pc[Main] = "idle" /\ pc'[Main] = "close" /\ cur'[Main] = slot
        /\ UNCHANGED <<closeFlag, generation, joined, left>> /\ slot' = slot + 1
    BY <1>0, <1>2 DEF CallClose, Visit, TypeOK, lifeVars, contentVars
  <2>2. ClosedInv'
    <3> SUFFICES ASSUME NEW s \in Slots, s < slot + 1
                 PROVE  closeFlag[s] = 1 \/ slot = s
      BY <2>1 DEF ClosedInv
    <3>1. s < slot \/ s = slot
      BY <1>2 DEF Slots
    <3> QED
      BY <2>1, <3>1 DEF ClosedInv
  <2>3. LeftInv'
    BY <2>1 DEF LeftInv, BeforeLeave
  <2> QED
    BY <2>2, <2>3
<1>3. CASE AcceptClient /\ AllocSession /\ stage \in Running
  <2>1. slot' = 0
    BY <1>3 DEF AcceptClient, StageInv
  <2>2. ClosedInv'
    BY <2>1 DEF ClosedInv, Slots
  <2> QED
    BY <1>0, <1>3, <2>2, LeftAlloc
<1>4. ASSUME NEW t \in Threads, Report(t), UNCHANGED mainVars
      PROVE  ClosedInv' /\ LeftInv'
  BY <1>0, <1>4, ClosedReport, LeftReport DEF mainVars
<1>5. CASE CloseSession(Main) /\ UNCHANGED mainVars
  BY <1>0, <1>4, <1>5, CloseSessionReport
<1>6. CASE Engine(AcceptStep)
  BY <1>0, <1>4, <1>6, AcceptReport DEF Engine
<1>7. CASE \E w \in Workers : Dequeue(w) \/ Engine(WorkerStep(w))
  BY <1>0, <1>4, <1>7, WorkerReport DEF Engine, Dequeue
<1>8. CASE Engine(SendPacketCheckGeneration \/ Disconnect \/ UpdateStep)
  BY <1>0, <1>4, <1>8, UpdateReport DEF Engine
<1>9. CASE UNCHANGED allVars
  BY <1>1, <1>9 DEF allVars, mainVars
<1>10. CASE MainNext /\ UNCHANGED vars
  <2>1. CASE CallClose
    BY <1>0, <1>10, <2>1 DEF CallClose, TypeOK, vars
  <2>2. CASE ~CallClose
    <3>1. slot' = slot
      BY <1>10, <2>2 DEF MainNext, MainStep, StartContent, Start, StartFails,
         StopListening, WaitAccept, CloseAllDone, PostNulls, FreeSessions,
         StopContent, WaitUpdate, Destroy, AcceptReturns, AcceptClient, AcceptEnds,
         StatEnds, UpdateEnds, WorkerEnds, UseAfterFree, Engine, Dequeue, mainVars
    <3> QED
      BY <1>1, <1>10, <3>1
  <2> QED
    BY <2>1, <2>2
<1> QED
  BY <1>0, <1>2, <1>3, <1>5, <1>6, <1>7, <1>8, <1>9, <1>10, MainCases

MainInv == IInv /\ StageInv /\ ClosedInv /\ LeftInv

(* The process starts with it. *)
LEMMA InitMainInv == MainInit => MainInv
<1> SUFFICES ASSUME MainInit PROVE MainInv
  OBVIOUS
<1>1. IInv
  BY InitInvariant DEF MainInit
<1>2. Main \in Threads /\ Acceptor \in Threads /\ Workers \subseteq Threads
  BY ThreadNames
<1>3. StageInv
  BY <1>2, MaxSessionAssumption DEF MainInit, Init, StageInv, Running
<1>4. ClosedInv
  BY DEF MainInit, ClosedInv, Slots
<1>5. LeftInv
  BY DEF MainInit, Init, LeftInv
<1> QED
  BY <1>1, <1>3, <1>4, <1>5 DEF MainInv

(* Every step keeps it. *)
LEMMA NextMainInv ==
  ASSUME MainInv, [MainNext]_allVars
  PROVE  MainInv'
<1>1. IInv /\ StageInv /\ ClosedInv /\ LeftInv
  BY DEF MainInv
<1>2. [ServerNext]_vars
  BY <1>1, MainShape
<1>3. IInv'
  BY <1>1, <1>2, NextInvariant
<1>4. TypeOK'
  BY <1>3 DEF IInv
<1> QED
  BY <1>1, <1>3, <1>4, StageNext, ClosedNext DEF MainInv

(* The inductive invariant of the process. *)
THEOREM StopInvariant == MainSpec => []MainInv
BY InitMainInv, NextMainInv, PTL DEF MainSpec

(* Stop's loop runs CloseSession with no reference of its own, on slots    *)
(* that workers and the Update thread are using, closing or giving back.   *)
(* Throughout the life of the process the ioRefCount of every session      *)
(* there was is exact, and its slot is in the pool when and only when the  *)
(* count is zero: IORelease never pushes a slot that someone refers to.    *)
THEOREM CountSurvivesStop == MainSpec => []StopKeepsCount
<1>1. MainInv => StopKeepsCount
  BY DEF MainInv, IInv, RefInv, RefCounted, Pooled, StopKeepsCount
<1> QED
  BY <1>1, StopInvariant, PTL

(* If WaitForMultipleObjects takes all worker handles, then when Stop      *)
(* deletes the sessions OnClientLeave was called for every session that    *)
(* OnClientJoin announced, but for one that the Update thread is closing.  *)
THEOREM SessionsLeft ==
  ASSUME workerCount <= MAXIMUM_WAIT_OBJECTS
  PROVE  MainSpec => []EverySessionLeft
<1>1. MainInv => EverySessionLeft
  <2> SUFFICES ASSUME MainInv, freed, NEW s \in Slots
               PROVE  left[s] >= joined[s]
                        \/ (cur[Updater] = s /\ pc[Updater] \in CloseLabels)
    BY DEF EverySessionLeft
  <2>1. TypeOK /\ StageInv /\ ClosedInv /\ LeftInv
    BY DEF MainInv, IInv
  <2>2. /\ slot = MaxSession /\ pc[Main] = "idle" /\ alive \cap Workers = {}
        /\ Acceptor \notin alive
    BY <2>1 DEF StageInv
  <2>3. \A t \in Workers \cup {Acceptor} : pc[t] = "idle"
    BY <2>1, <2>2 DEF StageInv
  <2>4. closeFlag[s] = 1
    BY <2>1, <2>2, MaxSessionAssumption DEF ClosedInv, Slots
  <2>5. CASE left[s] = generation[s]
    BY <2>1, <2>5 DEF LeftInv, TypeOK
  <2>6. CASE \E t \in Threads : cur[t] = s /\ pc[t] \in BeforeLeave
    <3>1. PICK t \in Threads : cur[t] = s /\ pc[t] \in BeforeLeave
      BY <2>6
    <3>2. t = Updater
      BY <2>2, <2>3, <3>1 DEF BeforeLeave, Threads
    <3> QED
      BY <3>1, <3>2 DEF BeforeLeave, CloseLabels, ClosingLabels
  <2> QED
    BY <2>1, <2>4, <2>5, <2>6 DEF LeftInv
<1> QED
  BY <1>1, StopInvariant, PTL
-----------------------------------------------------------------------------
(* GetSessionCount.  Unless CreateIoCompletionPort fails, a session that   *)
(* has a slot was announced, or the accept thread is about to: so the      *)
(* thread that announces an end finds its session among those counted.     *)

ArrivalInv ==
  \A s \in Slots :
    joined[s] = generation[s] \/ (cur[Acceptor] = s /\ pc[Acceptor] \in BeforeJoin)

Present == {s \in Slots : joined[s] > left[s]}

Between == {t \in Threads : pc[t] \in {"join", "countLeave"}}

(* There are finitely many slots. *)
LEMMA SlotsFinite == IsFiniteSet(Slots)
<1>1. 0 \in Int /\ MaxSession - 1 \in Int
  BY MaxSessionAssumption
<1>2. IsFiniteSet(0 .. MaxSession - 1)
  BY <1>1, FS_Interval
<1> QED
  BY <1>2 DEF Slots

(* The sessions present and the threads between the two halves of an       *)
(* announcement change by at most one of each.                             *)
LEMMA CountSets ==
  ASSUME NEW t \in Threads, Move(t), NEW c \in Slots,
         \A s \in Slots \ {c} : joined'[s] = joined[s] /\ left'[s] = left[s]
  PROVE  /\ Cardinality(Present) \in Nat /\ Cardinality(Present)' \in Nat
         /\ Cardinality(Between) \in Nat /\ Cardinality(Between)' \in Nat
         /\ (c \in Present' <=> c \in Present) => Cardinality(Present)' = Cardinality(Present)
         /\ c \in Present /\ c \notin Present' => Cardinality(Present)' = Cardinality(Present) - 1
         /\ c \notin Present /\ c \in Present' => Cardinality(Present)' = Cardinality(Present) + 1
         /\ (t \in Between' <=> t \in Between) => Cardinality(Between)' = Cardinality(Between)
         /\ t \in Between /\ t \notin Between' => Cardinality(Between)' = Cardinality(Between) - 1
         /\ t \notin Between /\ t \in Between' => Cardinality(Between)' = Cardinality(Between) + 1
<1>1. IsFiniteSet(Slots) /\ IsFiniteSet(Threads)
  BY ThreadNames, SlotsFinite
<1>2. /\ Present \in SUBSET Slots /\ Present' \in SUBSET Slots
      /\ Between \in SUBSET Threads /\ Between' \in SUBSET Threads
  BY DEF Present, Between
<1>3. Present \ {c} = Present' \ {c}
  BY DEF Present
<1>4. Between \ {t} = Between' \ {t}
  BY DEF Between, Move
<1>5. /\ Cardinality(Present) \in Nat /\ Cardinality(Present') \in Nat
      /\ (c \in Present <=> c \in Present') => Cardinality(Present') = Cardinality(Present)
      /\ c \in Present /\ c \notin Present' => Cardinality(Present') = Cardinality(Present) - 1
      /\ c \notin Present /\ c \in Present' => Cardinality(Present') = Cardinality(Present) + 1
  BY <1>1, <1>2, <1>3, CardUpdate
<1>6. /\ Cardinality(Between) \in Nat /\ Cardinality(Between') \in Nat
      /\ (t \in Between <=> t \in Between') => Cardinality(Between') = Cardinality(Between)
      /\ t \in Between /\ t \notin Between' => Cardinality(Between') = Cardinality(Between) - 1
      /\ t \notin Between /\ t \in Between' => Cardinality(Between') = Cardinality(Between) + 1
  BY <1>1, <1>2, <1>4, CardUpdate
<1> QED
  BY <1>5, <1>6

(* A step of a thread keeps the session count. *)
LEMMA CountReport ==
  ASSUME RunInv, TypeOK', EventsInv, ArrivalInv, SessionCountAccurate, ~AssocMayFail,
         NEW t \in Threads, Report(t)
  PROVE  SessionCountAccurate' /\ ArrivalInv'
<1>0. /\ TypeOK /\ UsedInv /\ AcceptInv /\ OneCloser /\ pc[Main] = "idle"
      /\ Move(t) /\ generation' = generation /\ Acceptor \in Threads
  BY ThreadNames DEF RunInv, IInv, RefInv, Report
<1>c. PICK c \in Slots : c = cur[t]
  BY <1>0 DEF TypeOK
<1>t. /\ totalAccept \in Nat /\ totalDisconn \in Nat
      /\ joined[c] \in Nat /\ left[c] \in Nat /\ generation[c] \in Nat
  BY <1>0 DEF TypeOK
<1>s. /\ SlotEvents(c) /\ ThreadEvents(t)
      /\ pc[t] # "idle" => generation[c] # 0
  BY <1>0, <1>c DEF EventsInv, UsedInv
<1>n. totalAccept - totalDisconn = Cardinality(Present) + Cardinality(Between)
  BY DEF SessionCountAccurate, GetSessionCount, Present, Between
<1>a. SUFFICES /\ totalAccept' - totalDisconn'
                    = Cardinality(Present)' + Cardinality(Between)'
               /\ ArrivalInv'
  BY DEF SessionCountAccurate, GetSessionCount, Present, Between
<1>b. /\ t \in Between <=> pc[t] \in {"join", "countLeave"}
      /\ t \in Between' <=> pc'[t] \in {"join", "countLeave"}
      /\ c \in Present <=> joined[c] > left[c]
      /\ c \in Present' <=> joined'[c] > left'[c]
  BY DEF Between, Present
<1>1. CASE Mute(t)
  <2>1. /\ UNCHANGED <<joined, left, totalAccept, totalDisconn>>
        /\ t \in Between' <=> t \in Between
        /\ c \in Present' <=> c \in Present
    BY <1>1, <1>b DEF Mute
  <2>2. /\ Cardinality(Present)' = Cardinality(Present)
        /\ Cardinality(Between)' = Cardinality(Between)
    BY <1>0, <2>1, CountSets
  <2>3. ArrivalInv'
    <3>1. ASSUME NEW s \in Slots, cur[Acceptor] = s, pc[Acceptor] \in BeforeJoin
          PROVE  cur'[Acceptor] = s /\ pc'[Acceptor] \in BeforeJoin
      <4>1. CASE t = Acceptor
        BY <1>1, <3>1, <4>1 DEF Mute, Marked
      <4>2. CASE t # Acceptor
        BY <1>0, <3>1, <4>2 DEF Move
      <4> QED
        BY <4>1, <4>2
    <3> QED
      BY <1>0, <2>1, <3>1 DEF ArrivalInv
  <2> QED
    BY <1>n, <2>1, <2>2, <2>3
<1>2. ASSUME cur' = cur, UNCHANGED joined, pc[t] \notin BeforeJoin \/ pc'[t] \in BeforeJoin
      PROVE  ArrivalInv'
  BY <1>0, <1>2 DEF ArrivalInv, Move
<1>3. CASE BeginsClose(t)
  <2>1. /\ UNCHANGED <<joined, left, totalAccept, totalDisconn>>
        /\ t \in Between' <=> t \in Between
        /\ c \in Present' <=> c \in Present
    BY <1>3, <1>b DEF BeginsClose
  <2>2. /\ Cardinality(Present)' = Cardinality(Present)
        /\ Cardinality(Between)' = Cardinality(Between)
    BY <1>0, <2>1, CountSets
  <2>3. ArrivalInv'
    BY <1>2, <1>3 DEF BeginsClose, BeforeJoin
  <2> QED
    BY <1>n, <2>1, <2>2, <2>3
<1>4. CASE AnnouncesEnd(t)
  <2>1. /\ UNCHANGED <<joined, totalAccept, totalDisconn>>
        /\ t \notin Between /\ t \in Between'
        /\ left'[c] = generation[c] /\ \A s \in Slots \ {c} : left'[s] = left[s]
    BY <1>0, <1>4, <1>b, <1>c DEF AnnouncesEnd, TypeOK
  <2>2. left[c] < generation[c]
    BY <1>4, <1>c, <1>s DEF AnnouncesEnd, SlotEvents, Open, BeforeLeave
  <2>3. joined[c] = generation[c]
    <3>1. t \in Closers(c)
      BY <1>4, <1>c DEF AnnouncesEnd, Closers, ClosingLabels
    <3>2. closeFlag[c] = 1
      BY <1>0, <3>1 DEF OneCloser
    <3>3. ~(cur[Acceptor] = c /\ pc[Acceptor] \in BeforeJoin)
      BY <1>0, <3>2 DEF AcceptInv, SoleLabels, BeforeJoin
    <3> QED
      BY <3>3 DEF ArrivalInv
  <2>4. c \in Present /\ c \notin Present'
    BY <1>b, <1>t, <2>1, <2>2, <2>3
  <2>5. /\ Cardinality(Present) \in Nat /\ Cardinality(Between) \in Nat
        /\ Cardinality(Present)' = Cardinality(Present) - 1
        /\ Cardinality(Between)' = Cardinality(Between) + 1
    BY <1>0, <2>1, <2>4, CountSets
  <2>6. ArrivalInv'
    BY <1>2, <1>4 DEF AnnouncesEnd, BeforeJoin
  <2> QED
    BY <1>n, <2>1, <2>5, <2>6
<1>5. CASE CountsEnd(t)
  <2>1. /\ UNCHANGED <<joined, left, totalAccept>> /\ totalDisconn' = totalDisconn + 1
        /\ t \in Between /\ t \notin Between'
        /\ c \in Present' <=> c \in Present
    BY <1>5, <1>b DEF CountsEnd
  <2>2. /\ Cardinality(Present) \in Nat /\ Cardinality(Between) \in Nat
        /\ Cardinality(Present)' = Cardinality(Present)
        /\ Cardinality(Between)' = Cardinality(Between) - 1
    BY <1>0, <2>1, CountSets
  <2>3. ArrivalInv'
    BY <1>2, <1>5 DEF CountsEnd, BeforeJoin
  <2> QED
    BY <1>n, <1>t, <2>1, <2>2, <2>3
<1>6. CASE CountsBegin(t)
  <2>1. /\ UNCHANGED <<joined, left, totalDisconn>> /\ totalAccept' = totalAccept + 1
        /\ t \notin Between /\ t \in Between'
        /\ c \in Present' <=> c \in Present
    BY <1>6, <1>b DEF CountsBegin
  <2>2. /\ Cardinality(Present) \in Nat /\ Cardinality(Between) \in Nat
        /\ Cardinality(Present)' = Cardinality(Present)
        /\ Cardinality(Between)' = Cardinality(Between) + 1
    BY <1>0, <2>1, CountSets
  <2>3. ArrivalInv'
    BY <1>2, <1>6 DEF CountsBegin, BeforeJoin
  <2> QED
    BY <1>n, <1>t, <2>1, <2>2, <2>3
<1>7. CASE AnnouncesBegin(t)
  <2>1. /\ UNCHANGED <<left, totalAccept, totalDisconn, cur>>
        /\ t \in Between /\ t \notin Between' /\ t = Acceptor
        /\ joined'[c] = generation[c] /\ \A s \in Slots \ {c} : joined'[s] = joined[s]
    BY <1>0, <1>7, <1>b, <1>c DEF AnnouncesBegin, TypeOK
  <2>2. joined[c] < generation[c]
    BY <1>7, <1>c, <1>s DEF AnnouncesBegin, ThreadEvents, BeforeJoin
  <2>3. joined[c] <= left[c]
    BY <1>s, <1>t, <2>2 DEF SlotEvents
  <2>4. left[c] < generation[c]
    BY <1>0, <1>7, <1>c, <1>s, <2>1
       DEF AnnouncesBegin, AcceptInv, SoleLabels, SlotEvents, Open
  <2>5. c \notin Present /\ c \in Present'
    BY <1>b, <1>t, <2>1, <2>3, <2>4
  <2>6. /\ Cardinality(Present) \in Nat /\ Cardinality(Between) \in Nat
        /\ Cardinality(Present)' = Cardinality(Present) + 1
        /\ Cardinality(Between)' = Cardinality(Between) - 1
    BY <1>0, <2>1, <2>5, CountSets
  <2>7. ArrivalInv'
    BY <1>0, <1>c, <2>1 DEF ArrivalInv
  <2> QED
    BY <1>n, <2>1, <2>6, <2>7
<1> QED
  BY <1>1, <1>3, <1>4, <1>5, <1>6, <1>7 DEF Report

(* The allocation of a slot changes no count, and the accept thread goes   *)
(* on to announce the session.                                             *)
LEMMA CountAlloc ==
  ASSUME TypeOK, ArrivalInv, SessionCountAccurate, AllocSession
  PROVE  SessionCountAccurate' /\ ArrivalInv'
<1>1. PICK c \in Slots : Allocate(c)
  BY AllocShape
<1>2. UNCHANGED <<joined, left, totalAccept, totalDisconn>> /\ Acceptor \in Threads
  BY ThreadNames DEF AllocSession, contentVars
<1>3. \A t \in Threads : pc'[t] \in {"join", "countLeave"} <=> pc[t] \in {"join", "countLeave"}
  BY <1>1 DEF Allocate, Move
<1>4. SessionCountAccurate'
  BY <1>2, <1>3 DEF SessionCountAccurate, GetSessionCount
<1>5. ArrivalInv'
  BY <1>1, <1>2 DEF ArrivalInv, Allocate, BeforeJoin
<1> QED
  BY <1>4, <1>5

CountingInv == RunInv /\ EventsInv /\ ArrivalInv /\ SessionCountAccurate

(* Nobody is announced or counted at the start. *)
LEMMA InitCounting == Init => CountingInv
<1> SUFFICES ASSUME Init PROVE CountingInv
  OBVIOUS
<1>1. RunInv /\ EventsInv
  BY InitRunInv, InitEvents
<1>2. ArrivalInv
  BY DEF Init, ArrivalInv
<1>3. Present = {} /\ Between = {}
  BY DEF Init, Present, Between
<1>4. totalAccept - totalDisconn = Cardinality(Present) + Cardinality(Between)
  BY <1>3, FS_EmptySet DEF Init
<1>5. SessionCountAccurate
  BY <1>4 DEF SessionCountAccurate, GetSessionCount, Present, Between
<1> QED
  BY <1>1, <1>2, <1>5 DEF CountingInv

(* Every step of the engine keeps the session count. *)
LEMMA NextCounting ==
  ASSUME ~AssocMayFail, CountingInv, [TimelyNext]_vars
  PROVE  CountingInv'
<1>0. /\ RunInv /\ EventsInv /\ ArrivalInv /\ SessionCountAccurate /\ TypeOK
  BY DEF CountingInv, RunInv, IInv
<1>1. RunInv' /\ EventsInv'
  BY <1>0, NextRunInv, NextEvents
<1>2. TypeOK'
  BY <1>1 DEF RunInv, IInv
<1>3. CASE UNCHANGED vars
  BY <1>0, <1>1, <1>3
     DEF CountingInv, vars, ArrivalInv, SessionCountAccurate, GetSessionCount
<1>4. CASE AllocSession
  BY <1>0, <1>1, <1>4, CountAlloc DEF CountingInv
<1>5. ASSUME NEW t \in Threads, Report(t)
      PROVE  CountingInv'
  BY <1>0, <1>1, <1>2, <1>5, CountReport DEF CountingInv
<1>6. CASE AcceptStep
  BY <1>0, <1>5, <1>6, AcceptReport, ThreadNames
<1>7. CASE \E w \in Workers : DequeueRecv(w) \/ DequeueSend(w) \/ WorkerStep(w)
  BY <1>0, <1>5, <1>7, WorkerReport, ThreadNames
<1>8. CASE SendPacketCheckGeneration \/ Disconnect \/ UpdateStep
  BY <1>0, <1>5, <1>8, UpdateReport, ThreadNames
<1> QED
  BY <1>3, <1>4, <1>6, <1>7, <1>8 DEF TimelyNext, Next

(* If CreateIoCompletionPort does not fail, then as long as the server     *)
(* runs GetSessionCount is the number of sessions announced by             *)
(* OnClientJoin and not yet by OnClientLeave, up to the threads between    *)
(* the two halves of an announcement, although totalAccept and             *)
(* totalDisconn are counted by different threads at different times.       *)
THEOREM CountWhileServing ==
  ASSUME ~AssocMayFail
  PROVE  MainSpec => []CountWhileRunning
<1> DEFINE ServingInv == stage \in Running \/ isrun => CountingInv
<1>1. MainInit => ServingInv
  BY InitCounting DEF MainInit
<1>2. MainInv /\ ServingInv /\ [MainNext]_allVars => ServingInv'
  <2> SUFFICES ASSUME MainInv, ServingInv, [MainNext]_allVars,
                      stage' \in Running \/ isrun'
               PROVE  CountingInv'
    OBVIOUS
  <2>1. IInv /\ StageInv
    BY DEF MainInv
  <2>2. stage \in Running \/ isrun
    BY DEF MainNext, MainStep, StartContent, Start, StartFails, StopListening,
       WaitAccept, CallClose, CloseAllDone, PostNulls, FreeSessions, StopContent,
       WaitUpdate, Destroy, AcceptReturns, AcceptClient, AcceptEnds, StatEnds,
       UpdateEnds, WorkerEnds, UseAfterFree, Engine, Dequeue, Advance, allVars,
       mainVars, procVars, Running
  <2>3. [TimelyNext]_vars
    BY <2>1, <2>2, MainShape
  <2>4. CountingInv
    BY <2>2
  <2> QED
    BY <2>3, <2>4, NextCounting
<1>3. MainInv /\ ServingInv => CountWhileRunning
  BY DEF CountingInv, CountWhileRunning
<1> QED
  BY <1>1, <1>2, <1>3, StopInvariant, PTL DEF MainSpec

(* The engine by itself counts its sessions right under the same           *)
(* assumption; LanSessionCount.cfg shows that it needs it.                 *)
THEOREM SessionCount ==
  ASSUME ~AssocMayFail
  PROVE  TimelySpec => []SessionCountAccurate
<1>1. CountingInv => SessionCountAccurate
  BY DEF CountingInv
<1> QED
  BY <1>1, InitCounting, NextCounting, PTL DEF TimelySpec

(* With no more workers than WaitForMultipleObjects takes, Stop deletes    *)
(* the sessions only when the accept thread, the statistics thread and all *)
(* workers have ended; MainWaitObjects.cfg has one worker too many.        *)
THEOREM WorkersEnd ==
  ASSUME workerCount <= MAXIMUM_WAIT_OBJECTS
  PROVE  MainSpec => []WorkersEndedFirst
<1>1. MainInv => WorkersEndedFirst
  BY DEF MainInv, StageInv, WorkersEndedFirst
<1> QED
  BY <1>1, StopInvariant, PTL

(* If Start does not fail, the Update thread has ended before main returns *)
(* and ~CChatServer deletes what it works on; MainStartFails.cfg shows the *)
(* path on which main returns with the thread running.                     *)
THEOREM UpdateEndsFirst ==
  ASSUME ~StartMayFail
  PROVE  MainSpec => []ContentOutlivesUpdate
<1>1. MainInv => ContentOutlivesUpdate
  BY DEF MainInv, StageInv, ContentOutlivesUpdate
<1> QED
  BY <1>1, StopInvariant, PTL
=============================================================================
