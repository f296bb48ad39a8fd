------------------------------ MODULE CPacket ------------------------------
(***************************************************************************)
(* The life of a CPacket (myIOCP/CPacket.cpp): allocated from a pool,      *)
(* shared by reference count between a worker, the content queue, the      *)
(* Update thread and the send queues of several sessions, and back to the  *)
(* pool by whoever drops the last reference.                               *)
(*                                                                         *)
(* The users are the code paths that call Alloc, AddRef and Release:       *)
(* OnRecvComplete and OnRecv, UpdateLoop and its handlers (a broadcast is  *)
(* one packet sent to a set of sessions), SendPacket, FlushSend,           *)
(* OnSendComplete and CloseSession.  Each interlocked operation on         *)
(* refCount is a step.  A Release is a decrement and, when that gives 0, a *)
(* push to the pool, which is a later step: until then the thread owes it. *)
(*                                                                         *)
(* The content of a packet is a number, new with every packet written.  An *)
(* entry of a queue also remembers the content the packet had when it was  *)
(* queued.  Of a session only what decides about its packets is kept; its  *)
(* slot is not reused (CLanServer models that).  FlushSend's exchange of   *)
(* sendPending, its critical section and WSASend are one step here, the    *)
(* critical section of CloseSession is a loop of steps that excludes it.   *)
(***************************************************************************)
EXTENDS Integers, Sequences, FiniteSets

CONSTANTS
  Packets,       \* addresses of CPackets; a bound on "new CPacket"
  Sessions,
  Workers,
  Updater,
  NoPacket,
  Qsize,
  MaxWrites,     \* bound: packets written
  AsyncMayFail   \* may a posted send complete with an error?

ASSUME PacketAssumption ==
  /\ Updater \notin Workers
  /\ NoPacket \notin Packets
  /\ Qsize \in Nat \ {0}
  /\ MaxWrites \in Nat
  /\ AsyncMayFail \in BOOLEAN

Threads == Workers \cup {Updater}

VARIABLES
  pool,       \* CPacket::pool, last element on top
  created,    \* packets that exist
  refCount,
  content,    \* what was last written to the packet
  writes,     \* number of packets written so far
  contentQ,   \* MSG_RECV messages
  sendQ, sendPkts, sendPending, closeFlag, posted,   \* of each session
  pc, cur,    \* where a thread is, and on which session it works
  mine,       \* the packet a thread allocated and has not released
  owed,       \* the packet a thread must push to the pool
  msg,        \* the message the Update thread handles
  todo        \* sessions a packet of the Update thread is still to be sent to

poolVars == <<pool, created, refCount, content, writes, owed>>
sessVars == <<sendQ, sendPkts, sendPending, closeFlag, posted>>
threadVars == <<pc, cur, mine, msg, todo>>
vars == <<poolVars, contentQ, sessVars, threadVars>>

Init ==
  /\ pool = <<>>
  /\ created = {}
  /\ refCount = [p \in Packets |-> 0]
  /\ content = [p \in Packets |-> 0]
  /\ writes = 0
  /\ contentQ = <<>>
  /\ sendQ = [s \in Sessions |-> <<>>]
  /\ sendPkts = [s \in Sessions |-> <<>>]
  /\ sendPending = [s \in Sessions |-> FALSE]
  /\ closeFlag = [s \in Sessions |-> FALSE]
  /\ posted = [s \in Sessions |-> FALSE]
  /\ pc = [t \in Threads |-> "idle"]
  /\ cur \in [Threads -> Sessions]
  /\ mine = [t \in Threads |-> NoPacket]
  /\ owed = [t \in Threads |-> NoPacket]
  /\ msg = NoPacket
  /\ todo = {}

At(t, label) == pc[t] = label /\ owed[t] = NoPacket
Goto(t, label) == pc' = [pc EXCEPT ![t] = label]
Entry(p) == [pkt |-> p, content |-> content[p]]
-----------------------------------------------------------------------------
(* CPacket *)

(* Pop from the pool, or new; then refCount = 1 and the caller's content.  *)
Alloc(t) ==
  /\ writes < MaxWrites
  /\ \E p \in Packets :
       /\ IF pool # <<>>
            THEN /\ p = pool[Len(pool)]
                 /\ pool' = SubSeq(pool, 1, Len(pool) - 1)
                 /\ UNCHANGED created
            ELSE /\ p \notin created
                 /\ created' = created \cup {p}
                 /\ UNCHANGED pool
       /\ refCount' = [refCount EXCEPT ![p] = 1]
       /\ content' = [content EXCEPT ![p] = writes + 1]
       /\ mine' = [mine EXCEPT ![t] = p]
  /\ writes' = writes + 1
  /\ UNCHANGED owed

AddRef(p) == refCount' = [refCount EXCEPT ![p] = @ + 1]

Release_FaultyAtOne(t, p) ==
  /\ refCount' = [refCount EXCEPT ![p] = @ - 1]
  /\ owed' = IF refCount[p] = 1 \/ refCount[p] = 2 THEN [owed EXCEPT ![t] = p]
                                                   ELSE owed

Release(t, p) ==
  /\ refCount' = [refCount EXCEPT ![p] = @ - 1]
  /\ owed' = IF refCount[p] - 1 = 0 THEN [owed EXCEPT ![t] = p] ELSE owed

(* The pool.Push of a Release that counted down to 0. *)
ReleasePush(t) ==
  /\ owed[t] # NoPacket
  /\ pool' = Append(pool, owed[t])
  /\ owed' = [owed EXCEPT ![t] = NoPacket]
  /\ UNCHANGED <<created, refCount, content, writes, contentQ, sessVars, threadVars>>
-----------------------------------------------------------------------------
(* OnRecvComplete and OnRecv, by a worker *)

RecvAlloc(w) ==
  /\ At(w, "idle")
  /\ Alloc(w)
  /\ cur' \in {[cur EXCEPT ![w] = s] : s \in Sessions}
  /\ Goto(w, "recv")
  /\ UNCHANGED <<contentQ, sessVars, msg, todo>>

(* Decode refused the packet. *)
RecvReject(w) ==
  /\ At(w, "recv")
  /\ Release(w, mine[w])
  /\ mine' = [mine EXCEPT ![w] = NoPacket]
  /\ Goto(w, "close")
  /\ UNCHANGED <<pool, created, content, writes, contentQ, sessVars, cur, msg, todo>>

OnRecv_FaultyNoAddRef(w) ==
  /\ At(w, "recv")
  /\ contentQ' = Append(contentQ, Entry(mine[w]))
  /\ Goto(w, "received")
  /\ UNCHANGED <<poolVars, sessVars, cur, mine, msg, todo>>

OnRecv(w) ==
  /\ At(w, "recv")
  /\ AddRef(mine[w])
  /\ contentQ' = Append(contentQ, Entry(mine[w]))
  /\ Goto(w, "received")
  /\ UNCHANGED <<pool, created, content, writes, owed, sessVars, cur, mine, msg, todo>>

RecvRelease(w) ==
  /\ At(w, "received")
  /\ Release(w, mine[w])
  /\ mine' = [mine EXCEPT ![w] = NoPacket]
  /\ Goto(w, "idle")
  /\ UNCHANGED <<pool, created, content, writes, contentQ, sessVars, cur, msg, todo>>
-----------------------------------------------------------------------------
(* UpdateLoop and its handlers *)

PopMessage ==
  /\ At(Updater, "idle")
  /\ contentQ # <<>>
  /\ msg' = Head(contentQ).pkt
  /\ contentQ' = Tail(contentQ)
  /\ Goto(Updater, "handle")
  /\ UNCHANGED <<poolVars, sessVars, cur, mine, todo>>

(* A handler, or Handle_DbResult with no message, writes a packet and      *)
(* sends it to some sessions; HandleRoomEnter does so twice.               *)
HandlerAlloc ==
  /\ At(Updater, "handle") \/ At(Updater, "idle")
  /\ mine[Updater] = NoPacket
  /\ Alloc(Updater)
  /\ todo' \in SUBSET Sessions
  /\ Goto(Updater, "send")
  /\ UNCHANGED <<contentQ, sessVars, cur, msg>>

HandlerRelease ==
  /\ At(Updater, "send")
  /\ todo = {}
  /\ Release(Updater, mine[Updater])
  /\ mine' = [mine EXCEPT ![Updater] = NoPacket]
  /\ Goto(Updater, IF msg = NoPacket THEN "idle" ELSE "handle")
  /\ UNCHANGED <<pool, created, content, writes, contentQ, sessVars, cur, msg, todo>>

(* The handler returns: msg.pkt->Release(). *)
MessageRelease ==
  /\ At(Updater, "handle")
  /\ Release(Updater, msg)
  /\ msg' = NoPacket
  /\ Goto(Updater, "idle")
  /\ UNCHANGED <<pool, created, content, writes, contentQ, sessVars, cur, mine, todo>>
-----------------------------------------------------------------------------
(* SendPacket, FlushSend, OnSendComplete, CloseSession *)

SendPacket_FaultyReleasesOnFailure(s) ==
  /\ At(Updater, "send")
  /\ s \in todo
  /\ todo' = todo \ {s}
  /\ cur' = [cur EXCEPT ![Updater] = s]
  /\ IF closeFlag[s] THEN Release(Updater, mine[Updater]) /\ UNCHANGED pc
                     ELSE Goto(Updater, "enqueue") /\ UNCHANGED <<refCount, owed>>
  /\ UNCHANGED <<pool, created, content, writes, contentQ, sessVars, mine, msg>>

(* The test of closeFlag; on failure the caller keeps its reference. *)
SendPacket(s) ==
  /\ At(Updater, "send")
  /\ s \in todo
  /\ todo' = todo \ {s}
  /\ cur' = [cur EXCEPT ![Updater] = s]
  /\ Goto(Updater, IF closeFlag[s] THEN "send" ELSE "enqueue")
  /\ UNCHANGED <<poolVars, contentQ, sessVars, mine, msg>>

(* sendLock is held by a CloseSession that empties the queue and by the    *)
(* Update thread from the insertion to the end of FlushSend.               *)
CanLock(t, s) ==
  \A u \in Threads \ {t} :
    cur[u] = s => pc[u] # "drain" /\ ~(u = Updater /\ pc[u] \in {"flush", "undo"})

SendPacketEnqueue ==
  LET s == cur[Updater] IN
  /\ At(Updater, "enqueue")
  /\ CanLock(Updater, s)
  /\ IF Len(sendQ[s]) >= Qsize
       THEN Goto(Updater, "close") /\ UNCHANGED <<refCount, sendQ>>
       ELSE /\ AddRef(mine[Updater])
            /\ sendQ' = [sendQ EXCEPT ![s] = Append(@, Entry(mine[Updater]))]
            /\ Goto(Updater, "flush")
  /\ UNCHANGED <<pool, created, content, writes, owed, contentQ, sendPkts,
                 sendPending, closeFlag, posted, cur, mine, msg, todo>>

Home(t) == IF t = Updater THEN "send" ELSE "idle"

(* closesocket comes after the exchange of closeFlag and before the        *)
(* critical section of CloseSession.                                       *)
SocketOpen(s) ==
  ~closeFlag[s] \/ \E t \in Threads : cur[t] = s /\ pc[t] = "closing"

(* FlushSend: return when a send is under way; else the whole queue goes   *)
(* to WSASend, which is accepted or fails at once (always on a closed      *)
(* socket).  One step: the exchange gives the queue's entries and sendPkts *)
(* to this thread, and nobody else reads them before WSASend.              *)
FlushSend(t) ==
  LET s == cur[t] IN
  /\ At(t, "flush")
  /\ IF sendPending[s]
       THEN Goto(t, Home(t)) /\ UNCHANGED <<sendQ, sendPkts, sendPending, posted>>
       ELSE /\ CanLock(t, s)
            /\ sendPending' = [sendPending EXCEPT ![s] = TRUE]
            /\ sendPkts' = [sendPkts EXCEPT ![s] = sendQ[s]]
            /\ sendQ' = [sendQ EXCEPT ![s] = <<>>]
            /\ \/ /\ SocketOpen(s)
                  /\ posted' = [posted EXCEPT ![s] = TRUE]
                  /\ Goto(t, Home(t))
               \/ Goto(t, "undo") /\ UNCHANGED posted
  /\ UNCHANGED <<poolVars, contentQ, closeFlag, cur, mine, msg, todo>>

(* A worker dequeues the completion of a send. *)
SendCompletes(w, s) ==
  /\ At(w, "idle")
  /\ posted[s]
  /\ posted' = [posted EXCEPT ![s] = FALSE]
  /\ cur' = [cur EXCEPT ![w] = s]
  /\ Goto(w, "sent") \/ (AsyncMayFail /\ Goto(w, "close"))
  /\ UNCHANGED <<poolVars, contentQ, sendQ, sendPkts, sendPending, closeFlag, mine,
                 msg, todo>>

ReleaseSent_FaultyForgets(t) ==
  LET s == cur[t] IN
  /\ At(t, "sent") \/ At(t, "undo")
  /\ sendPkts' = [sendPkts EXCEPT ![s] = <<>>]
  /\ sendPending' = [sendPending EXCEPT ![s] = FALSE]
  /\ Goto(t, IF pc[t] = "undo" THEN "close" ELSE "recheck")
  /\ UNCHANGED <<poolVars, contentQ, sendQ, closeFlag, posted, cur, mine, msg, todo>>

(* The loops over sendPkts in OnSendComplete and after a failed WSASend.   *)
(* After the last packet sendPending is cleared.                           *)
ReleaseSent(t) ==
  LET s == cur[t] IN
  /\ At(t, "sent") \/ At(t, "undo")
  /\ IF sendPkts[s] # <<>>
       THEN /\ Release(t, Head(sendPkts[s]).pkt)
            /\ sendPkts' = [sendPkts EXCEPT ![s] = Tail(@)]
            /\ UNCHANGED <<sendPending, pc>>
       ELSE /\ sendPending' = [sendPending EXCEPT ![s] = FALSE]
            /\ Goto(t, IF pc[t] = "undo" THEN "close" ELSE "recheck")
            /\ UNCHANGED <<refCount, owed, sendPkts>>
  /\ UNCHANGED <<pool, created, content, writes, contentQ, sendQ, closeFlag, posted,
                 cur, mine, msg, todo>>

OnSendCompleteRecheck(w) ==
  /\ At(w, "recheck")
  /\ Goto(w, IF sendQ[cur[w]] # <<>> THEN "flush" ELSE "idle")
  /\ UNCHANGED <<poolVars, contentQ, sessVars, cur, mine, msg, todo>>

(* CloseSession may be called at any time by a worker: the peer is gone. *)
PeerGone(w, s) ==
  /\ At(w, "idle")
  /\ cur' = [cur EXCEPT ![w] = s]
  /\ ~closeFlag[s]
  /\ Goto(w, "close")
  /\ UNCHANGED <<poolVars, contentQ, sessVars, mine, msg, todo>>

CloseSession(t) ==
  /\ At(t, "close")
  /\ closeFlag' = [closeFlag EXCEPT ![cur[t]] = TRUE]
  /\ IF closeFlag[cur[t]]
       THEN Goto(t, Home(t))
       ELSE Goto(t, "closing")
  /\ UNCHANGED <<poolVars, contentQ, sendQ, sendPkts, sendPending, posted, cur, mine,
                 msg, todo>>

CloseSessionLock(t) ==
  /\ At(t, "closing")
  /\ CanLock(t, cur[t])
  /\ Goto(t, "drain")
  /\ UNCHANGED <<poolVars, contentQ, sessVars, cur, mine, msg, todo>>

CloseSessionDrain(t) ==
  LET s == cur[t] IN
  /\ At(t, "drain")
  /\ IF sendQ[s] # <<>>
       THEN /\ Release(t, Head(sendQ[s]).pkt)
            /\ sendQ' = [sendQ EXCEPT ![s] = Tail(@)]
            /\ UNCHANGED pc
       ELSE Goto(t, Home(t)) /\ UNCHANGED <<refCount, owed, sendQ>>
  /\ UNCHANGED <<pool, created, content, writes, contentQ, sendPkts, sendPending,
                 closeFlag, posted, cur, mine, msg, todo>>
-----------------------------------------------------------------------------
SessionStep(t) ==
  \/ FlushSend(t) \/ ReleaseSent(t)
  \/ CloseSession(t) \/ CloseSessionLock(t) \/ CloseSessionDrain(t)

WorkerStep(w) ==
  \/ ReleasePush(w) \/ RecvReject(w) \/ OnRecv(w) \/ RecvRelease(w)
  \/ OnSendCompleteRecheck(w) \/ SessionStep(w)

UpdateStep ==
  \/ ReleasePush(Updater) \/ PopMessage \/ HandlerRelease \/ MessageRelease
  \/ (\E s \in Sessions : SendPacket(s)) \/ SendPacketEnqueue \/ SessionStep(Updater)

Completion(w) == \E s \in Sessions : SendCompletes(w, s)

Next ==
  \/ \E w \in Workers :
       \/ RecvAlloc(w) \/ WorkerStep(w) \/ Completion(w)
       \/ \E s \in Sessions : PeerGone(w, s)
  \/ HandlerAlloc
  \/ UpdateStep

Spec == Init /\ [][Next]_vars

(* Threads run, and the completion of a posted send is dequeued. *)
LiveSpec ==
  /\ Spec
  /\ WF_vars(UpdateStep)
  /\ \A w \in Workers : WF_vars(WorkerStep(w)) /\ SF_vars(Completion(w))
-----------------------------------------------------------------------------
Entries == [pkt : Packets, content : 1 .. MaxWrites]

(* Every variable holds a value of its kind, no queue grows past Qsize,    *)
(* and no count is negative.                                               *)
TypeOK ==
  /\ pool \in Seq(Packets)
  /\ created \subseteq Packets
  /\ refCount \in [Packets -> Nat]
  /\ content \in [Packets -> 0 .. MaxWrites]
  /\ writes \in 0 .. MaxWrites
  /\ contentQ \in Seq(Entries)
  /\ \A q \in {sendQ, sendPkts} : \A s \in Sessions :
       q[s] \in Seq(Entries) /\ Len(q[s]) <= Qsize
  /\ \A f \in {sendPending, closeFlag, posted} : f \in [Sessions -> BOOLEAN]
  /\ cur \in [Threads -> Sessions]
  /\ \A f \in {mine, owed} : f \in [Threads -> Packets \cup {NoPacket}]
  /\ msg \in Packets \cup {NoPacket}
  /\ todo \subseteq Sessions

InQueue(q, p) == {i \in DOMAIN q : q[i].pkt = p}

(* The references to packet p: entries of the queues, and the threads that *)
(* allocated it or handle it.                                              *)
Holders(p) ==
  (InQueue(contentQ, p) \X {<<"contentQ">>})
  \cup (UNION {(InQueue(sendQ[s], p) \X {<<"sendQ", s>>})
               \cup (InQueue(sendPkts[s], p) \X {<<"sendPkts", s>>}) : s \in Sessions})
  \cup ({t \in Threads : mine[t] = p} \X {<<"mine">>})
  \cup (({p} \cap {msg}) \X {<<"msg">>})

(* refCount is the number of references, while one packet waits in the     *)
(* queues of several sessions and their completions, closes and failures   *)
(* are handled by different threads: nobody releases twice or forgets.     *)
RefCountExact == \A p \in Packets : refCount[p] = Cardinality(Holders(p))

(* A packet is in the pool, once, when and only when it exists and nobody  *)
(* refers to it; one thread alone sees the count reach 0 and returns it.   *)
PoolExact ==
  /\ \A i, j \in DOMAIN pool : pool[i] = pool[j] => i = j
  /\ \A t, u \in Threads : owed[t] = owed[u] /\ owed[t] # NoPacket => t = u
  /\ \A p \in created :
       refCount[p] = 0 <=>
         ((\E i \in DOMAIN pool : pool[i] = p) # (\E t \in Threads : owed[t] = p))

(* What waits in a queue or is being sent is what was put there: a packet  *)
(* is not written again while a session, or the content, still needs it.   *)
QueuedIntact ==
  /\ \A i \in DOMAIN contentQ : contentQ[i].content = content[contentQ[i].pkt]
  /\ \A s \in Sessions : \A q \in {sendQ[s], sendPkts[s]} :
       \A i \in DOMAIN q : q[i].content = content[q[i].pkt]

(* What a send that completed with an error leaves behind: sendPending     *)
(* stays set, so nobody looks at sendPkts, or at a packet that was queued  *)
(* after CloseSession drained the queue, again.                            *)
Abandoned(p) ==
  \E s \in Sessions :
    /\ closeFlag[s] /\ sendPending[s] /\ ~posted[s]
    /\ \A t \in Threads : cur[t] # s \/ pc[t] = "idle"
    /\ InQueue(sendPkts[s], p) # {} \/ InQueue(sendQ[s], p) # {}

(* Every packet taken from the pool comes back to it, except the ones      *)
(* abandoned with a send that completed with an error.                     *)
PacketsReturn ==
  \A p \in Packets :
    refCount[p] > 0 ~> (\E i \in DOMAIN pool : pool[i] = p) \/ Abandoned(p)
=============================================================================
