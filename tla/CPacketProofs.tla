---------------------------- MODULE CPacketProofs ----------------------------
(***************************************************************************)
(* Proofs about CPacket, for any number of packets, sessions and workers:  *)
(* refCount is exact, the pool holds each packet nobody refers to once,    *)
(* and a packet that waits in a queue is not written again.                *)
(*                                                                         *)
(* The count is a count of tagged references, Holders(p).  A step changes  *)
(* the references of one place (one queue, one thread's packet, msg), or   *)
(* moves them from one place to another; the lemmas on Refs say what that  *)
(* does to the number, whatever is at the other places.                    *)
(***************************************************************************)
EXTENDS CPacket, FiniteSetTheorems, FunctionTheorems, SequenceTheorems, TLAPS

Optional == Packets \cup {NoPacket}
Queue == Seq(Entries)

(* The types, and that content was written to every packet that exists. *)
DataInv ==
  /\ pool \in Seq(Packets)
  /\ created \in SUBSET Packets
  /\ refCount \in [Packets -> Nat]
  /\ content \in [Packets -> 0 .. MaxWrites]
  /\ \A p \in created : content[p] # 0
  /\ writes \in 0 .. MaxWrites
  /\ owed \in [Threads -> Optional]
  /\ contentQ \in Queue

SessionInv ==
  /\ sendQ \in [Sessions -> Queue]
  /\ sendPkts \in [Sessions -> Queue]
  /\ \A s \in Sessions : Len(sendQ[s]) <= Qsize /\ Len(sendPkts[s]) <= Qsize
  /\ sendPending \in [Sessions -> BOOLEAN]
  /\ closeFlag \in [Sessions -> BOOLEAN]
  /\ posted \in [Sessions -> BOOLEAN]
  /\ \A s \in Sessions : ~sendPending[s] => sendPkts[s] = <<>>

(* Where a thread has a packet of its own: a worker while it handles a     *)
(* receive, the Update thread while it sends; msg is the message handled.  *)
SessionLabels == {"flush", "undo", "close", "closing", "drain"}
WorkerLabels == SessionLabels \cup {"idle", "recv", "received", "sent", "recheck"}
UpdaterLabels == SessionLabels \cup {"idle", "handle", "send", "enqueue"}

RoleInv ==
  /\ pc \in [Threads -> WorkerLabels \cup UpdaterLabels]
  /\ cur \in [Threads -> Sessions]
  /\ mine \in [Threads -> Optional]
  /\ msg \in Optional
  /\ todo \in SUBSET Sessions
  /\ \A w \in Workers :
       pc[w] \in WorkerLabels /\ (mine[w] # NoPacket <=> pc[w] \in {"recv", "received"})
  /\ pc[Updater] \in UpdaterLabels
  /\ mine[Updater] # NoPacket <=> pc[Updater] \notin {"idle", "handle"}
  /\ pc[Updater] = "idle" => msg = NoPacket
  /\ pc[Updater] = "handle" => msg # NoPacket

(* The pool: a packet nobody refers to is in it or owed to it, not both.   *)
InPool(p) == \E i \in 1 .. Len(pool) : pool[i] = p
Owed(p) == \E t \in Threads : owed[t] = p

PoolInv ==
  /\ \A i, j \in 1 .. Len(pool) : pool[i] = pool[j] => i = j
  /\ \A t, u \in Threads : owed[t] = owed[u] /\ owed[t] # NoPacket => t = u
  /\ \A p \in Packets :
       /\ InPool(p) => p \in created /\ refCount[p] = 0 /\ ~Owed(p)
       /\ Owed(p) => p \in created /\ refCount[p] = 0
       /\ p \in created /\ refCount[p] = 0 => InPool(p) \/ Owed(p)
       /\ p \notin created => refCount[p] = 0

CountInv == \A p \in Packets : IsFiniteSet(Holders(p)) /\ refCount[p] = Cardinality(Holders(p))

Intact(q, c) == \A i \in 1 .. Len(q) : q[i].content = c[q[i].pkt]

IntactInv ==
  /\ Intact(contentQ, content)
  /\ \A s \in Sessions : Intact(sendQ[s], content) /\ Intact(sendPkts[s], content)

IInv == DataInv /\ SessionInv /\ RoleInv /\ PoolInv /\ CountInv /\ IntactInv
-----------------------------------------------------------------------------
(* Counting references *)

(* The references of a queue carry the same mark. *)
Marked(S, x) == S \X {x}

(* The references of the queues of the sessions S, and all references of   *)
(* Holders, for given contents of the queues and of the threads.           *)
SendRefs(p, sq, sp, S) ==
  UNION {Marked(InQueue(sq[s], p), <<"sendQ", s>>)
         \cup Marked(InQueue(sp[s], p), <<"sendPkts", s>>) : s \in S}

MineRefs(p, mi, T) == Marked({t \in T : mi[t] = p}, <<"mine">>)

Refs(p, cq, sq, sp, mi, ms) ==
  Marked(InQueue(cq, p), <<"contentQ">>)
  \cup SendRefs(p, sq, sp, Sessions)
  \cup MineRefs(p, mi, Threads)
  \cup Marked({p} \cap {ms}, <<"msg">>)

(* Holders are these references. *)
LEMMA HoldersRefs ==
  \A p : Holders(p) = Refs(p, contentQ, sendQ, sendPkts, mine, msg)
BY DEF Holders, Refs, SendRefs, MineRefs, Marked

(* Marking changes no number. *)
LEMMA MarkedCount ==
  ASSUME NEW S, IsFiniteSet(S), NEW x
  PROVE  /\ IsFiniteSet(Marked(S, x))
         /\ Cardinality(Marked(S, x)) = Cardinality(S) /\ Cardinality(S) \in Nat
<1>1. IsFiniteSet({x}) /\ Cardinality({x}) = 1
  BY FS_Singleton
<1>2. IsFiniteSet(Marked(S, x)) /\ Cardinality(Marked(S, x)) = Cardinality(S) * 1
  BY <1>1, FS_Product DEF Marked
<1>3. Cardinality(S) \in Nat
  BY FS_CardinalityType
<1> QED
  BY <1>2, <1>3

Apart(X, R) == X \cap R = {}

(* One part of a finite set is exchanged for another. *)
LEMMA Exchange ==
  ASSUME NEW X, NEW Y, NEW R, IsFiniteSet(X \cup R), IsFiniteSet(Y), Apart(X, R), Apart(Y, R)
  PROVE  /\ IsFiniteSet(Y \cup R)
         /\ Cardinality(Y \cup R) = Cardinality(X \cup R) - Cardinality(X) + Cardinality(Y)
         /\ Cardinality(X \cup R) \in Nat
         /\ Cardinality(X) <= Cardinality(X \cup R)
<1>1. IsFiniteSet(X) /\ IsFiniteSet(R)
  BY FS_Subset
<1>2. X \cap R = {} /\ Y \cap R = {} /\ Cardinality({}) = 0
  BY FS_EmptySet DEF Apart
<1>3. Cardinality(X \cup R) = Cardinality(X) + Cardinality(R) - Cardinality(X \cap R)
  BY <1>1, FS_Union
<1>4. /\ IsFiniteSet(Y \cup R)
      /\ Cardinality(Y \cup R) = Cardinality(Y) + Cardinality(R) - Cardinality(Y \cap R)
  BY <1>1, FS_Union
<1>5. /\ Cardinality(X) \in Nat /\ Cardinality(Y) \in Nat /\ Cardinality(R) \in Nat
      /\ Cardinality(X \cap R) = 0 /\ Cardinality(Y \cap R) = 0
  BY <1>1, <1>2, FS_CardinalityType
<1> QED
  BY <1>3, <1>4, <1>5

(* The entries of a queue for one packet: finite, one more by a push of    *)
(* that packet, one less by its pop.                                       *)
LEMMA QueueFinite ==
  ASSUME NEW q \in Queue, NEW p
  PROVE  IsFiniteSet(InQueue(q, p)) /\ Cardinality(InQueue(q, p)) \in Nat
<1>1. DOMAIN q = 1 .. Len(q) /\ Len(q) \in Nat
  BY DEF Queue
<1>2. IsFiniteSet(1 .. Len(q))
  BY <1>1, FS_Interval
<1>3. InQueue(q, p) \in SUBSET (1 .. Len(q))
  BY <1>1 DEF InQueue
<1>4. IsFiniteSet(InQueue(q, p))
  BY <1>2, <1>3, FS_Subset
<1> QED
  BY <1>4, FS_CardinalityType

(* An entry is put at the end of a queue. *)
LEMMA PushCount ==
  ASSUME NEW q \in Queue, NEW e \in Entries, NEW p
  PROVE  /\ Append(q, e) \in Queue
         /\ Cardinality(InQueue(Append(q, e), p)) =
              IF e.pkt = p THEN Cardinality(InQueue(q, p)) + 1
                           ELSE Cardinality(InQueue(q, p))
<1>1. /\ Append(q, e) \in Queue /\ Len(Append(q, e)) = Len(q) + 1 /\ Len(q) \in Nat
      /\ \A i \in 1 .. Len(q) : Append(q, e)[i] = q[i]
      /\ Append(q, e)[Len(q) + 1] = e
      /\ DOMAIN q = 1 .. Len(q) /\ DOMAIN Append(q, e) = 1 .. (Len(q) + 1)
  BY AppendProperties DEF Queue
<1>2. IsFiniteSet(InQueue(q, p)) /\ Len(q) + 1 \notin InQueue(q, p)
  <2>1. Len(q) + 1 \notin InQueue(q, p)
    BY <1>1 DEF InQueue
  <2> QED
    BY <2>1, QueueFinite
<1>3. CASE e.pkt = p
  <2>1. InQueue(Append(q, e), p) = InQueue(q, p) \cup {Len(q) + 1}
    BY <1>1, <1>3 DEF InQueue
  <2> QED
    BY <1>1, <1>2, <1>3, <2>1, FS_AddElement, SMTT(30)
<1>4. CASE e.pkt # p
  <2>1. InQueue(Append(q, e), p) = InQueue(q, p)
    BY <1>1, <1>4 DEF InQueue
  <2> QED
    BY <1>1, <1>4, <2>1
<1> QED
  BY <1>3, <1>4

(* The head of a queue is taken: the other entries move up by one. *)
LEMMA PopCount ==
  ASSUME NEW q \in Queue, q # <<>>, NEW p
  PROVE  /\ Tail(q) \in Queue /\ Head(q) \in Entries
         /\ Cardinality(InQueue(q, p)) =
              IF Head(q).pkt = p THEN Cardinality(InQueue(Tail(q), p)) + 1
                                 ELSE Cardinality(InQueue(Tail(q), p))
<1>1. /\ Tail(q) \in Queue /\ Head(q) \in Entries
      /\ Len(q) \in Nat /\ Len(q) > 0 /\ Head(q) = q[1]
      /\ Len(Tail(q)) = Len(q) - 1
      /\ \A i \in 1 .. Len(Tail(q)) : Tail(q)[i] = q[i + 1]
      /\ DOMAIN q = 1 .. Len(q) /\ DOMAIN Tail(q) = 1 .. (Len(q) - 1)
  BY HeadTailProperties DEF Queue
<1> DEFINE S == InQueue(Tail(q), p)
           T == InQueue(q, p) \ {1}
           f == [i \in S |-> i + 1]
<1>2. /\ S = {i \in 1 .. (Len(q) - 1) : q[i + 1].pkt = p}
      /\ T = {i \in 1 .. Len(q) : i # 1 /\ q[i].pkt = p}
  BY <1>1 DEF InQueue
<1> HIDE DEF S, T
<1>3. f \in [S -> T] /\ \A a, b \in S : f[a] = f[b] => a = b
  BY <1>1, <1>2
<1>4. \A t \in T : \E i \in S : f[i] = t
  <2> SUFFICES ASSUME NEW t \in T PROVE \E i \in S : f[i] = t
    OBVIOUS
  <2>1. t - 1 \in S /\ f[t - 1] = t
    BY <1>1, <1>2
  <2> QED
    BY <2>1
<1>5. ExistsBijection(S, T)
  <2>1. f \in Bijection(S, T)
    BY <1>3, <1>4, Fun_IsBij
  <2> QED
    BY <2>1 DEF ExistsBijection
<1>6. IsFiniteSet(S) /\ Cardinality(T) = Cardinality(S)
  <2>1. IsFiniteSet(S)
    BY <1>1, QueueFinite DEF S
  <2> QED
    BY <1>5, <2>1, FS_Bijection
<1>7. /\ IsFiniteSet(InQueue(q, p))
      /\ Cardinality(T) = IF 1 \in InQueue(q, p) THEN Cardinality(InQueue(q, p)) - 1
                                                 ELSE Cardinality(InQueue(q, p))
  BY QueueFinite, FS_RemoveElement DEF T
<1>8. 1 \in InQueue(q, p) <=> Head(q).pkt = p
  BY <1>1 DEF InQueue
<1>9. Cardinality(InQueue(q, p)) \in Nat /\ Cardinality(S) \in Nat
  BY <1>6, <1>7, FS_CardinalityType
<1> QED
  BY <1>1, <1>6, <1>7, <1>8, <1>9 DEF S

(* The empty queue. *)
LEMMA EmptyCount == <<>> \in Queue /\ \A p : InQueue(<<>>, p) = {}
BY DEF Queue, InQueue
-----------------------------------------------------------------------------
(* The five places *)

(* A reference tells its place. *)
LEMMA MarkedMark ==
  ASSUME NEW S, NEW x
  PROVE  \A h \in Marked(S, x) : h[1] \in S /\ h[2] = x
BY DEF Marked

(* Different places have different references. *)
LEMMA MarkedApart ==
  ASSUME NEW S, NEW x, NEW T, NEW y, x # y \/ S \cap T = {}
  PROVE  Marked(S, x) \cap Marked(T, y) = {}
BY MarkedMark

(* The references of the queues of the sessions S are none of the places   *)
(* outside them.                                                           *)
LEMMA SendApart ==
  ASSUME NEW p, NEW sq, NEW sp, NEW S, NEW T, NEW x,
         \A s \in S : x # <<"sendQ", s>> /\ x # <<"sendPkts", s>>
  PROVE  Marked(T, x) \cap SendRefs(p, sq, sp, S) = {}
<1> SUFFICES ASSUME NEW h \in Marked(T, x), h \in SendRefs(p, sq, sp, S) PROVE FALSE
  OBVIOUS
<1>1. PICK s \in S : \/ h \in Marked(InQueue(sq[s], p), <<"sendQ", s>>)
                     \/ h \in Marked(InQueue(sp[s], p), <<"sendPkts", s>>)
  BY DEF SendRefs
<1>2. h[2] = x /\ h[2] \in {<<"sendQ", s>>, <<"sendPkts", s>>}
  BY <1>1, MarkedMark
<1> QED
  BY <1>2

(* The references of one session's queues and those of the others. *)
LEMMA SendSplit ==
  ASSUME NEW p, NEW sq, NEW sp, NEW s \in Sessions
  PROVE  SendRefs(p, sq, sp, Sessions) =
           Marked(InQueue(sq[s], p), <<"sendQ", s>>)
           \cup Marked(InQueue(sp[s], p), <<"sendPkts", s>>)
           \cup SendRefs(p, sq, sp, Sessions \ {s})
BY DEF SendRefs

(* The references of the other sessions do not depend on this one. *)
LEMMA SendSame ==
  ASSUME NEW p, NEW sq, NEW sp, NEW sq2, NEW sp2, NEW S,
         \A r \in S : sq2[r] = sq[r] /\ sp2[r] = sp[r]
  PROVE  SendRefs(p, sq2, sp2, S) = SendRefs(p, sq, sp, S)
BY DEF SendRefs

(* The packet of one thread and those of the others. *)
LEMMA MineSplit ==
  ASSUME NEW p, NEW mi, NEW t \in Threads
  PROVE  /\ MineRefs(p, mi, Threads)
              = MineRefs(p, mi, {t}) \cup MineRefs(p, mi, Threads \ {t})
         /\ MineRefs(p, mi, {t}) \cap MineRefs(p, mi, Threads \ {t}) = {}
BY DEF MineRefs, Marked

(* ... which do not depend on this one. *)
LEMMA MineSame ==
  ASSUME NEW p, NEW mi, NEW mi2, NEW T, \A u \in T : mi2[u] = mi[u]
  PROVE  MineRefs(p, mi2, T) = MineRefs(p, mi, T)
BY DEF MineRefs

(* Two functions agree, except perhaps at x. *)
AgreeBut(x, S, f, g) == \A u \in S \ {x} : g[u] = f[u]

(* The content queue changes. *)
LEMMA RefsContentQ ==
  ASSUME NEW p, NEW cq, NEW sq, NEW sp, NEW mi, NEW ms, NEW cq2,
         cq \in Queue, cq2 \in Queue,
         IsFiniteSet(Refs(p, cq, sq, sp, mi, ms))
  PROVE  /\ IsFiniteSet(Refs(p, cq2, sq, sp, mi, ms))
         /\ Cardinality(Refs(p, cq2, sq, sp, mi, ms)) =
              Cardinality(Refs(p, cq, sq, sp, mi, ms)) - Cardinality(InQueue(cq, p)) + Cardinality(InQueue(cq2, p))
         /\ Cardinality(InQueue(cq, p)) <= Cardinality(Refs(p, cq, sq, sp, mi, ms))
         /\ Cardinality(Refs(p, cq, sq, sp, mi, ms)) \in Nat
<1> DEFINE A == Refs(p, cq, sq, sp, mi, ms)
           B == Refs(p, cq2, sq, sp, mi, ms)
           X == Marked(InQueue(cq, p), <<"contentQ">>)
           Y == Marked(InQueue(cq2, p), <<"contentQ">>)
           R == SendRefs(p, sq, sp, Sessions) \cup MineRefs(p, mi, Threads)
                  \cup Marked({p} \cap {ms}, <<"msg">>)
<1>1. A = X \cup R
  BY DEF Refs
<1>2. B = Y \cup R
  BY DEF Refs
<1>3. Apart(X, R) /\ Apart(Y, R)
  <2>1. X \cap SendRefs(p, sq, sp, Sessions) = {} /\ Y \cap SendRefs(p, sq, sp, Sessions) = {}
    BY SendApart
  <2>2. X \cap MineRefs(p, mi, Threads) = {} /\ Y \cap MineRefs(p, mi, Threads) = {}
    BY MarkedApart DEF MineRefs
  <2>3. X \cap Marked({p} \cap {ms}, <<"msg">>) = {} /\ Y \cap Marked({p} \cap {ms}, <<"msg">>) = {}
    BY MarkedApart
  <2> QED
    BY <2>1, <2>2, <2>3 DEF Apart
<1>4. IsFiniteSet(Y) /\ Cardinality(X) = Cardinality(InQueue(cq, p)) /\ Cardinality(Y) = Cardinality(InQueue(cq2, p))
  BY QueueFinite, MarkedCount
<1> HIDE DEF A, B, X, Y, R
<1>5. IsFiniteSet(X \cup R)
  BY <1>1 DEF A
<1>6. /\ IsFiniteSet(Y \cup R)
      /\ Cardinality(Y \cup R) = Cardinality(X \cup R) - Cardinality(X) + Cardinality(Y)
      /\ Cardinality(X \cup R) \in Nat
      /\ Cardinality(X) <= Cardinality(X \cup R)
  BY <1>3, <1>4, <1>5, Exchange
<1> QED
  BY <1>1, <1>2, <1>4, <1>6 DEF A, B

(* The send queue of one session changes. *)
LEMMA RefsSendQ ==
  ASSUME NEW p, NEW cq, NEW sq, NEW sp, NEW mi, NEW ms, NEW sq2, NEW s \in Sessions,
         sq[s] \in Queue, sq2[s] \in Queue, AgreeBut(s, Sessions, sq, sq2),
         IsFiniteSet(Refs(p, cq, sq, sp, mi, ms))
  PROVE  /\ IsFiniteSet(Refs(p, cq, sq2, sp, mi, ms))
         /\ Cardinality(Refs(p, cq, sq2, sp, mi, ms)) =
              Cardinality(Refs(p, cq, sq, sp, mi, ms)) - Cardinality(InQueue(sq[s], p)) + Cardinality(InQueue(sq2[s], p))
         /\ Cardinality(InQueue(sq[s], p)) <= Cardinality(Refs(p, cq, sq, sp, mi, ms))
         /\ Cardinality(Refs(p, cq, sq, sp, mi, ms)) \in Nat
<1> DEFINE A == Refs(p, cq, sq, sp, mi, ms)
           B == Refs(p, cq, sq2, sp, mi, ms)
           X == Marked(InQueue(sq[s], p), <<"sendQ", s>>)
           Y == Marked(InQueue(sq2[s], p), <<"sendQ", s>>)
           R == Marked(InQueue(cq, p), <<"contentQ">>) \cup Marked(InQueue(sp[s], p), <<"sendPkts", s>>)
                  \cup SendRefs(p, sq, sp, Sessions \ {s})
                  \cup MineRefs(p, mi, Threads) \cup Marked({p} \cap {ms}, <<"msg">>)
<1>1. A = X \cup R
  <2>1. SendRefs(p, sq, sp, Sessions) =
          Marked(InQueue(sq[s], p), <<"sendQ", s>>)
          \cup Marked(InQueue(sp[s], p), <<"sendPkts", s>>)
          \cup SendRefs(p, sq, sp, Sessions \ {s})
    BY SendSplit
  <2> QED
    BY <2>1 DEF Refs
<1>2. B = Y \cup R
  <2>1. SendRefs(p, sq2, sp, Sessions) =
          Marked(InQueue(sq2[s], p), <<"sendQ", s>>)
          \cup Marked(InQueue(sp[s], p), <<"sendPkts", s>>)
          \cup SendRefs(p, sq2, sp, Sessions \ {s})
    BY SendSplit
  <2>2. SendRefs(p, sq2, sp, Sessions \ {s}) = SendRefs(p, sq, sp, Sessions \ {s})
    BY SendSame DEF AgreeBut
  <2> QED
    BY <2>1, <2>2 DEF Refs
<1>3. Apart(X, R) /\ Apart(Y, R)
  <2>1. X \cap Marked(InQueue(cq, p), <<"contentQ">>) = {} /\ Y \cap Marked(InQueue(cq, p), <<"contentQ">>) = {}
    BY MarkedApart
  <2>2. X \cap Marked(InQueue(sp[s], p), <<"sendPkts", s>>) = {} /\ Y \cap Marked(InQueue(sp[s], p), <<"sendPkts", s>>) = {}
    BY MarkedApart
  <2>3. X \cap SendRefs(p, sq, sp, Sessions \ {s}) = {} /\ Y \cap SendRefs(p, sq, sp, Sessions \ {s}) = {}
    BY SendApart
  <2>4. X \cap MineRefs(p, mi, Threads) = {} /\ Y \cap MineRefs(p, mi, Threads) = {}
    BY MarkedApart DEF MineRefs
  <2>5. X \cap Marked({p} \cap {ms}, <<"msg">>) = {} /\ Y \cap Marked({p} \cap {ms}, <<"msg">>) = {}
    BY MarkedApart
  <2> QED
    BY <2>1, <2>2, <2>3, <2>4, <2>5 DEF Apart
<1>4. IsFiniteSet(Y) /\ Cardinality(X) = Cardinality(InQueue(sq[s], p)) /\ Cardinality(Y) = Cardinality(InQueue(sq2[s], p))
  BY QueueFinite, MarkedCount
<1> HIDE DEF A, B, X, Y, R
<1>5. IsFiniteSet(X \cup R)
  BY <1>1 DEF A
<1>6. /\ IsFiniteSet(Y \cup R)
      /\ Cardinality(Y \cup R) = Cardinality(X \cup R) - Cardinality(X) + Cardinality(Y)
      /\ Cardinality(X \cup R) \in Nat
      /\ Cardinality(X) <= Cardinality(X \cup R)
  BY <1>3, <1>4, <1>5, Exchange
<1> QED
  BY <1>1, <1>2, <1>4, <1>6 DEF A, B

(* The packets in flight of one session change. *)
LEMMA RefsSendPkts ==
  ASSUME NEW p, NEW cq, NEW sq, NEW sp, NEW mi, NEW ms, NEW sp2, NEW s \in Sessions,
         sp[s] \in Queue, sp2[s] \in Queue, AgreeBut(s, Sessions, sp, sp2),
         IsFiniteSet(Refs(p, cq, sq, sp, mi, ms))
  PROVE  /\ IsFiniteSet(Refs(p, cq, sq, sp2, mi, ms))
         /\ Cardinality(Refs(p, cq, sq, sp2, mi, ms)) =
              Cardinality(Refs(p, cq, sq, sp, mi, ms)) - Cardinality(InQueue(sp[s], p)) + Cardinality(InQueue(sp2[s], p))
         /\ Cardinality(InQueue(sp[s], p)) <= Cardinality(Refs(p, cq, sq, sp, mi, ms))
         /\ Cardinality(Refs(p, cq, sq, sp, mi, ms)) \in Nat
<1> DEFINE A == Refs(p, cq, sq, sp, mi, ms)
           B == Refs(p, cq, sq, sp2, mi, ms)
           X == Marked(InQueue(sp[s], p), <<"sendPkts", s>>)
           Y == Marked(InQueue(sp2[s], p), <<"sendPkts", s>>)
           R == Marked(InQueue(cq, p), <<"contentQ">>) \cup Marked(InQueue(sq[s], p), <<"sendQ", s>>)
                  \cup SendRefs(p, sq, sp, Sessions \ {s})
                  \cup MineRefs(p, mi, Threads) \cup Marked({p} \cap {ms}, <<"msg">>)
<1>1. A = X \cup R
  <2>1. SendRefs(p, sq, sp, Sessions) =
          Marked(InQueue(sq[s], p), <<"sendQ", s>>)
          \cup Marked(InQueue(sp[s], p), <<"sendPkts", s>>)
          \cup SendRefs(p, sq, sp, Sessions \ {s})
    BY SendSplit
  <2> QED
    BY <2>1 DEF Refs
<1>2. B = Y \cup R
  <2>1. SendRefs(p, sq, sp2, Sessions) =
          Marked(InQueue(sq[s], p), <<"sendQ", s>>)
          \cup Marked(InQueue(sp2[s], p), <<"sendPkts", s>>)
          \cup SendRefs(p, sq, sp2, Sessions \ {s})
    BY SendSplit
  <2>2. SendRefs(p, sq, sp2, Sessions \ {s}) = SendRefs(p, sq, sp, Sessions \ {s})
    BY SendSame DEF AgreeBut
  <2> QED
    BY <2>1, <2>2 DEF Refs
<1>3. Apart(X, R) /\ Apart(Y, R)
  <2>1. X \cap Marked(InQueue(cq, p), <<"contentQ">>) = {} /\ Y \cap Marked(InQueue(cq, p), <<"contentQ">>) = {}
    BY MarkedApart
  <2>2. X \cap Marked(InQueue(sq[s], p), <<"sendQ", s>>) = {} /\ Y \cap Marked(InQueue(sq[s], p), <<"sendQ", s>>) = {}
    BY MarkedApart
  <2>3. X \cap SendRefs(p, sq, sp, Sessions \ {s}) = {} /\ Y \cap SendRefs(p, sq, sp, Sessions \ {s}) = {}
    BY SendApart
  <2>4. X \cap MineRefs(p, mi, Threads) = {} /\ Y \cap MineRefs(p, mi, Threads) = {}
    BY MarkedApart DEF MineRefs
  <2>5. X \cap Marked({p} \cap {ms}, <<"msg">>) = {} /\ Y \cap Marked({p} \cap {ms}, <<"msg">>) = {}
    BY MarkedApart
  <2> QED
    BY <2>1, <2>2, <2>3, <2>4, <2>5 DEF Apart
<1>4. IsFiniteSet(Y) /\ Cardinality(X) = Cardinality(InQueue(sp[s], p)) /\ Cardinality(Y) = Cardinality(InQueue(sp2[s], p))
  BY QueueFinite, MarkedCount
<1> HIDE DEF A, B, X, Y, R
<1>5. IsFiniteSet(X \cup R)
  BY <1>1 DEF A
<1>6. /\ IsFiniteSet(Y \cup R)
      /\ Cardinality(Y \cup R) = Cardinality(X \cup R) - Cardinality(X) + Cardinality(Y)
      /\ Cardinality(X \cup R) \in Nat
      /\ Cardinality(X) <= Cardinality(X \cup R)
  BY <1>3, <1>4, <1>5, Exchange
<1> QED
  BY <1>1, <1>2, <1>4, <1>6 DEF A, B

(* At most one reference. *)
LEMMA SingleCount ==
  ASSUME NEW p, NEW x
  PROVE  /\ IsFiniteSet(Marked({p} \cap {x}, <<"msg">>))
         /\ Cardinality(Marked({p} \cap {x}, <<"msg">>)) = IF x = p THEN 1 ELSE 0
<1>1. CASE x = p
  <2>1. {p} \cap {x} = {p} /\ IsFiniteSet({p}) /\ Cardinality({p}) = 1
    BY <1>1, FS_Singleton
  <2> QED
    BY <1>1, <2>1, MarkedCount
<1>2. CASE x # p
  <2>1. {p} \cap {x} = {} /\ IsFiniteSet({}) /\ Cardinality({}) = 0
    BY <1>2, FS_EmptySet
  <2> QED
    BY <1>2, <2>1, MarkedCount
<1> QED
  BY <1>1, <1>2

(* The same for one thread's packet. *)
LEMMA MineCount ==
  ASSUME NEW p, NEW f, NEW t
  PROVE  /\ IsFiniteSet(MineRefs(p, f, {t}))
         /\ Cardinality(MineRefs(p, f, {t})) = IF f[t] = p THEN 1 ELSE 0
<1>1. CASE f[t] = p
  <2>1. {u \in {t} : f[u] = p} = {t} /\ IsFiniteSet({t}) /\ Cardinality({t}) = 1
    BY <1>1, FS_Singleton
  <2> QED
    BY <1>1, <2>1, MarkedCount DEF MineRefs
<1>2. CASE f[t] # p
  <2>1. {u \in {t} : f[u] = p} = {} /\ IsFiniteSet({}) /\ Cardinality({}) = 0
    BY <1>2, FS_EmptySet
  <2> QED
    BY <1>2, <2>1, MarkedCount DEF MineRefs
<1> QED
  BY <1>1, <1>2

(* The message at the Update thread changes. *)
LEMMA RefsMsg ==
  ASSUME NEW p, NEW cq, NEW sq, NEW sp, NEW mi, NEW ms, NEW ms2,
         IsFiniteSet(Refs(p, cq, sq, sp, mi, ms))
  PROVE  /\ IsFiniteSet(Refs(p, cq, sq, sp, mi, ms2))
         /\ Cardinality(Refs(p, cq, sq, sp, mi, ms2)) =
              Cardinality(Refs(p, cq, sq, sp, mi, ms)) - (IF ms = p THEN 1 ELSE 0) + (IF ms2 = p THEN 1 ELSE 0)
         /\ (IF ms = p THEN 1 ELSE 0) <= Cardinality(Refs(p, cq, sq, sp, mi, ms))
         /\ Cardinality(Refs(p, cq, sq, sp, mi, ms)) \in Nat
<1> DEFINE A == Refs(p, cq, sq, sp, mi, ms)
           B == Refs(p, cq, sq, sp, mi, ms2)
           X == Marked({p} \cap {ms}, <<"msg">>)
           Y == Marked({p} \cap {ms2}, <<"msg">>)
           R == Marked(InQueue(cq, p), <<"contentQ">>) \cup SendRefs(p, sq, sp, Sessions)
                  \cup MineRefs(p, mi, Threads)
<1>1. A = X \cup R
  BY DEF Refs
<1>2. B = Y \cup R
  BY DEF Refs
<1>3. Apart(X, R) /\ Apart(Y, R)
  <2>1. X \cap Marked(InQueue(cq, p), <<"contentQ">>) = {} /\ Y \cap Marked(InQueue(cq, p), <<"contentQ">>) = {}
    BY MarkedApart
  <2>2. X \cap SendRefs(p, sq, sp, Sessions) = {} /\ Y \cap SendRefs(p, sq, sp, Sessions) = {}
    BY SendApart
  <2>3. X \cap MineRefs(p, mi, Threads) = {} /\ Y \cap MineRefs(p, mi, Threads) = {}
    BY MarkedApart DEF MineRefs
  <2> QED
    BY <2>1, <2>2, <2>3 DEF Apart
<1>4. IsFiniteSet(Y) /\ Cardinality(X) = (IF ms = p THEN 1 ELSE 0) /\ Cardinality(Y) = (IF ms2 = p THEN 1 ELSE 0)
  BY SingleCount
<1> HIDE DEF A, B, X, Y, R
<1>5. IsFiniteSet(X \cup R)
  BY <1>1 DEF A
<1>6. /\ IsFiniteSet(Y \cup R)
      /\ Cardinality(Y \cup R) = Cardinality(X \cup R) - Cardinality(X) + Cardinality(Y)
      /\ Cardinality(X \cup R) \in Nat
      /\ Cardinality(X) <= Cardinality(X \cup R)
  BY <1>3, <1>4, <1>5, Exchange
<1> QED
  BY <1>1, <1>2, <1>4, <1>6 DEF A, B

(* The packet of one thread changes. *)
LEMMA RefsMine ==
  ASSUME NEW p, NEW cq, NEW sq, NEW sp, NEW mi, NEW ms, NEW mi2, NEW t \in Threads,
         AgreeBut(t, Threads, mi, mi2),
         IsFiniteSet(Refs(p, cq, sq, sp, mi, ms))
  PROVE  /\ IsFiniteSet(Refs(p, cq, sq, sp, mi2, ms))
         /\ Cardinality(Refs(p, cq, sq, sp, mi2, ms)) =
              Cardinality(Refs(p, cq, sq, sp, mi, ms)) - (IF mi[t] = p THEN 1 ELSE 0) + (IF mi2[t] = p THEN 1 ELSE 0)
         /\ (IF mi[t] = p THEN 1 ELSE 0) <= Cardinality(Refs(p, cq, sq, sp, mi, ms))
         /\ Cardinality(Refs(p, cq, sq, sp, mi, ms)) \in Nat
<1> DEFINE A == Refs(p, cq, sq, sp, mi, ms)
           B == Refs(p, cq, sq, sp, mi2, ms)
           X == MineRefs(p, mi, {t})
           Y == MineRefs(p, mi2, {t})
           R == Marked(InQueue(cq, p), <<"contentQ">>) \cup SendRefs(p, sq, sp, Sessions)
                  \cup MineRefs(p, mi, Threads \ {t}) \cup Marked({p} \cap {ms}, <<"msg">>)
<1>1. A = X \cup R
  <2>1. MineRefs(p, mi, Threads) = MineRefs(p, mi, {t}) \cup MineRefs(p, mi, Threads \ {t})
    BY MineSplit
  <2> QED
    BY <2>1 DEF Refs
<1>2. B = Y \cup R
  <2>1. MineRefs(p, mi2, Threads) = MineRefs(p, mi2, {t}) \cup MineRefs(p, mi2, Threads \ {t})
    BY MineSplit
  <2>2. MineRefs(p, mi2, Threads \ {t}) = MineRefs(p, mi, Threads \ {t})
    BY MineSame DEF AgreeBut
  <2> QED
    BY <2>1, <2>2 DEF Refs
<1>3. Apart(X, R) /\ Apart(Y, R)
  <2>1. X \cap Marked(InQueue(cq, p), <<"contentQ">>) = {} /\ Y \cap Marked(InQueue(cq, p), <<"contentQ">>) = {}
    BY MarkedApart DEF MineRefs
  <2>2. X \cap SendRefs(p, sq, sp, Sessions) = {} /\ Y \cap SendRefs(p, sq, sp, Sessions) = {}
    BY SendApart DEF MineRefs
  <2>3. X \cap MineRefs(p, mi, Threads \ {t}) = {} /\ Y \cap MineRefs(p, mi, Threads \ {t}) = {}
    <3>1. MineRefs(p, mi2, Threads \ {t}) = MineRefs(p, mi, Threads \ {t})
      BY MineSame DEF AgreeBut
    <3>2. X \cap MineRefs(p, mi, Threads \ {t}) = {}
      BY MineSplit
    <3>3. Y \cap MineRefs(p, mi2, Threads \ {t}) = {}
      BY MineSplit
    <3> QED
      BY <3>1, <3>2, <3>3
  <2>4. X \cap Marked({p} \cap {ms}, <<"msg">>) = {} /\ Y \cap Marked({p} \cap {ms}, <<"msg">>) = {}
    BY MarkedApart DEF MineRefs
  <2> QED
    BY <2>1, <2>2, <2>3, <2>4 DEF Apart
<1>4. IsFiniteSet(Y) /\ Cardinality(X) = (IF mi[t] = p THEN 1 ELSE 0) /\ Cardinality(Y) = (IF mi2[t] = p THEN 1 ELSE 0)
  BY MineCount
<1> HIDE DEF A, B, X, Y, R
<1>5. IsFiniteSet(X \cup R)
  BY <1>1 DEF A
<1>6. /\ IsFiniteSet(Y \cup R)
      /\ Cardinality(Y \cup R) = Cardinality(X \cup R) - Cardinality(X) + Cardinality(Y)
      /\ Cardinality(X \cup R) \in Nat
      /\ Cardinality(X) <= Cardinality(X \cup R)
  BY <1>3, <1>4, <1>5, Exchange
<1> QED
  BY <1>1, <1>2, <1>4, <1>6 DEF A, B
-----------------------------------------------------------------------------
(* The count follows the references *)

(* Without a change of a place the references stay. *)
LEMMA SameCount ==
  ASSUME CountInv, UNCHANGED <<contentQ, sendQ, sendPkts, mine, msg, refCount>>
  PROVE  CountInv'
<1>1. \A p \in Packets : Holders(p)' = Holders(p)
  BY DEF Holders, InQueue
<1> QED
  BY <1>1 DEF CountInv

(* A thread that has a packet counts. *)
LEMMA MineCounted ==
  ASSUME CountInv, DataInv, NEW t \in Threads, NEW p \in Packets, mine[t] = p
  PROVE  refCount[p] >= 1
<1> DEFINE old == Refs(p, contentQ, sendQ, sendPkts, mine, msg)
<1>1. IsFiniteSet(old) /\ refCount[p] = Cardinality(old)
  BY HoldersRefs DEF CountInv
<1> HIDE DEF old
<1>2. (IF mine[t] = p THEN 1 ELSE 0) <= Cardinality(old)
  <2>1. AgreeBut(t, Threads, mine, mine)
    BY DEF AgreeBut
  <2> QED
    BY <1>1, <2>1, RefsMine DEF old
<1> QED
  BY <1>1, <1>2

(* So does the message at the Update thread. *)
LEMMA MsgCounted ==
  ASSUME CountInv, DataInv, NEW p \in Packets, msg = p
  PROVE  refCount[p] >= 1
<1> DEFINE old == Refs(p, contentQ, sendQ, sendPkts, mine, msg)
<1>1. IsFiniteSet(old) /\ refCount[p] = Cardinality(old)
  BY HoldersRefs DEF CountInv
<1> HIDE DEF old
<1>2. (IF msg = p THEN 1 ELSE 0) <= Cardinality(old)
  BY <1>1, RefsMsg DEF old
<1> QED
  BY <1>1, <1>2

(* Thread t takes or drops its packet. *)
LEMMA MineEffect ==
  ASSUME CountInv, NEW p \in Packets, NEW mi2, mine' = mi2, NEW t \in Threads,
         AgreeBut(t, Threads, mine, mi2),
         UNCHANGED <<contentQ, sendQ, sendPkts, msg>>
  PROVE  /\ IsFiniteSet(Holders(p)')
         /\ Cardinality(Holders(p)') = Cardinality(Holders(p)) - (IF mine[t] = p THEN 1 ELSE 0) + (IF mi2[t] = p THEN 1 ELSE 0)
         /\ Cardinality(Holders(p)) \in Nat /\ Cardinality(Holders(p)) >= (IF mine[t] = p THEN 1 ELSE 0)
<1> DEFINE old == Refs(p, contentQ, sendQ, sendPkts, mine, msg)
           new == Refs(p, contentQ, sendQ, sendPkts, mi2, msg)
<1>1. Holders(p) = old
  BY HoldersRefs
<1>2. Holders(p)' = new
  BY DEF Holders, Refs, SendRefs, MineRefs, Marked, InQueue
<1>3. IsFiniteSet(old)
  BY <1>1 DEF CountInv
<1>4. /\ IsFiniteSet(new) /\ Cardinality(new) = Cardinality(old) - (IF mine[t] = p THEN 1 ELSE 0) + (IF mi2[t] = p THEN 1 ELSE 0)
      /\ (IF mine[t] = p THEN 1 ELSE 0) <= Cardinality(old) /\ Cardinality(old) \in Nat
  BY <1>3, RefsMine
<1> HIDE DEF old, new
<1> QED
  BY <1>1, <1>2, <1>4

(* The Update thread drops its message. *)
LEMMA MsgEffect ==
  ASSUME CountInv, NEW p \in Packets, NEW ms2, msg' = ms2,
         UNCHANGED <<contentQ, sendQ, sendPkts, mine>>
  PROVE  /\ IsFiniteSet(Holders(p)')
         /\ Cardinality(Holders(p)') = Cardinality(Holders(p)) - (IF msg = p THEN 1 ELSE 0) + (IF ms2 = p THEN 1 ELSE 0)
         /\ Cardinality(Holders(p)) \in Nat /\ Cardinality(Holders(p)) >= (IF msg = p THEN 1 ELSE 0)
<1> DEFINE old == Refs(p, contentQ, sendQ, sendPkts, mine, msg)
           new == Refs(p, contentQ, sendQ, sendPkts, mine, ms2)
<1>1. Holders(p) = old
  BY HoldersRefs
<1>2. Holders(p)' = new
  BY DEF Holders, Refs, SendRefs, MineRefs, Marked, InQueue
<1>3. IsFiniteSet(old)
  BY <1>1 DEF CountInv
<1>4. /\ IsFiniteSet(new) /\ Cardinality(new) = Cardinality(old) - (IF msg = p THEN 1 ELSE 0) + (IF ms2 = p THEN 1 ELSE 0)
      /\ (IF msg = p THEN 1 ELSE 0) <= Cardinality(old) /\ Cardinality(old) \in Nat
  BY <1>3, RefsMsg
<1> HIDE DEF old, new
<1> QED
  BY <1>1, <1>2, <1>4

(* A message is queued. *)
LEMMA ContentQEffect ==
  ASSUME CountInv, NEW p \in Packets, NEW cq2, contentQ' = cq2, contentQ \in Queue, cq2 \in Queue,
         UNCHANGED <<sendQ, sendPkts, mine, msg>>
  PROVE  /\ IsFiniteSet(Holders(p)')
         /\ Cardinality(Holders(p)') = Cardinality(Holders(p)) - Cardinality(InQueue(contentQ, p)) + Cardinality(InQueue(cq2, p))
         /\ Cardinality(Holders(p)) \in Nat /\ Cardinality(Holders(p)) >= Cardinality(InQueue(contentQ, p))
<1> DEFINE old == Refs(p, contentQ, sendQ, sendPkts, mine, msg)
           new == Refs(p, cq2, sendQ, sendPkts, mine, msg)
<1>1. Holders(p) = old
  BY HoldersRefs
<1>2. Holders(p)' = new
  BY DEF Holders, Refs, SendRefs, MineRefs, Marked, InQueue
<1>3. IsFiniteSet(old)
  BY <1>1 DEF CountInv
<1>4. /\ IsFiniteSet(new) /\ Cardinality(new) = Cardinality(old) - Cardinality(InQueue(contentQ, p)) + Cardinality(InQueue(cq2, p))
      /\ Cardinality(InQueue(contentQ, p)) <= Cardinality(old) /\ Cardinality(old) \in Nat
  BY <1>3, RefsContentQ
<1> HIDE DEF old, new
<1> QED
  BY <1>1, <1>2, <1>4

(* The send queue of session s changes. *)
LEMMA SendQEffect ==
  ASSUME CountInv, NEW p \in Packets, NEW sq2, sendQ' = sq2, NEW s \in Sessions,
         sendQ[s] \in Queue, sq2[s] \in Queue,
         AgreeBut(s, Sessions, sendQ, sq2),
         UNCHANGED <<contentQ, sendPkts, mine, msg>>
  PROVE  /\ IsFiniteSet(Holders(p)')
         /\ Cardinality(Holders(p)') = Cardinality(Holders(p)) - Cardinality(InQueue(sendQ[s], p)) + Cardinality(InQueue(sq2[s], p))
         /\ Cardinality(Holders(p)) \in Nat /\ Cardinality(Holders(p)) >= Cardinality(InQueue(sendQ[s], p))
<1> DEFINE old == Refs(p, contentQ, sendQ, sendPkts, mine, msg)
           new == Refs(p, contentQ, sq2, sendPkts, mine, msg)
<1>1. Holders(p) = old
  BY HoldersRefs
<1>2. Holders(p)' = new
  BY DEF Holders, Refs, SendRefs, MineRefs, Marked, InQueue
<1>3. IsFiniteSet(old)
  BY <1>1 DEF CountInv
<1>4. /\ IsFiniteSet(new) /\ Cardinality(new) = Cardinality(old) - Cardinality(InQueue(sendQ[s], p)) + Cardinality(InQueue(sq2[s], p))
      /\ Cardinality(InQueue(sendQ[s], p)) <= Cardinality(old) /\ Cardinality(old) \in Nat
  BY <1>3, RefsSendQ
<1> HIDE DEF old, new
<1> QED
  BY <1>1, <1>2, <1>4

(* The packets in flight of session s change. *)
LEMMA SendPktsEffect ==
  ASSUME CountInv, NEW p \in Packets, NEW sp2, sendPkts' = sp2, NEW s \in Sessions,
         sendPkts[s] \in Queue, sp2[s] \in Queue,
         AgreeBut(s, Sessions, sendPkts, sp2),
         UNCHANGED <<contentQ, sendQ, mine, msg>>
  PROVE  /\ IsFiniteSet(Holders(p)')
         /\ Cardinality(Holders(p)') = Cardinality(Holders(p)) - Cardinality(InQueue(sendPkts[s], p)) + Cardinality(InQueue(sp2[s], p))
         /\ Cardinality(Holders(p)) \in Nat /\ Cardinality(Holders(p)) >= Cardinality(InQueue(sendPkts[s], p))
<1> DEFINE old == Refs(p, contentQ, sendQ, sendPkts, mine, msg)
           new == Refs(p, contentQ, sendQ, sp2, mine, msg)
<1>1. Holders(p) = old
  BY HoldersRefs
<1>2. Holders(p)' = new
  BY DEF Holders, Refs, SendRefs, MineRefs, Marked, InQueue
<1>3. IsFiniteSet(old)
  BY <1>1 DEF CountInv
<1>4. /\ IsFiniteSet(new) /\ Cardinality(new) = Cardinality(old) - Cardinality(InQueue(sendPkts[s], p)) + Cardinality(InQueue(sp2[s], p))
      /\ Cardinality(InQueue(sendPkts[s], p)) <= Cardinality(old) /\ Cardinality(old) \in Nat
  BY <1>3, RefsSendPkts
<1> HIDE DEF old, new
<1> QED
  BY <1>1, <1>2, <1>4

(* The first message of the content queue goes to the Update thread. *)
LEMMA PopEffect ==
  ASSUME CountInv, NEW p \in Packets, NEW cq2, contentQ' = cq2, NEW ms2, msg' = ms2,
         contentQ \in Queue, cq2 \in Queue,
         UNCHANGED <<sendQ, sendPkts, mine>>
  PROVE  /\ IsFiniteSet(Holders(p)')
         /\ Cardinality(Holders(p)') =
              Cardinality(Holders(p)) - Cardinality(InQueue(contentQ, p))
                + Cardinality(InQueue(cq2, p))
                - (IF msg = p THEN 1 ELSE 0) + (IF ms2 = p THEN 1 ELSE 0)
         /\ Cardinality(Holders(p)) \in Nat
<1> DEFINE old == Refs(p, contentQ, sendQ, sendPkts, mine, msg)
           mid == Refs(p, cq2, sendQ, sendPkts, mine, msg)
           new == Refs(p, cq2, sendQ, sendPkts, mine, ms2)
<1>1. Holders(p) = old
  BY HoldersRefs
<1>2. Holders(p)' = new
  BY DEF Holders, Refs, SendRefs, MineRefs, Marked, InQueue
<1>3. IsFiniteSet(old)
  BY <1>1 DEF CountInv
<1>4. /\ IsFiniteSet(mid) /\ Cardinality(old) \in Nat
      /\ Cardinality(mid) = Cardinality(old) - Cardinality(InQueue(contentQ, p))
                              + Cardinality(InQueue(cq2, p))
  BY <1>3, RefsContentQ
<1>5. /\ IsFiniteSet(new) /\ Cardinality(mid) \in Nat
      /\ Cardinality(new) = Cardinality(mid) - (IF msg = p THEN 1 ELSE 0)
                              + (IF ms2 = p THEN 1 ELSE 0)
  BY <1>4, RefsMsg
<1>6. Cardinality(InQueue(contentQ, p)) \in Nat /\ Cardinality(InQueue(cq2, p)) \in Nat
  BY QueueFinite
<1> HIDE DEF old, mid, new
<1> QED
  BY <1>1, <1>2, <1>4, <1>5, <1>6

(* The queue of session s becomes its packets in flight. *)
LEMMA FlushEffect ==
  ASSUME CountInv, NEW p \in Packets, NEW sq2, sendQ' = sq2, NEW sp2, sendPkts' = sp2,
         NEW s \in Sessions, sendQ[s] \in Queue, sendPkts[s] = <<>>,
         sq2[s] = <<>>, sp2[s] = sendQ[s],
         AgreeBut(s, Sessions, sendQ, sq2), AgreeBut(s, Sessions, sendPkts, sp2),
         UNCHANGED <<contentQ, mine, msg>>
  PROVE  /\ IsFiniteSet(Holders(p)')
         /\ Cardinality(Holders(p)') = Cardinality(Holders(p))
<1> DEFINE old == Refs(p, contentQ, sendQ, sendPkts, mine, msg)
           mid == Refs(p, contentQ, sq2, sendPkts, mine, msg)
           new == Refs(p, contentQ, sq2, sp2, mine, msg)
<1>0. <<>> \in Queue /\ Cardinality(InQueue(<<>>, p)) = 0 /\ Cardinality(InQueue(sendQ[s], p)) \in Nat
  BY EmptyCount, FS_EmptySet, QueueFinite
<1>1. Holders(p) = old
  BY HoldersRefs
<1>2. Holders(p)' = new
  BY DEF Holders, Refs, SendRefs, MineRefs, Marked, InQueue
<1>3. IsFiniteSet(old)
  BY <1>1 DEF CountInv
<1>7. sq2[s] \in Queue
  BY <1>0
<1>8. sp2[s] \in Queue /\ sendPkts[s] \in Queue
  BY <1>0
<1>4. /\ IsFiniteSet(mid) /\ Cardinality(old) \in Nat
      /\ Cardinality(mid) = Cardinality(old) - Cardinality(InQueue(sendQ[s], p))
                              + Cardinality(InQueue(sq2[s], p))
  BY <1>0, <1>3, <1>7, RefsSendQ
<1>5. /\ IsFiniteSet(new) /\ Cardinality(mid) \in Nat
      /\ Cardinality(new) = Cardinality(mid) - Cardinality(InQueue(sendPkts[s], p))
                              + Cardinality(InQueue(sp2[s], p))
  BY <1>0, <1>4, <1>8, RefsSendPkts
<1> HIDE DEF old, mid, new
<1> QED
  BY <1>0, <1>1, <1>2, <1>4, <1>5
-----------------------------------------------------------------------------
(* refCount follows, operation by operation *)

(* Alloc: the thread that had no packet has one nobody referred to. *)
LEMMA TakeCount ==
  ASSUME CountInv, DataInv, RoleInv, NEW t \in Threads, mine[t] = NoPacket,
         NEW a \in Packets, refCount[a] = 0,
         refCount' = [refCount EXCEPT ![a] = 1], mine' = [mine EXCEPT ![t] = a],
         UNCHANGED <<contentQ, sendQ, sendPkts, msg>>
  PROVE  CountInv'
<1> SUFFICES ASSUME NEW p \in Packets
             PROVE  IsFiniteSet(Holders(p)') /\ refCount'[p] = Cardinality(Holders(p)')
  BY DEF CountInv
<1>1. PICK mi2 : mi2 = mine'
  OBVIOUS
<1>2. mi2[t] = a /\ AgreeBut(t, Threads, mine, mi2)
  BY <1>1 DEF RoleInv, AgreeBut
<1>3. /\ IsFiniteSet(Holders(p)') /\ Cardinality(Holders(p)) \in Nat
      /\ Cardinality(Holders(p)') = Cardinality(Holders(p)) - (IF mine[t] = p THEN 1 ELSE 0)
                                      + (IF mi2[t] = p THEN 1 ELSE 0)
  <2> HIDE DEF Holders, CountInv
  <2>1. mine' = mi2 /\ AgreeBut(t, Threads, mine, mi2)
    BY <1>1, <1>2
  <2> QED
    BY ONLY CountInv, p \in Packets, t \in Threads, <2>1,
            UNCHANGED <<contentQ, sendQ, sendPkts, msg>>, MineEffect
<1>4. NoPacket # p /\ refCount[p] = Cardinality(Holders(p))
  BY PacketAssumption DEF CountInv
<1>5. refCount'[p] = IF p = a THEN 1 ELSE refCount[p]
  BY DEF DataInv
<1> HIDE DEF Holders
<1> QED
  BY <1>2, <1>3, <1>4, <1>5

(* Release of the packet a thread allocated. *)
LEMMA DropMineCount ==
  ASSUME CountInv, DataInv, RoleInv, NEW t \in Threads, NEW a \in Packets, mine[t] = a,
         refCount' = [refCount EXCEPT ![a] = @ - 1],
         mine' = [mine EXCEPT ![t] = NoPacket],
         UNCHANGED <<contentQ, sendQ, sendPkts, msg>>
  PROVE  CountInv' /\ refCount[a] >= 1
<1>0. refCount[a] >= 1
  BY MineCounted
<1> SUFFICES ASSUME NEW p \in Packets
             PROVE  IsFiniteSet(Holders(p)') /\ refCount'[p] = Cardinality(Holders(p)')
  BY <1>0 DEF CountInv
<1>1. PICK mi2 : mi2 = mine'
  OBVIOUS
<1>2. mi2[t] = NoPacket /\ AgreeBut(t, Threads, mine, mi2)
  BY <1>1 DEF RoleInv, AgreeBut
<1>3. /\ IsFiniteSet(Holders(p)') /\ Cardinality(Holders(p)) \in Nat
      /\ Cardinality(Holders(p)') = Cardinality(Holders(p)) - (IF mine[t] = p THEN 1 ELSE 0)
                                      + (IF mi2[t] = p THEN 1 ELSE 0)
  BY <1>1, <1>2, MineEffect
<1>4. NoPacket # p /\ refCount[p] = Cardinality(Holders(p))
  BY PacketAssumption DEF CountInv
<1>5. refCount'[p] = IF p = a THEN refCount[p] - 1 ELSE refCount[p]
  BY DEF DataInv
<1> HIDE DEF Holders
<1> QED
  BY <1>2, <1>3, <1>4, <1>5

(* Release of the message that was handled. *)
LEMMA DropMsgCount ==
  ASSUME CountInv, DataInv, NEW a \in Packets, msg = a,
         refCount' = [refCount EXCEPT ![a] = @ - 1], msg' = NoPacket,
         UNCHANGED <<contentQ, sendQ, sendPkts, mine>>
  PROVE  CountInv' /\ refCount[a] >= 1
<1>0. refCount[a] >= 1
  BY MsgCounted
<1> SUFFICES ASSUME NEW p \in Packets
             PROVE  IsFiniteSet(Holders(p)') /\ refCount'[p] = Cardinality(Holders(p)')
  BY <1>0 DEF CountInv
<1>1. PICK ms2 : ms2 = msg'
  OBVIOUS
<1>3. /\ IsFiniteSet(Holders(p)') /\ Cardinality(Holders(p)) \in Nat
      /\ Cardinality(Holders(p)') = Cardinality(Holders(p)) - (IF msg = p THEN 1 ELSE 0)
                                      + (IF ms2 = p THEN 1 ELSE 0)
  BY <1>1, MsgEffect
<1>4. NoPacket # p /\ refCount[p] = Cardinality(Holders(p))
  BY PacketAssumption DEF CountInv
<1>5. refCount'[p] = IF p = a THEN refCount[p] - 1 ELSE refCount[p]
  BY DEF DataInv
<1> HIDE DEF Holders
<1> QED
  BY <1>1, <1>3, <1>4, <1>5

(* OnRecv: AddRef and the push to the content queue. *)
LEMMA ReceivedCount ==
  ASSUME CountInv, DataInv, NEW e \in Entries,
         refCount' = [refCount EXCEPT ![e.pkt] = @ + 1],
         contentQ' = Append(contentQ, e),
         UNCHANGED <<sendQ, sendPkts, mine, msg>>
  PROVE  CountInv'
<1> SUFFICES ASSUME NEW p \in Packets
             PROVE  IsFiniteSet(Holders(p)') /\ refCount'[p] = Cardinality(Holders(p)')
  BY DEF CountInv
<1>0. contentQ \in Queue
  BY DEF DataInv
<1>1. PICK cq2 : cq2 = contentQ' /\ cq2 = Append(contentQ, e)
  OBVIOUS
<1>2. /\ cq2 \in Queue
      /\ Cardinality(InQueue(cq2, p)) = IF e.pkt = p THEN Cardinality(InQueue(contentQ, p)) + 1
                                                     ELSE Cardinality(InQueue(contentQ, p))
      /\ Cardinality(InQueue(contentQ, p)) \in Nat
  BY <1>0, <1>1, PushCount, QueueFinite
<1>3. /\ IsFiniteSet(Holders(p)') /\ Cardinality(Holders(p)) \in Nat
      /\ Cardinality(Holders(p)') = Cardinality(Holders(p)) - Cardinality(InQueue(contentQ, p))
                                      + Cardinality(InQueue(cq2, p))
  BY <1>0, <1>1, <1>2, ContentQEffect
<1>4. refCount[p] = Cardinality(Holders(p))
  BY DEF CountInv
<1>5. refCount'[p] = IF p = e.pkt THEN refCount[p] + 1 ELSE refCount[p]
  BY DEF DataInv
<1> HIDE DEF Holders
<1> QED
  BY <1>2, <1>3, <1>4, <1>5

(* UpdateLoop takes a message: its reference moves with it. *)
LEMMA PoppedCount ==
  ASSUME CountInv, DataInv, contentQ # <<>>, msg = NoPacket,
         msg' = Head(contentQ).pkt, contentQ' = Tail(contentQ),
         UNCHANGED <<refCount, sendQ, sendPkts, mine>>
  PROVE  CountInv'
<1> SUFFICES ASSUME NEW p \in Packets
             PROVE  IsFiniteSet(Holders(p)') /\ refCount'[p] = Cardinality(Holders(p)')
  BY DEF CountInv
<1>0. contentQ \in Queue
  BY DEF DataInv
<1>1. PICK cq2 : cq2 = contentQ' /\ cq2 = Tail(contentQ)
  OBVIOUS
<1>2. PICK ms2 : ms2 = msg' /\ ms2 = Head(contentQ).pkt
  OBVIOUS
<1>3. /\ cq2 \in Queue
      /\ Cardinality(InQueue(contentQ, p)) = IF ms2 = p THEN Cardinality(InQueue(cq2, p)) + 1
                                                        ELSE Cardinality(InQueue(cq2, p))
  BY <1>0, <1>1, <1>2, PopCount
<1>4. Cardinality(InQueue(cq2, p)) \in Nat
  BY <1>3, QueueFinite
<1>5. /\ IsFiniteSet(Holders(p)') /\ Cardinality(Holders(p)) \in Nat
      /\ Cardinality(Holders(p)') =
           Cardinality(Holders(p)) - Cardinality(InQueue(contentQ, p))
             + Cardinality(InQueue(cq2, p))
             - (IF msg = p THEN 1 ELSE 0) + (IF ms2 = p THEN 1 ELSE 0)
  BY <1>0, <1>1, <1>2, <1>3, PopEffect
<1>6. NoPacket # p /\ refCount[p] = Cardinality(Holders(p)) /\ refCount' = refCount
  BY PacketAssumption DEF CountInv
<1> HIDE DEF Holders
<1> QED
  BY <1>3, <1>4, <1>5, <1>6

(* SendPacket: AddRef and the push to the session's queue. *)
LEMMA EnqueuedCount ==
  ASSUME CountInv, DataInv, SessionInv, NEW e \in Entries, NEW s \in Sessions,
         refCount' = [refCount EXCEPT ![e.pkt] = @ + 1],
         sendQ' = [sendQ EXCEPT ![s] = Append(@, e)],
         UNCHANGED <<contentQ, sendPkts, mine, msg>>
  PROVE  CountInv'
<1> SUFFICES ASSUME NEW p \in Packets
             PROVE  IsFiniteSet(Holders(p)') /\ refCount'[p] = Cardinality(Holders(p)')
  BY DEF CountInv
<1>0. sendQ[s] \in Queue
  BY DEF SessionInv
<1>1. PICK sq2 : sq2 = sendQ'
  OBVIOUS
<1>a. sq2[s] = Append(sendQ[s], e) /\ AgreeBut(s, Sessions, sendQ, sq2)
  BY <1>1 DEF SessionInv, AgreeBut
<1>2. /\ sq2[s] \in Queue
      /\ Cardinality(InQueue(sq2[s], p)) = IF e.pkt = p THEN Cardinality(InQueue(sendQ[s], p)) + 1
                                                        ELSE Cardinality(InQueue(sendQ[s], p))
      /\ Cardinality(InQueue(sendQ[s], p)) \in Nat
  BY <1>0, <1>a, PushCount, QueueFinite
<1>3. /\ IsFiniteSet(Holders(p)') /\ Cardinality(Holders(p)) \in Nat
      /\ Cardinality(Holders(p)') = Cardinality(Holders(p)) - Cardinality(InQueue(sendQ[s], p))
                                      + Cardinality(InQueue(sq2[s], p))
  <2>1. sendQ' = sq2 /\ AgreeBut(s, Sessions, sendQ, sq2)
    BY <1>1, <1>a
  <2>2. sq2[s] \in Queue
    BY <1>2
  <2> QED
    BY ONLY CountInv, p \in Packets, s \in Sessions, <1>0, <2>1, <2>2,
            UNCHANGED <<contentQ, sendPkts, mine, msg>>, SendQEffect
<1>4. refCount[p] = Cardinality(Holders(p))
  BY DEF CountInv
<1>5. refCount'[p] = IF p = e.pkt THEN refCount[p] + 1 ELSE refCount[p]
  BY DEF DataInv
<1> HIDE DEF Holders
<1> QED
  BY <1>2, <1>3, <1>4, <1>5

(* CloseSession releases the first packet of the queue. *)
LEMMA DrainedCount ==
  ASSUME CountInv, DataInv, SessionInv, NEW s \in Sessions, sendQ[s] # <<>>,
         refCount' = [refCount EXCEPT ![Head(sendQ[s]).pkt] = @ - 1],
         sendQ' = [sendQ EXCEPT ![s] = Tail(@)],
         UNCHANGED <<contentQ, sendPkts, mine, msg>>
  PROVE  CountInv' /\ Head(sendQ[s]).pkt \in Packets /\ refCount[Head(sendQ[s]).pkt] >= 1
<1>0. sendQ[s] \in Queue
  BY DEF SessionInv
<1>1. PICK sq2 : sq2 = sendQ'
  OBVIOUS
<1>a. sq2[s] = Tail(sendQ[s]) /\ AgreeBut(s, Sessions, sendQ, sq2)
  BY <1>1 DEF SessionInv, AgreeBut
<1>b. PICK a \in Packets : a = Head(sendQ[s]).pkt
  <2>1. Head(sendQ[s]) \in Entries
    BY <1>0, PopCount
  <2> QED
    BY <2>1 DEF Entries
<1>c. \A p \in Packets : /\ IsFiniteSet(Holders(p)') /\ refCount'[p] = Cardinality(Holders(p)')
                         /\ p = a => refCount[p] >= 1
  <2> SUFFICES ASSUME NEW p \in Packets
               PROVE  /\ IsFiniteSet(Holders(p)') /\ refCount'[p] = Cardinality(Holders(p)')
                      /\ p = a => refCount[p] >= 1
    OBVIOUS
  <2>2. /\ sq2[s] \in Queue
        /\ Cardinality(InQueue(sendQ[s], p)) = IF a = p THEN Cardinality(InQueue(sq2[s], p)) + 1
                                                        ELSE Cardinality(InQueue(sq2[s], p))
    BY <1>0, <1>a, <1>b, PopCount
  <2>3. Cardinality(InQueue(sq2[s], p)) \in Nat
    BY <2>2, QueueFinite
  <2>4. /\ IsFiniteSet(Holders(p)') /\ Cardinality(Holders(p)) \in Nat
        /\ Cardinality(Holders(p)') = Cardinality(Holders(p)) - Cardinality(InQueue(sendQ[s], p))
                                        + Cardinality(InQueue(sq2[s], p))
        /\ Cardinality(Holders(p)) >= Cardinality(InQueue(sendQ[s], p))
    <3>1. sendQ' = sq2 /\ AgreeBut(s, Sessions, sendQ, sq2)
      BY <1>1, <1>a
    <3>2. sq2[s] \in Queue
      BY <2>2
    <3> QED
      BY ONLY CountInv, p \in Packets, s \in Sessions, <1>0, <3>1, <3>2,
              UNCHANGED <<contentQ, sendPkts, mine, msg>>, SendQEffect
  <2>5. refCount[p] = Cardinality(Holders(p))
    BY DEF CountInv
  <2>6. refCount'[p] = IF p = a THEN refCount[p] - 1 ELSE refCount[p]
    BY <1>b DEF DataInv
  <2> HIDE DEF Holders
  <2> QED
    BY <2>2, <2>3, <2>4, <2>5, <2>6
<1> QED
  BY <1>b, <1>c DEF CountInv

(* A completion, or FlushSend after a failed WSASend, releases the first   *)
(* of the packets in flight.                                               *)
LEMMA SentCount ==
  ASSUME CountInv, DataInv, SessionInv, NEW s \in Sessions, sendPkts[s] # <<>>,
         refCount' = [refCount EXCEPT ![Head(sendPkts[s]).pkt] = @ - 1],
         sendPkts' = [sendPkts EXCEPT ![s] = Tail(@)],
         UNCHANGED <<contentQ, sendQ, mine, msg>>
  PROVE  CountInv' /\ Head(sendPkts[s]).pkt \in Packets /\ refCount[Head(sendPkts[s]).pkt] >= 1
<1>0. sendPkts[s] \in Queue
  BY DEF SessionInv
<1>1. PICK sp2 : sp2 = sendPkts'
  OBVIOUS
<1>a. sp2[s] = Tail(sendPkts[s]) /\ AgreeBut(s, Sessions, sendPkts, sp2)
  BY <1>1 DEF SessionInv, AgreeBut
<1>b. PICK a \in Packets : a = Head(sendPkts[s]).pkt
  <2>1. Head(sendPkts[s]) \in Entries
    BY <1>0, PopCount
  <2> QED
    BY <2>1 DEF Entries
<1>c. \A p \in Packets : /\ IsFiniteSet(Holders(p)') /\ refCount'[p] = Cardinality(Holders(p)')
                         /\ p = a => refCount[p] >= 1
  <2> SUFFICES ASSUME NEW p \in Packets
               PROVE  /\ IsFiniteSet(Holders(p)') /\ refCount'[p] = Cardinality(Holders(p)')
                      /\ p = a => refCount[p] >= 1
    OBVIOUS
  <2>2. /\ sp2[s] \in Queue
        /\ Cardinality(InQueue(sendPkts[s], p)) =
             IF a = p THEN Cardinality(InQueue(sp2[s], p)) + 1 ELSE Cardinality(InQueue(sp2[s], p))
    BY <1>0, <1>a, <1>b, PopCount
  <2>3. Cardinality(InQueue(sp2[s], p)) \in Nat
    BY <2>2, QueueFinite
  <2>4. /\ IsFiniteSet(Holders(p)') /\ Cardinality(Holders(p)) \in Nat
        /\ Cardinality(Holders(p)') = Cardinality(Holders(p)) - Cardinality(InQueue(sendPkts[s], p))
                                        + Cardinality(InQueue(sp2[s], p))
        /\ Cardinality(Holders(p)) >= Cardinality(InQueue(sendPkts[s], p))
    <3>1. sendPkts' = sp2 /\ AgreeBut(s, Sessions, sendPkts, sp2)
      BY <1>1, <1>a
    <3>2. sp2[s] \in Queue
      BY <2>2
    <3> QED
      BY ONLY CountInv, p \in Packets, s \in Sessions, <1>0, <3>1, <3>2,
              UNCHANGED <<contentQ, sendQ, mine, msg>>, SendPktsEffect
  <2>5. refCount[p] = Cardinality(Holders(p))
    BY DEF CountInv
  <2>6. refCount'[p] = IF p = a THEN refCount[p] - 1 ELSE refCount[p]
    BY <1>b DEF DataInv
  <2> HIDE DEF Holders
  <2> QED
    BY <2>2, <2>3, <2>4, <2>5, <2>6
<1> QED
  BY <1>b, <1>c DEF CountInv

(* FlushSend: the references of the queue are now of the packets in flight. *)
LEMMA FlushedCount ==
  ASSUME CountInv, SessionInv, NEW s \in Sessions, sendPkts[s] = <<>>,
         sendPkts' = [sendPkts EXCEPT ![s] = sendQ[s]],
         sendQ' = [sendQ EXCEPT ![s] = <<>>],
         UNCHANGED <<contentQ, mine, msg, refCount>>
  PROVE  CountInv'
<1> SUFFICES ASSUME NEW p \in Packets
             PROVE  IsFiniteSet(Holders(p)') /\ refCount'[p] = Cardinality(Holders(p)')
  BY DEF CountInv
<1>0. sendQ[s] \in Queue
  BY DEF SessionInv
<1>1. PICK sq2 : sq2 = sendQ'
  OBVIOUS
<1>2. PICK sp2 : sp2 = sendPkts'
  OBVIOUS
<1>3. sendQ' = sq2 /\ sq2[s] = <<>> /\ AgreeBut(s, Sessions, sendQ, sq2)
  BY <1>1 DEF SessionInv, AgreeBut
<1>4. sendPkts' = sp2 /\ sp2[s] = sendQ[s] /\ AgreeBut(s, Sessions, sendPkts, sp2)
  BY <1>2 DEF SessionInv, AgreeBut
<1>5. IsFiniteSet(Holders(p)') /\ Cardinality(Holders(p)') = Cardinality(Holders(p))
  BY ONLY CountInv, p \in Packets, s \in Sessions, <1>0, <1>3, <1>4, sendPkts[s] = <<>>,
          UNCHANGED <<contentQ, mine, msg>>, FlushEffect
<1>6. refCount[p] = Cardinality(Holders(p)) /\ refCount' = refCount
  BY DEF CountInv
<1> HIDE DEF Holders
<1> QED
  BY <1>5, <1>6
-----------------------------------------------------------------------------
(* The pool *)

(* Without Alloc, AddRef and Release nothing changes. *)
LEMMA PoolKept ==
  ASSUME PoolInv, UNCHANGED <<pool, owed, created, refCount>>
  PROVE  PoolInv'
BY DEF PoolInv, InPool, Owed

(* AddRef by one who refers to the packet. *)
LEMMA PoolAddRef ==
  ASSUME PoolInv, DataInv, NEW a \in Packets, refCount[a] >= 1,
         refCount' = [refCount EXCEPT ![a] = @ + 1], UNCHANGED <<pool, owed, created>>
  PROVE  PoolInv'
<1>1. \A p \in Packets : (InPool(p)' <=> InPool(p)) /\ (Owed(p)' <=> Owed(p))
  BY DEF InPool, Owed
<1>2. /\ \A p \in Packets : p # a => refCount'[p] = refCount[p]
      /\ refCount'[a] # 0 /\ refCount[a] # 0
  BY DEF DataInv
<1>3. \A p \in Packets : /\ InPool(p)' => p \in created' /\ refCount'[p] = 0 /\ ~Owed(p)'
                         /\ Owed(p)' => p \in created' /\ refCount'[p] = 0
                         /\ p \in created' /\ refCount'[p] = 0 => InPool(p)' \/ Owed(p)'
                         /\ p \notin created' => refCount'[p] = 0
  <2> HIDE DEF InPool, Owed
  <2> QED
    BY <1>1, <1>2 DEF PoolInv
<1>4. /\ \A i, j \in 1 .. Len(pool') : pool'[i] = pool'[j] => i = j
      /\ \A t, u \in Threads : owed'[t] = owed'[u] /\ owed'[t] # NoPacket => t = u
  BY DEF PoolInv
<1> QED
  BY <1>3, <1>4 DEF PoolInv

(* Release by one who refers to the packet and owes nothing. *)
LEMMA PoolRelease ==
  ASSUME PoolInv, DataInv, NEW t \in Threads, owed[t] = NoPacket,
         NEW a \in Packets, refCount[a] >= 1, Release(t, a), UNCHANGED <<pool, created>>
  PROVE  PoolInv' /\ owed' \in [Threads -> Optional] /\ refCount' \in [Packets -> Nat]
<1> USE PacketAssumption DEF Optional
<1>1. refCount[a] \in Nat /\ a \in created /\ ~InPool(a) /\ ~Owed(a)
  BY DEF PoolInv, DataInv
<1>2. /\ refCount' \in [Packets -> Nat]
      /\ refCount'[a] = refCount[a] - 1
      /\ \A p \in Packets : p # a => refCount'[p] = refCount[p]
  BY <1>1 DEF Release, DataInv
<1>3. CASE refCount[a] # 1
  <2>1. owed' = owed /\ refCount'[a] # 0 /\ refCount[a] # 0
    BY <1>1, <1>2, <1>3 DEF Release
  <2>2. \A p \in Packets : (InPool(p)' <=> InPool(p)) /\ (Owed(p)' <=> Owed(p))
    BY <2>1 DEF InPool, Owed
  <2>3. \A p \in Packets : /\ InPool(p)' => p \in created' /\ refCount'[p] = 0 /\ ~Owed(p)'
                           /\ Owed(p)' => p \in created' /\ refCount'[p] = 0
                           /\ p \in created' /\ refCount'[p] = 0 => InPool(p)' \/ Owed(p)'
                           /\ p \notin created' => refCount'[p] = 0
    BY <1>2, <2>1, <2>2 DEF PoolInv
  <2>4. /\ \A i, j \in 1 .. Len(pool') : pool'[i] = pool'[j] => i = j
        /\ \A r, u \in Threads : owed'[r] = owed'[u] /\ owed'[r] # NoPacket => r = u
        /\ owed' \in [Threads -> Optional]
    BY <2>1 DEF PoolInv, DataInv
  <2> QED
    BY <1>2, <2>3, <2>4 DEF PoolInv
<1>4. CASE refCount[a] = 1
  <2>1. owed' = [owed EXCEPT ![t] = a] /\ refCount'[a] = 0
    BY <1>2, <1>4 DEF Release
  <2>2. /\ owed' \in [Threads -> Optional] /\ owed'[t] = a
        /\ \A u \in Threads : u # t => owed'[u] = owed[u]
    BY <2>1 DEF DataInv
  <2>3. \A u \in Threads : owed[u] # a
    BY <1>1 DEF Owed
  <2>4. \A p \in Packets : (InPool(p)' <=> InPool(p))
    BY DEF InPool
  <2>5. Owed(a)' /\ \A p \in Packets : p # a => (Owed(p)' <=> Owed(p))
    BY <2>2, <2>3 DEF Owed
  <2>6. \A p \in Packets : /\ InPool(p)' => p \in created' /\ refCount'[p] = 0 /\ ~Owed(p)'
                           /\ Owed(p)' => p \in created' /\ refCount'[p] = 0
                           /\ p \in created' /\ refCount'[p] = 0 => InPool(p)' \/ Owed(p)'
                           /\ p \notin created' => refCount'[p] = 0
    BY <1>1, <1>2, <2>1, <2>4, <2>5 DEF PoolInv
  <2>7. \A r, u \in Threads : owed'[r] = owed'[u] /\ owed'[r] # NoPacket => r = u
    BY <2>2, <2>3 DEF PoolInv
  <2>8. \A i, j \in 1 .. Len(pool') : pool'[i] = pool'[j] => i = j
    BY DEF PoolInv
  <2> QED
    BY <1>2, <2>2, <2>6, <2>7, <2>8 DEF PoolInv
<1> QED
  BY <1>3, <1>4

(* The push that was owed. *)
LEMMA PoolPush ==
  ASSUME PoolInv, DataInv, NEW t \in Threads, ReleasePush(t)
  PROVE  PoolInv' /\ pool' \in Seq(Packets) /\ owed' \in [Threads -> Optional]
<1> USE PacketAssumption DEF Optional
<1>1. PICK a \in Packets : a = owed[t]
  BY DEF ReleasePush, DataInv
<1>2. pool' = Append(pool, a) /\ owed' = [owed EXCEPT ![t] = NoPacket]
      /\ created' = created /\ refCount' = refCount
  BY <1>1 DEF ReleasePush
<1>3. Owed(a) /\ ~InPool(a) /\ a \in created /\ refCount[a] = 0
  <2>1. Owed(a)
    BY <1>1 DEF Owed
  <2> QED
    BY <2>1 DEF PoolInv
<1>4. /\ pool' \in Seq(Packets) /\ Len(pool') = Len(pool) + 1 /\ Len(pool) \in Nat
      /\ \A i \in 1 .. Len(pool) : pool'[i] = pool[i]
      /\ pool'[Len(pool) + 1] = a
  BY <1>2, AppendProperties DEF DataInv
<1>5. /\ owed' \in [Threads -> Optional] /\ owed'[t] = NoPacket
      /\ \A u \in Threads : u # t => owed'[u] = owed[u]
  BY <1>2 DEF DataInv
<1>6. \A u \in Threads : u # t => owed[u] # a
  BY <1>1 DEF PoolInv
<1>7. InPool(a)' /\ \A p \in Packets : p # a => (InPool(p)' <=> InPool(p))
  <2>1. \A p : InPool(p)' <=> (p = a \/ InPool(p))
    BY <1>4 DEF InPool
  <2> QED
    BY <2>1
<1>8. ~Owed(a)' /\ \A p \in Packets : p # a => (Owed(p)' <=> Owed(p))
  BY <1>1, <1>5, <1>6 DEF Owed
<1>9. \A p \in Packets : /\ InPool(p)' => p \in created' /\ refCount'[p] = 0 /\ ~Owed(p)'
                         /\ Owed(p)' => p \in created' /\ refCount'[p] = 0
                         /\ p \in created' /\ refCount'[p] = 0 => InPool(p)' \/ Owed(p)'
                         /\ p \notin created' => refCount'[p] = 0
  BY <1>2, <1>3, <1>7, <1>8 DEF PoolInv
<1>10. \A i, j \in 1 .. Len(pool') : pool'[i] = pool'[j] => i = j
  <2>1. \A i \in 1 .. Len(pool) : pool[i] # a
    BY <1>3 DEF InPool
  <2> QED
    BY <1>4, <2>1 DEF PoolInv
<1>11. \A r, u \in Threads : owed'[r] = owed'[u] /\ owed'[r] # NoPacket => r = u
  BY <1>5 DEF PoolInv
<1> QED
  BY <1>4, <1>5, <1>9, <1>10, <1>11 DEF PoolInv

(* Alloc takes a packet nobody refers to, the last one pushed or a new one. *)
LEMMA PoolAlloc ==
  ASSUME PoolInv, DataInv, NEW t \in Threads, Alloc(t)
  PROVE  \E a \in Packets :
           /\ refCount[a] = 0 /\ refCount' = [refCount EXCEPT ![a] = 1]
           /\ mine' = [mine EXCEPT ![t] = a]
           /\ content' = [content EXCEPT ![a] = writes + 1]
           /\ created' = created \cup {a} /\ pool' \in Seq(Packets)
           /\ PoolInv'
<1>1. PICK a \in Packets :
        /\ \/ /\ pool # <<>> /\ a = pool[Len(pool)]
              /\ pool' = SubSeq(pool, 1, Len(pool) - 1) /\ created' = created
           \/ /\ pool = <<>> /\ a \notin created
              /\ created' = created \cup {a} /\ pool' = pool
        /\ refCount' = [refCount EXCEPT ![a] = 1]
        /\ content' = [content EXCEPT ![a] = writes + 1]
        /\ mine' = [mine EXCEPT ![t] = a]
        /\ owed' = owed
  BY DEF Alloc
<1>2. refCount'[a] = 1 /\ \A p \in Packets : p # a => refCount'[p] = refCount[p]
  BY <1>1 DEF DataInv
<1>3. \A p : (Owed(p)' <=> Owed(p))
  BY <1>1 DEF Owed
<1>4. /\ created' = created \cup {a} /\ pool' \in Seq(Packets) /\ refCount[a] = 0
      /\ ~Owed(a)
      /\ ~InPool(a)' /\ \A p \in Packets : p # a => (InPool(p)' <=> InPool(p))
      /\ \A i, j \in 1 .. Len(pool') : pool'[i] = pool'[j] => i = j
  <2>1. CASE pool = <<>>
    <3>1. pool' = pool /\ a \notin created /\ created' = created \cup {a}
      BY <1>1, <2>1
    <3>2. refCount[a] = 0 /\ ~Owed(a) /\ ~InPool(a)
      BY <3>1 DEF PoolInv
    <3>3. \A p : (InPool(p)' <=> InPool(p))
      BY <3>1 DEF InPool
    <3>4. \A i, j \in 1 .. Len(pool') : pool'[i] = pool'[j] => i = j
      BY <3>1 DEF PoolInv
    <3>5. pool' \in Seq(Packets)
      BY <3>1 DEF DataInv
    <3> QED
      BY <3>1, <3>2, <3>3, <3>4, <3>5
  <2>2. CASE pool # <<>>
    <3>1. pool' = SubSeq(pool, 1, Len(pool) - 1) /\ a = pool[Len(pool)] /\ created' = created
      BY <1>1, <2>2
    <3>2. /\ Len(pool) \in Nat /\ Len(pool) >= 1 /\ pool' \in Seq(Packets)
          /\ Len(pool') = Len(pool) - 1
          /\ \A i \in 1 .. (Len(pool) - 1) : pool'[i] = pool[i]
      <4>1. pool \in Seq(Packets) /\ Len(pool) \in Nat /\ Len(pool) # 0
        BY <2>2, EmptySeq DEF DataInv
      <4>2. PICK n \in Nat : n = Len(pool) - 1 /\ pool' = SubSeq(pool, 1, n)
        BY <3>1, <4>1, SMTT(30)
      <4>3. /\ SubSeq(pool, 1, n) \in Seq(Packets) /\ Len(SubSeq(pool, 1, n)) = n
            /\ \A i \in 1 .. n : SubSeq(pool, 1, n)[i] = pool[i]
        <5>1. \A i \in 1 .. n : pool[i] \in Packets
          BY <4>1, <4>2
        <5>2. SubSeq(pool, 1, n) \in Seq(Packets)
          BY <5>1, SubSeqProperties
        <5>3. Len(SubSeq(pool, 1, n)) = n
          BY <4>1, <4>2
        <5>4. \A i \in 1 .. n : SubSeq(pool, 1, n)[i] = pool[i]
          BY <4>1, <4>2
        <5> QED
          BY <5>2, <5>3, <5>4
      <4> QED
        BY <4>1, <4>2, <4>3
    <3>3. InPool(a)
      BY <3>1, <3>2 DEF InPool
    <3>4. a \in created /\ refCount[a] = 0 /\ ~Owed(a)
      BY <3>3 DEF PoolInv
    <3>5. \A i \in 1 .. Len(pool) : pool[i] = a => i = Len(pool)
      BY <3>1, <3>2 DEF PoolInv
    <3>6. ~InPool(a)' /\ \A p \in Packets : p # a => (InPool(p)' <=> InPool(p))
      BY <3>1, <3>2, <3>5 DEF InPool
    <3>7. \A i, j \in 1 .. Len(pool') : pool'[i] = pool'[j] => i = j
      BY <3>2, SMTT(30) DEF PoolInv
    <3> QED
      BY <3>1, <3>2, <3>4, <3>6, <3>7
  <2> QED
    BY <2>1, <2>2
<1>5. \A p \in Packets : /\ InPool(p)' => p \in created' /\ refCount'[p] = 0 /\ ~Owed(p)'
                         /\ Owed(p)' => p \in created' /\ refCount'[p] = 0
                         /\ p \in created' /\ refCount'[p] = 0 => InPool(p)' \/ Owed(p)'
                         /\ p \notin created' => refCount'[p] = 0
  BY <1>2, <1>3, <1>4 DEF PoolInv
<1>6. \A r, u \in Threads : owed'[r] = owed'[u] /\ owed'[r] # NoPacket => r = u
  BY <1>1 DEF PoolInv
<1>7. PoolInv'
  BY <1>4, <1>5, <1>6 DEF PoolInv
<1> QED
  BY <1>1, <1>4, <1>7
-----------------------------------------------------------------------------
(* What waits is intact *)

(* A packet put in a queue as it is. *)
LEMMA IntactPush ==
  ASSUME NEW q \in Queue, NEW c, NEW e \in Entries, Intact(q, c), e.content = c[e.pkt]
  PROVE  Intact(Append(q, e), c)
<1>1. /\ Len(Append(q, e)) = Len(q) + 1 /\ Len(q) \in Nat
      /\ \A i \in 1 .. Len(q) : Append(q, e)[i] = q[i]
      /\ Append(q, e)[Len(q) + 1] = e
  BY AppendProperties DEF Queue
<1>2. ASSUME NEW i \in 1 .. Len(Append(q, e))
      PROVE  Append(q, e)[i].content = c[Append(q, e)[i].pkt]
  <2>1. CASE i = Len(q) + 1
    BY <1>1, <2>1
  <2>2. CASE i # Len(q) + 1
    <3>1. i \in 1 .. Len(q) /\ Append(q, e)[i] = q[i]
      BY <1>1, <2>2
    <3> QED
      BY <3>1 DEF Intact
  <2> QED
    BY <2>1, <2>2
<1> QED
  BY <1>2 DEF Intact

(* The others stay when the first one leaves. *)
LEMMA IntactPop ==
  ASSUME NEW q \in Queue, NEW c, q # <<>>, Intact(q, c)
  PROVE  Intact(Tail(q), c)
<1>1. /\ Len(q) \in Nat /\ Len(Tail(q)) = Len(q) - 1
      /\ \A i \in 1 .. Len(Tail(q)) : Tail(q)[i] = q[i + 1]
  BY HeadTailProperties DEF Queue
<1> QED
  BY <1>1 DEF Intact

(* A packet outside the queue is written. *)
LEMMA IntactWrite ==
  ASSUME NEW q \in Queue, NEW c \in [Packets -> 0 .. MaxWrites], NEW a \in Packets, NEW x,
         InQueue(q, a) = {}, Intact(q, c)
  PROVE  Intact(q, [c EXCEPT ![a] = x])
<1> SUFFICES ASSUME NEW i \in 1 .. Len(q)
             PROVE  q[i].content = [c EXCEPT ![a] = x][q[i].pkt]
  BY DEF Intact
<1>1. i \in DOMAIN q /\ q[i] \in Entries
  BY DEF Queue
<1>2. q[i].pkt \in Packets /\ q[i].pkt # a
  BY <1>1 DEF InQueue, Entries
<1> QED
  BY <1>2 DEF Intact

(* A packet nobody refers to is in no queue. *)
LEMMA Unreferenced ==
  ASSUME CountInv, NEW a \in Packets, refCount[a] = 0
  PROVE  /\ InQueue(contentQ, a) = {}
         /\ \A s \in Sessions : InQueue(sendQ[s], a) = {} /\ InQueue(sendPkts[s], a) = {}
<1>1. Holders(a) = {}
  BY FS_EmptySet DEF CountInv
<1>2. Refs(a, contentQ, sendQ, sendPkts, mine, msg) = {}
  BY <1>1, HoldersRefs
<1>3. Marked(InQueue(contentQ, a), <<"contentQ">>) = {} /\ SendRefs(a, sendQ, sendPkts, Sessions) = {}
  BY <1>2 DEF Refs
<1>4. ASSUME NEW S, NEW x, Marked(S, x) = {} PROVE S = {}
  <2>1. \A y \in S : <<y, x>> \in Marked(S, x)
    BY DEF Marked
  <2> QED
    BY <1>4, <2>1
<1>5. ASSUME NEW s \in Sessions PROVE InQueue(sendQ[s], a) = {} /\ InQueue(sendPkts[s], a) = {}
  <2>1. Marked(InQueue(sendQ[s], a), <<"sendQ", s>>) = {} /\ Marked(InQueue(sendPkts[s], a), <<"sendPkts", s>>) = {}
    <3>1. SendRefs(a, sendQ, sendPkts, Sessions) =
            Marked(InQueue(sendQ[s], a), <<"sendQ", s>>)
            \cup Marked(InQueue(sendPkts[s], a), <<"sendPkts", s>>)
            \cup SendRefs(a, sendQ, sendPkts, Sessions \ {s})
      BY SendSplit
    <3> QED
      BY <1>3, <3>1
  <2> QED
    BY <1>4, <2>1
<1> QED
  BY <1>3, <1>4, <1>5

(* The entry of a packet that exists. *)
LEMMA EntryIn ==
  ASSUME DataInv, NEW a \in created
  PROVE  /\ Entry(a) \in Entries /\ Entry(a).pkt = a
         /\ Entry(a).content = content[Entry(a).pkt]
<1>1. a \in Packets /\ content[a] \in 1 .. MaxWrites
  BY PacketAssumption DEF DataInv
<1> QED
  BY <1>1 DEF Entry, Entries
-----------------------------------------------------------------------------
(* Where the threads are *)

(* The labels at which a worker has no packet and the Update thread has    *)
(* one.                                                                    *)
SendLabels(t) == IF t = Updater THEN UpdaterLabels \ {"idle", "handle"}
                                ELSE WorkerLabels \ {"recv", "received"}

(* A step between them. *)
LEMMA RoleMove ==
  ASSUME RoleInv, NEW t \in Threads, NEW l, pc[t] \in SendLabels(t), l \in SendLabels(t),
         pc' = [pc EXCEPT ![t] = l], cur' \in [Threads -> Sessions],
         todo' \in SUBSET Sessions, UNCHANGED <<mine, msg>>
  PROVE  RoleInv'
<1> USE PacketAssumption DEF Threads
<1>1. /\ pc' \in [Threads -> WorkerLabels \cup UpdaterLabels] /\ pc'[t] = l
      /\ \A u \in Threads \ {t} : pc'[u] = pc[u]
  BY DEF RoleInv, SendLabels
<1>2. ASSUME NEW w \in Workers
      PROVE  pc'[w] \in WorkerLabels /\ (mine'[w] # NoPacket <=> pc'[w] \in {"recv", "received"})
  BY <1>1 DEF RoleInv, SendLabels
<1>3. /\ pc'[Updater] \in UpdaterLabels
      /\ mine'[Updater] # NoPacket <=> pc'[Updater] \notin {"idle", "handle"}
      /\ pc'[Updater] = "idle" => msg' = NoPacket
      /\ pc'[Updater] = "handle" => msg' # NoPacket
  BY <1>1 DEF RoleInv, SendLabels
<1> QED
  BY <1>1, <1>2, <1>3 DEF RoleInv

Still == UNCHANGED <<poolVars, contentQ, sendQ, sendPkts, mine, msg>>

(* A step that leaves the packets where they are keeps most of it. *)
LEMMA StillStep ==
  ASSUME IInv, Still
  PROVE  DataInv' /\ PoolInv' /\ CountInv' /\ IntactInv'
<1>1. DataInv'
  BY DEF IInv, DataInv, Still, poolVars
<1>2. PoolInv'
  BY PoolKept DEF IInv, Still, poolVars
<1>3. CountInv'
  BY SameCount DEF IInv, Still, poolVars
<1>4. IntactInv'
  BY DEF IInv, IntactInv, Still, poolVars
<1> QED
  BY <1>1, <1>2, <1>3, <1>4
-----------------------------------------------------------------------------
(* The steps that move no packet *)

(* The test of closeFlag before a send. *)
LEMMA SendPacketStep ==
  ASSUME IInv, NEW s \in Sessions, SendPacket(s)
  PROVE  IInv'
<1> USE PacketAssumption DEF IInv
<1>1. DataInv' /\ PoolInv' /\ CountInv' /\ IntactInv'
  <2>1. Still
    BY DEF SendPacket, Still, poolVars, sessVars
  <2> QED
    BY <2>1, StillStep
<1>2. SessionInv'
  BY DEF SendPacket, SessionInv, sessVars
<1>3. RoleInv'
  <2>1. /\ pc[Updater] \in SendLabels(Updater) /\ pc' = [pc EXCEPT ![Updater] = (IF closeFlag[s] THEN "send" ELSE "enqueue")]
        /\ (IF closeFlag[s] THEN "send" ELSE "enqueue") \in SendLabels(Updater)
    BY DEF SendPacket, RoleInv, At, Goto, Threads, SendLabels, Home,
           WorkerLabels, UpdaterLabels, SessionLabels
  <2>2. Updater \in Threads /\ cur' \in [Threads -> Sessions] /\ todo' \in SUBSET Sessions
        /\ UNCHANGED <<mine, msg>>
    BY DEF SendPacket, RoleInv, Threads
  <2> QED
    BY <2>1, <2>2, RoleMove
<1> QED
  BY <1>1, <1>2, <1>3

(* A completion is dequeued, with success or an error. *)
LEMMA SendCompletesStep ==
  ASSUME IInv, NEW w \in Workers, NEW s \in Sessions, SendCompletes(w, s)
  PROVE  IInv'
<1> USE PacketAssumption DEF IInv
<1>1. DataInv' /\ PoolInv' /\ CountInv' /\ IntactInv'
  <2>1. Still
    BY DEF SendCompletes, Still, poolVars, sessVars
  <2> QED
    BY <2>1, StillStep
<1>2. SessionInv'
  BY DEF SendCompletes, SessionInv, sessVars
<1>3. RoleInv'
  <2>1. PICK l \in {"sent", "close"} : pc' = [pc EXCEPT ![w] = l]
    BY DEF SendCompletes, Goto
  <2>2. pc[w] \in SendLabels(w) /\ l \in SendLabels(w)
    BY <2>1 DEF SendCompletes, At, SendLabels, WorkerLabels, SessionLabels
  <2>3. w \in Threads /\ cur' \in [Threads -> Sessions] /\ todo' \in SUBSET Sessions
        /\ UNCHANGED <<mine, msg>>
    BY DEF SendCompletes, RoleInv, Threads
  <2> QED
    BY <2>1, <2>2, <2>3, RoleMove
<1> QED
  BY <1>1, <1>2, <1>3

(* OnSendComplete looks at the queue again. *)
LEMMA RecheckStep ==
  ASSUME IInv, NEW w \in Workers, OnSendCompleteRecheck(w)
  PROVE  IInv'
<1> USE PacketAssumption DEF IInv
<1>1. DataInv' /\ PoolInv' /\ CountInv' /\ IntactInv'
  <2>1. Still
    BY DEF OnSendCompleteRecheck, Still, poolVars, sessVars
  <2> QED
    BY <2>1, StillStep
<1>2. SessionInv'
  BY DEF OnSendCompleteRecheck, SessionInv, sessVars
<1>3. RoleInv'
  <2>1. /\ pc[w] \in SendLabels(w) /\ pc' = [pc EXCEPT ![w] = (IF sendQ[cur[w]] # <<>> THEN "flush" ELSE "idle")]
        /\ (IF sendQ[cur[w]] # <<>> THEN "flush" ELSE "idle") \in SendLabels(w)
    BY DEF OnSendCompleteRecheck, RoleInv, At, Goto, Threads, SendLabels, Home,
           WorkerLabels, UpdaterLabels, SessionLabels
  <2>2. w \in Threads /\ cur' \in [Threads -> Sessions] /\ todo' \in SUBSET Sessions
        /\ UNCHANGED <<mine, msg>>
    BY DEF OnSendCompleteRecheck, RoleInv, Threads
  <2> QED
    BY <2>1, <2>2, RoleMove
<1> QED
  BY <1>1, <1>2, <1>3

(* A worker learns that the peer is gone. *)
LEMMA PeerGoneStep ==
  ASSUME IInv, NEW w \in Workers, NEW s \in Sessions, PeerGone(w, s)
  PROVE  IInv'
<1> USE PacketAssumption DEF IInv
<1>1. DataInv' /\ PoolInv' /\ CountInv' /\ IntactInv'
  <2>1. Still
    BY DEF PeerGone, Still, poolVars, sessVars
  <2> QED
    BY <2>1, StillStep
<1>2. SessionInv'
  BY DEF PeerGone, SessionInv, sessVars
<1>3. RoleInv'
  <2>1. /\ pc[w] \in SendLabels(w) /\ pc' = [pc EXCEPT ![w] = "close"]
        /\ "close" \in SendLabels(w)
    BY DEF PeerGone, RoleInv, At, Goto, Threads, SendLabels, Home,
           WorkerLabels, UpdaterLabels, SessionLabels
  <2>2. w \in Threads /\ cur' \in [Threads -> Sessions] /\ todo' \in SUBSET Sessions
        /\ UNCHANGED <<mine, msg>>
    BY DEF PeerGone, RoleInv, Threads
  <2> QED
    BY <2>1, <2>2, RoleMove
<1> QED
  BY <1>1, <1>2, <1>3

(* closeFlag is set, by one thread first. *)
LEMMA CloseSessionStep ==
  ASSUME IInv, NEW t \in Threads, CloseSession(t)
  PROVE  IInv'
<1> USE PacketAssumption DEF IInv
<1>1. DataInv' /\ PoolInv' /\ CountInv' /\ IntactInv'
  <2>1. Still
    BY DEF CloseSession, Still, poolVars, sessVars
  <2> QED
    BY <2>1, StillStep
<1>2. SessionInv'
  BY DEF CloseSession, SessionInv, sessVars
<1>3. RoleInv'
  <2>1. /\ pc[t] \in SendLabels(t) /\ pc' = [pc EXCEPT ![t] = (IF closeFlag[cur[t]] THEN Home(t) ELSE "closing")]
        /\ (IF closeFlag[cur[t]] THEN Home(t) ELSE "closing") \in SendLabels(t)
    BY DEF CloseSession, RoleInv, At, Goto, Threads, SendLabels, Home,
           WorkerLabels, UpdaterLabels, SessionLabels
  <2>2. t \in Threads /\ cur' \in [Threads -> Sessions] /\ todo' \in SUBSET Sessions
        /\ UNCHANGED <<mine, msg>>
    BY DEF CloseSession, RoleInv, Threads
  <2> QED
    BY <2>1, <2>2, RoleMove
<1> QED
  BY <1>1, <1>2, <1>3

(* CloseSession gets the lock of the queue. *)
LEMMA CloseSessionLockStep ==
  ASSUME IInv, NEW t \in Threads, CloseSessionLock(t)
  PROVE  IInv'
<1> USE PacketAssumption DEF IInv
<1>1. DataInv' /\ PoolInv' /\ CountInv' /\ IntactInv'
  <2>1. Still
    BY DEF CloseSessionLock, Still, poolVars, sessVars
  <2> QED
    BY <2>1, StillStep
<1>2. SessionInv'
  BY DEF CloseSessionLock, SessionInv, sessVars
<1>3. RoleInv'
  <2>1. /\ pc[t] \in SendLabels(t) /\ pc' = [pc EXCEPT ![t] = "drain"]
        /\ "drain" \in SendLabels(t)
    BY DEF CloseSessionLock, RoleInv, At, Goto, Threads, SendLabels, Home,
           WorkerLabels, UpdaterLabels, SessionLabels
  <2>2. t \in Threads /\ cur' \in [Threads -> Sessions] /\ todo' \in SUBSET Sessions
        /\ UNCHANGED <<mine, msg>>
    BY DEF CloseSessionLock, RoleInv, Threads
  <2> QED
    BY <2>1, <2>2, RoleMove
<1> QED
  BY <1>1, <1>2, <1>3
-----------------------------------------------------------------------------
(* The steps that do *)

(* The push of a packet whose count reached 0. *)
LEMMA ReleasePushStep ==
  ASSUME IInv, NEW t \in Threads, ReleasePush(t)
  PROVE  IInv'
<1> USE DEF IInv
<1>1. PoolInv' /\ pool' \in Seq(Packets) /\ owed' \in [Threads -> Optional]
  BY PoolPush
<1>2. DataInv'
  BY <1>1 DEF ReleasePush, DataInv
<1>3. SessionInv'
  BY DEF ReleasePush, SessionInv, sessVars
<1>4. RoleInv'
  BY DEF ReleasePush, RoleInv, threadVars
<1>5. CountInv'
  BY SameCount DEF ReleasePush, sessVars, threadVars
<1>6. IntactInv'
  BY DEF ReleasePush, IntactInv, sessVars
<1> QED
  BY <1>1, <1>2, <1>3, <1>4, <1>5, <1>6

(* Alloc by a thread without a packet. *)
LEMMA AllocStep ==
  ASSUME IInv, NEW t \in Threads, mine[t] = NoPacket, Alloc(t),
         UNCHANGED <<contentQ, sessVars, msg>>
  PROVE  /\ DataInv' /\ SessionInv' /\ PoolInv' /\ CountInv' /\ IntactInv'
         /\ \E a \in Packets : mine' = [mine EXCEPT ![t] = a]
<1> USE DEF IInv
<1>1. PICK a \in Packets :
        /\ refCount[a] = 0 /\ refCount' = [refCount EXCEPT ![a] = 1]
        /\ mine' = [mine EXCEPT ![t] = a]
        /\ content' = [content EXCEPT ![a] = writes + 1]
        /\ created' = created \cup {a} /\ pool' \in Seq(Packets)
        /\ PoolInv'
  BY PoolAlloc
<1>2. DataInv'
  <2>1. writes < MaxWrites /\ writes' = writes + 1 /\ owed' = owed /\ contentQ' = contentQ
    BY DEF Alloc
  <2>2. writes' \in 0 .. MaxWrites /\ content' \in [Packets -> 0 .. MaxWrites] /\ writes + 1 # 0
    BY <1>1, <2>1, PacketAssumption DEF DataInv
  <2>3. refCount' \in [Packets -> Nat] /\ created' \in SUBSET Packets
    BY <1>1 DEF DataInv
  <2>4. \A p \in created' : content'[p] # 0
    BY <1>1, <2>2, <2>3 DEF DataInv
  <2> QED
    BY <1>1, <2>1, <2>2, <2>3, <2>4 DEF DataInv
<1>3. SessionInv'
  BY DEF SessionInv, sessVars
<1>4. CountInv'
  BY <1>1, TakeCount DEF sessVars
<1>5. IntactInv'
  <2>1. /\ InQueue(contentQ, a) = {}
        /\ \A s \in Sessions : InQueue(sendQ[s], a) = {} /\ InQueue(sendPkts[s], a) = {}
    BY <1>1, Unreferenced
  <2>2. PICK x : x = writes + 1
    OBVIOUS
  <2>3. content \in [Packets -> 0 .. MaxWrites] /\ content' = [content EXCEPT ![a] = x]
    BY <1>1, <2>2 DEF DataInv
  <2>4. Intact(contentQ, content')
    <3>1. contentQ \in Queue /\ Intact(contentQ, content)
      BY DEF DataInv, IntactInv
    <3> QED
      BY <2>1, <2>3, <3>1, IntactWrite
  <2>5. ASSUME NEW s \in Sessions
        PROVE  Intact(sendQ[s], content') /\ Intact(sendPkts[s], content')
    <3>1. /\ sendQ[s] \in Queue /\ Intact(sendQ[s], content)
          /\ sendPkts[s] \in Queue /\ Intact(sendPkts[s], content)
      BY DEF SessionInv, IntactInv
    <3>2. Intact(sendQ[s], content')
      BY <2>1, <2>3, <3>1, IntactWrite
    <3>3. Intact(sendPkts[s], content')
      BY <2>1, <2>3, <3>1, IntactWrite
    <3> QED
      BY <3>2, <3>3
  <2> QED
    BY <2>4, <2>5 DEF IntactInv, sessVars
<1> QED
  BY <1>1, <1>2, <1>3, <1>4, <1>5

(* OnRecvComplete allocates. *)
LEMMA RecvAllocStep ==
  ASSUME IInv, NEW w \in Workers, RecvAlloc(w)
  PROVE  IInv'
<1> USE DEF IInv
<1>1. w \in Threads /\ w # Updater /\ mine[w] = NoPacket
  BY PacketAssumption DEF RecvAlloc, At, RoleInv, Threads
<1>2. /\ DataInv' /\ SessionInv' /\ PoolInv' /\ CountInv' /\ IntactInv'
      /\ \E a \in Packets : mine' = [mine EXCEPT ![w] = a]
  BY <1>1, AllocStep DEF RecvAlloc
<1>3. RoleInv'
  <2>1. PICK a \in Packets : mine' = [mine EXCEPT ![w] = a]
    BY <1>2
  <2>2. /\ pc' = [pc EXCEPT ![w] = "recv"] /\ UNCHANGED <<msg, todo>>
        /\ cur' \in [Threads -> Sessions]
    BY DEF RecvAlloc, Goto, RoleInv
  <2> QED
    BY <1>1, <2>1, <2>2, PacketAssumption
    DEF RoleInv, Optional, Threads, WorkerLabels, UpdaterLabels, SessionLabels
<1> QED
  BY <1>2, <1>3

(* A handler allocates. *)
LEMMA HandlerAllocStep ==
  ASSUME IInv, HandlerAlloc
  PROVE  IInv'
<1> USE DEF IInv
<1>1. Updater \in Threads /\ mine[Updater] = NoPacket /\ Updater \notin Workers
  BY PacketAssumption DEF HandlerAlloc, Threads
<1>2. /\ DataInv' /\ SessionInv' /\ PoolInv' /\ CountInv' /\ IntactInv'
      /\ \E a \in Packets : mine' = [mine EXCEPT ![Updater] = a]
  BY <1>1, AllocStep DEF HandlerAlloc
<1>3. RoleInv'
  <2>1. PICK a \in Packets : mine' = [mine EXCEPT ![Updater] = a]
    BY <1>2
  <2>2. /\ pc' = [pc EXCEPT ![Updater] = "send"] /\ UNCHANGED <<msg, cur>>
        /\ todo' \in SUBSET Sessions
    BY DEF HandlerAlloc, Goto
  <2> QED
    BY <1>1, <2>1, <2>2, PacketAssumption
    DEF RoleInv, Optional, Threads, WorkerLabels, UpdaterLabels, SessionLabels
<1> QED
  BY <1>2, <1>3

(* Release, by a thread that owes nothing, of a reference it has. *)
LEMMA ReleaseStep ==
  ASSUME IInv, NEW t \in Threads, owed[t] = NoPacket,
         NEW a \in Packets, refCount[a] >= 1, Release(t, a),
         UNCHANGED <<pool, created, content, writes, contentQ>>
  PROVE  DataInv' /\ PoolInv'
<1>1. PoolInv' /\ owed' \in [Threads -> Optional] /\ refCount' \in [Packets -> Nat]
  BY PoolRelease DEF IInv
<1> QED
  BY <1>1 DEF IInv, DataInv

(* A thread releases the packet it allocated. *)
LEMMA DropStep ==
  ASSUME IInv, NEW t \in Threads, owed[t] = NoPacket, mine[t] # NoPacket,
         Release(t, mine[t]), mine' = [mine EXCEPT ![t] = NoPacket],
         UNCHANGED <<pool, created, content, writes, contentQ, sessVars, msg>>
  PROVE  DataInv' /\ SessionInv' /\ PoolInv' /\ CountInv' /\ IntactInv'
<1> USE DEF IInv
<1>1. PICK a \in Packets : a = mine[t]
  BY DEF RoleInv, Optional
<1>2. CountInv' /\ refCount[a] >= 1
  BY <1>1, DropMineCount DEF Release, sessVars
<1>3. DataInv' /\ PoolInv'
  BY <1>1, <1>2, ReleaseStep
<1>4. SessionInv'
  BY DEF SessionInv, sessVars
<1>5. IntactInv'
  BY DEF IntactInv, sessVars
<1> QED
  BY <1>2, <1>3, <1>4, <1>5

(* Decode refuses the packet. *)
LEMMA RecvRejectStep ==
  ASSUME IInv, NEW w \in Workers, RecvReject(w)
  PROVE  IInv'
<1> USE DEF IInv
<1>1. w \in Threads /\ w # Updater /\ owed[w] = NoPacket /\ mine[w] # NoPacket
  BY PacketAssumption DEF RecvReject, At, RoleInv, Threads
<1>2. DataInv' /\ SessionInv' /\ PoolInv' /\ CountInv' /\ IntactInv'
  BY <1>1, DropStep DEF RecvReject
<1>3. RoleInv'
  BY <1>1, PacketAssumption
  DEF RecvReject, Goto, RoleInv, Optional, Threads, WorkerLabels, UpdaterLabels, SessionLabels
<1> QED
  BY <1>2, <1>3

(* OnRecvComplete releases what it handed on. *)
LEMMA RecvReleaseStep ==
  ASSUME IInv, NEW w \in Workers, RecvRelease(w)
  PROVE  IInv'
<1> USE DEF IInv
<1>1. w \in Threads /\ w # Updater /\ owed[w] = NoPacket /\ mine[w] # NoPacket
  BY PacketAssumption DEF RecvRelease, At, RoleInv, Threads
<1>2. DataInv' /\ SessionInv' /\ PoolInv' /\ CountInv' /\ IntactInv'
  BY <1>1, DropStep DEF RecvRelease
<1>3. RoleInv'
  BY <1>1, PacketAssumption
  DEF RecvRelease, Goto, RoleInv, Optional, Threads, WorkerLabels, UpdaterLabels, SessionLabels
<1> QED
  BY <1>2, <1>3

(* A handler releases what it sent. *)
LEMMA HandlerReleaseStep ==
  ASSUME IInv, HandlerRelease
  PROVE  IInv'
<1> USE DEF IInv
<1>1. /\ Updater \in Threads /\ Updater \notin Workers
      /\ owed[Updater] = NoPacket /\ mine[Updater] # NoPacket
  BY PacketAssumption DEF HandlerRelease, At, RoleInv, Threads
<1>2. DataInv' /\ SessionInv' /\ PoolInv' /\ CountInv' /\ IntactInv'
  BY <1>1, DropStep DEF HandlerRelease
<1>3. RoleInv'
  BY <1>1, PacketAssumption
  DEF HandlerRelease, Goto, RoleInv, Optional, Threads, WorkerLabels, UpdaterLabels, SessionLabels
<1> QED
  BY <1>2, <1>3

(* UpdateLoop releases the message. *)
LEMMA MessageReleaseStep ==
  ASSUME IInv, MessageRelease
  PROVE  IInv'
<1> USE DEF IInv
<1>1. /\ Updater \in Threads /\ Updater \notin Workers
      /\ owed[Updater] = NoPacket /\ msg # NoPacket
  BY PacketAssumption DEF MessageRelease, At, RoleInv, Threads
<1>2. PICK a \in Packets : a = msg
  BY <1>1 DEF RoleInv, Optional
<1>3. CountInv' /\ refCount[a] >= 1
  BY <1>2, DropMsgCount DEF MessageRelease, Release, sessVars
<1>4. DataInv' /\ PoolInv'
  BY <1>1, <1>2, <1>3, ReleaseStep DEF MessageRelease
<1>5. SessionInv'
  BY DEF MessageRelease, SessionInv, sessVars
<1>6. IntactInv'
  BY DEF MessageRelease, IntactInv, sessVars
<1>7. RoleInv'
  BY <1>1, PacketAssumption
  DEF MessageRelease, At, Goto, RoleInv, Optional, Threads, WorkerLabels, UpdaterLabels, SessionLabels
<1> QED
  BY <1>3, <1>4, <1>5, <1>6, <1>7

(* A packet a thread has exists. *)
LEMMA MineExists ==
  ASSUME IInv, NEW t \in Threads, mine[t] # NoPacket
  PROVE  mine[t] \in Packets /\ mine[t] \in created /\ refCount[mine[t]] >= 1
<1>1. PICK a \in Packets : a = mine[t]
  BY DEF IInv, RoleInv, Optional
<1>2. refCount[a] >= 1
  BY <1>1, MineCounted DEF IInv
<1>3. a \in created
  BY <1>2 DEF IInv, PoolInv, DataInv
<1> QED
  BY <1>1, <1>2, <1>3

(* OnRecv hands the packet to the content queue. *)
LEMMA OnRecvStep ==
  ASSUME IInv, NEW w \in Workers, OnRecv(w)
  PROVE  IInv'
<1> USE DEF IInv
<1>1. w \in Threads /\ w # Updater /\ mine[w] # NoPacket
  BY PacketAssumption DEF OnRecv, At, RoleInv, Threads
<1>2. PICK a \in created : a = mine[w] /\ a \in Packets /\ refCount[a] >= 1
  BY <1>1, MineExists
<1>3. PICK e \in Entries : e = Entry(a) /\ e.pkt = a /\ e.content = content[e.pkt]
  BY EntryIn
<1>4. /\ refCount' = [refCount EXCEPT ![a] = @ + 1] /\ contentQ' = Append(contentQ, e)
      /\ UNCHANGED <<pool, created, content, writes, owed, sessVars, cur, mine, msg, todo>>
  BY <1>2, <1>3 DEF OnRecv, AddRef
<1>5. DataInv'
  <2>1. refCount' \in [Packets -> Nat]
    BY <1>2, <1>4 DEF DataInv
  <2>2. contentQ' \in Queue
    BY <1>4, PushCount DEF DataInv
  <2> QED
    BY <1>4, <2>1, <2>2 DEF DataInv
<1>6. SessionInv'
  BY <1>4 DEF SessionInv, sessVars
<1>7. RoleInv'
  BY <1>1, PacketAssumption
  DEF OnRecv, Goto, RoleInv, Optional, Threads, WorkerLabels, UpdaterLabels, SessionLabels
<1>8. PoolInv'
  BY <1>2, <1>4, PoolAddRef
<1>9. CountInv'
  BY <1>3, <1>4, ReceivedCount DEF sessVars
<1>10. IntactInv'
  <2>1. Intact(contentQ', content)
    BY <1>3, <1>4, IntactPush DEF IntactInv, DataInv
  <2> QED
    BY <1>4, <2>1 DEF IntactInv, sessVars
<1> QED
  BY <1>5, <1>6, <1>7, <1>8, <1>9, <1>10

(* UpdateLoop takes the next message. *)
LEMMA PopMessageStep ==
  ASSUME IInv, PopMessage
  PROVE  IInv'
<1> USE DEF IInv
<1>1. Updater \in Threads /\ Updater \notin Workers /\ msg = NoPacket
  BY PacketAssumption DEF PopMessage, At, RoleInv, Threads
<1>2. /\ contentQ \in Queue /\ contentQ # <<>> /\ Tail(contentQ) \in Queue
      /\ Head(contentQ) \in Entries
  BY PopCount DEF PopMessage, DataInv
<1>3. PICK a \in Packets : a = Head(contentQ).pkt
  BY <1>2 DEF Entries
<1>4. /\ msg' = a /\ contentQ' = Tail(contentQ) /\ pc' = [pc EXCEPT ![Updater] = "handle"]
      /\ UNCHANGED <<poolVars, sessVars, cur, mine, todo>>
  BY <1>3 DEF PopMessage, Goto
<1>5. DataInv'
  BY <1>2, <1>4 DEF DataInv, poolVars
<1>6. SessionInv'
  BY <1>4 DEF SessionInv, sessVars
<1>7. RoleInv'
  BY <1>1, <1>4, PacketAssumption
  DEF PopMessage, At, RoleInv, Optional, Threads, WorkerLabels, UpdaterLabels, SessionLabels
<1>8. PoolInv'
  BY <1>4, PoolKept DEF poolVars
<1>9. CountInv'
  BY <1>1, <1>2, <1>3, <1>4, PoppedCount DEF poolVars, sessVars
<1>10. IntactInv'
  <2>1. Intact(contentQ', content)
    BY <1>2, <1>4, IntactPop DEF IntactInv
  <2> QED
    BY <1>4, <2>1 DEF IntactInv, sessVars, poolVars
<1> QED
  BY <1>5, <1>6, <1>7, <1>8, <1>9, <1>10

(* SendPacket puts the packet in the session's queue, unless it is full. *)
LEMMA SendPacketEnqueueStep ==
  ASSUME IInv, SendPacketEnqueue
  PROVE  IInv'
<1> USE DEF IInv
<1>1. Updater \in Threads /\ Updater \notin Workers /\ mine[Updater] # NoPacket
  BY PacketAssumption DEF SendPacketEnqueue, At, RoleInv, Threads
<1>2. PICK s \in Sessions : s = cur[Updater]
  BY <1>1 DEF RoleInv
<1>3. PICK l \in {"close", "flush"} : pc' = [pc EXCEPT ![Updater] = l]
  BY DEF SendPacketEnqueue, Goto
<1>4. RoleInv'
  <2>1. pc[Updater] \in SendLabels(Updater) /\ l \in SendLabels(Updater)
    BY <1>3 DEF SendPacketEnqueue, At, SendLabels, UpdaterLabels, SessionLabels
  <2>2. cur' \in [Threads -> Sessions] /\ todo' \in SUBSET Sessions /\ UNCHANGED <<mine, msg>>
    BY DEF SendPacketEnqueue, RoleInv
  <2> QED
    BY <1>1, <1>3, <2>1, <2>2, RoleMove
<1>5. CASE Len(sendQ[s]) >= Qsize
  <2>1. Still /\ UNCHANGED <<sendPending, closeFlag, posted>>
    BY <1>2, <1>5 DEF SendPacketEnqueue, Still, poolVars
  <2>2. DataInv' /\ PoolInv' /\ CountInv' /\ IntactInv'
    BY <2>1, StillStep
  <2>3. SessionInv'
    BY <2>1 DEF SessionInv, Still
  <2> QED
    BY <1>4, <2>2, <2>3
<1>6. CASE ~(Len(sendQ[s]) >= Qsize)
  <2>1. PICK a \in created : a = mine[Updater] /\ a \in Packets /\ refCount[a] >= 1
    BY <1>1, MineExists
  <2>2. PICK e \in Entries : e = Entry(a) /\ e.pkt = a /\ e.content = content[e.pkt]
    BY EntryIn
  <2>3. /\ refCount' = [refCount EXCEPT ![a] = @ + 1]
        /\ sendQ' = [sendQ EXCEPT ![s] = Append(@, e)]
        /\ UNCHANGED <<pool, created, content, writes, owed, contentQ, sendPkts,
                       sendPending, closeFlag, posted, mine, msg>>
    BY <1>2, <1>6, <2>1, <2>2 DEF SendPacketEnqueue, AddRef
  <2>4. DataInv'
    BY <2>1, <2>3 DEF DataInv
  <2>5. /\ sendQ' \in [Sessions -> Queue] /\ sendQ'[s] = Append(sendQ[s], e)
        /\ \A r \in Sessions : r # s => sendQ'[r] = sendQ[r]
    <3>1. Append(sendQ[s], e) \in Queue
      BY PushCount DEF SessionInv
    <3> QED
      BY <2>3, <3>1 DEF SessionInv
  <2>6. SessionInv'
    <3>1. Len(Append(sendQ[s], e)) = Len(sendQ[s]) + 1 /\ Len(sendQ[s]) \in Nat
      BY AppendProperties DEF SessionInv, Queue
    <3>2. \A r \in Sessions : Len(sendQ'[r]) <= Qsize
      BY <1>6, <2>5, <3>1, PacketAssumption DEF SessionInv
    <3> QED
      BY <2>3, <2>5, <3>2 DEF SessionInv
  <2>7. PoolInv'
    BY <2>1, <2>3, PoolAddRef
  <2>8. CountInv'
    BY <2>2, <2>3, EnqueuedCount
  <2>9. IntactInv'
    <3>1. Intact(Append(sendQ[s], e), content)
      BY <2>2, IntactPush DEF IntactInv, SessionInv
    <3>2. \A r \in Sessions : Intact(sendQ'[r], content)
      BY <2>5, <3>1 DEF IntactInv
    <3> QED
      BY <2>3, <3>2 DEF IntactInv
  <2> QED
    BY <1>4, <2>4, <2>6, <2>7, <2>8, <2>9
<1> QED
  BY <1>5, <1>6

(* FlushSend returns, or hands the queue to WSASend. *)
LEMMA FlushSendStep ==
  ASSUME IInv, NEW t \in Threads, FlushSend(t)
  PROVE  IInv'
<1> USE DEF IInv
<1>1. PICK s \in Sessions : s = cur[t]
  BY DEF RoleInv
<1>2. PICK l \in {Home(t), "undo"} : pc' = [pc EXCEPT ![t] = l]
  BY DEF FlushSend, Goto
<1>3. RoleInv'
  <2>1. pc[t] \in SendLabels(t) /\ l \in SendLabels(t)
    BY <1>2 DEF FlushSend, At, Home, SendLabels, UpdaterLabels, WorkerLabels, SessionLabels
  <2>2. cur' \in [Threads -> Sessions] /\ todo' \in SUBSET Sessions /\ UNCHANGED <<mine, msg>>
    BY DEF FlushSend, RoleInv
  <2> QED
    BY <1>2, <2>1, <2>2, RoleMove
<1>4. CASE sendPending[s]
  <2>1. Still /\ UNCHANGED <<sendPending, closeFlag, posted>>
    BY <1>1, <1>4 DEF FlushSend, Still
  <2>2. DataInv' /\ PoolInv' /\ CountInv' /\ IntactInv'
    BY <2>1, StillStep
  <2>3. SessionInv'
    BY <2>1 DEF SessionInv, Still
  <2> QED
    BY <1>3, <2>2, <2>3
<1>5. CASE ~sendPending[s]
  <2>1. /\ sendPending' = [sendPending EXCEPT ![s] = TRUE]
        /\ sendPkts' = [sendPkts EXCEPT ![s] = sendQ[s]]
        /\ sendQ' = [sendQ EXCEPT ![s] = <<>>]
        /\ posted' \in {posted, [posted EXCEPT ![s] = TRUE]}
        /\ UNCHANGED <<poolVars, contentQ, closeFlag, mine, msg>>
    BY <1>1, <1>5 DEF FlushSend
  <2>2. sendPkts[s] = <<>>
    BY <1>5 DEF SessionInv
  <2>3. DataInv'
    BY <2>1 DEF DataInv, poolVars
  <2>4. /\ sendQ' \in [Sessions -> Queue] /\ sendQ'[s] = <<>>
        /\ \A r \in Sessions : r # s => sendQ'[r] = sendQ[r]
    BY <2>1, EmptyCount DEF SessionInv
  <2>5. /\ sendPkts' \in [Sessions -> Queue] /\ sendPkts'[s] = sendQ[s]
        /\ \A r \in Sessions : r # s => sendPkts'[r] = sendPkts[r]
    BY <2>1 DEF SessionInv
  <2>6. SessionInv'
    <3>1. /\ sendPending' \in [Sessions -> BOOLEAN] /\ posted' \in [Sessions -> BOOLEAN]
          /\ closeFlag' \in [Sessions -> BOOLEAN]
      BY <2>1 DEF SessionInv
    <3>0. Len(<<>>) <= Qsize
      BY PacketAssumption
    <3>2. \A r \in Sessions : Len(sendQ'[r]) <= Qsize /\ Len(sendPkts'[r]) <= Qsize
      BY <2>4, <2>5, <3>0 DEF SessionInv
    <3>3. \A r \in Sessions : ~sendPending'[r] => sendPkts'[r] = <<>>
      BY <2>1, <2>5 DEF SessionInv
    <3> QED
      BY <2>4, <2>5, <3>1, <3>2, <3>3 DEF SessionInv
  <2>7. PoolInv'
    BY <2>1, PoolKept DEF poolVars
  <2>8. CountInv'
    BY <2>1, <2>2, FlushedCount DEF poolVars
  <2>9. IntactInv'
    <3>1. Intact(<<>>, content)
      BY DEF Intact
    <3> QED
      BY <2>1, <2>4, <2>5, <3>1 DEF IntactInv, poolVars
  <2> QED
    BY <1>3, <2>3, <2>6, <2>7, <2>8, <2>9
<1> QED
  BY <1>4, <1>5

(* A packet that was sent, or could not be, is released. *)
LEMMA ReleaseSentStep ==
  ASSUME IInv, NEW t \in Threads, ReleaseSent(t)
  PROVE  IInv'
<1> USE DEF IInv
<1>1. PICK s \in Sessions : s = cur[t]
  BY DEF RoleInv
<1>2. PICK l \in {pc[t], IF pc[t] = "undo" THEN "close" ELSE "recheck"} :
        pc' = [pc EXCEPT ![t] = l]
  <2>1. pc = [pc EXCEPT ![t] = pc[t]]
    BY DEF RoleInv
  <2> QED
    BY <2>1 DEF ReleaseSent, Goto
<1>3. RoleInv'
  <2>1. pc[t] \in {"undo", "sent"} /\ (pc[t] = "sent" => t # Updater)
    BY DEF ReleaseSent, At, RoleInv, UpdaterLabels, SessionLabels
  <2>2. pc[t] \in SendLabels(t) /\ l \in SendLabels(t)
    BY <1>2, <2>1 DEF SendLabels, UpdaterLabels, WorkerLabels, SessionLabels
  <2>3. cur' \in [Threads -> Sessions] /\ todo' \in SUBSET Sessions /\ UNCHANGED <<mine, msg>>
    BY DEF ReleaseSent, RoleInv
  <2> QED
    BY <1>2, <2>2, <2>3, RoleMove
<1>4. CASE sendPkts[s] = <<>>
  <2>1. /\ Still /\ UNCHANGED <<closeFlag, posted>>
        /\ sendPending' = [sendPending EXCEPT ![s] = FALSE]
    BY <1>1, <1>4 DEF ReleaseSent, Still, poolVars
  <2>2. DataInv' /\ PoolInv' /\ CountInv' /\ IntactInv'
    BY <2>1, StillStep
  <2>3. SessionInv'
    BY <1>4, <2>1 DEF SessionInv, Still
  <2> QED
    BY <1>3, <2>2, <2>3
<1>5. CASE sendPkts[s] # <<>>
  <2>1. /\ Release(t, Head(sendPkts[s]).pkt)
        /\ sendPkts' = [sendPkts EXCEPT ![s] = Tail(@)]
        /\ owed[t] = NoPacket
        /\ UNCHANGED <<sendPending, pool, created, content, writes, contentQ, sendQ, closeFlag,
                       posted, mine, msg>>
    BY <1>1, <1>5 DEF ReleaseSent, At
  <2>2. /\ CountInv' /\ Head(sendPkts[s]).pkt \in Packets
        /\ refCount[Head(sendPkts[s]).pkt] >= 1
    BY <1>5, <2>1, SentCount DEF Release
  <2>3. PICK a \in Packets : a = Head(sendPkts[s]).pkt
    BY <2>2
  <2>4. DataInv' /\ PoolInv'
    BY <2>1, <2>2, <2>3, ReleaseStep
  <2>5. Tail(sendPkts[s]) \in Queue /\ Len(Tail(sendPkts[s])) <= Qsize
    <3>1. sendPkts[s] \in Queue /\ Len(sendPkts[s]) <= Qsize
      BY DEF SessionInv
    <3>2. Len(Tail(sendPkts[s])) = Len(sendPkts[s]) - 1 /\ Len(sendPkts[s]) \in Nat
      BY <1>5, <3>1, HeadTailProperties DEF Queue
    <3>3. Tail(sendPkts[s]) \in Queue
      BY <1>5, <3>1, PopCount
    <3> QED
      BY <3>1, <3>2, <3>3, PacketAssumption
  <2>6. /\ sendPkts' \in [Sessions -> Queue] /\ sendPkts'[s] = Tail(sendPkts[s])
        /\ \A r \in Sessions : r # s => sendPkts'[r] = sendPkts[r]
    BY <2>1, <2>5 DEF SessionInv
  <2>7. SessionInv'
    <3>1. \A r \in Sessions : Len(sendPkts'[r]) <= Qsize
      BY <2>5, <2>6 DEF SessionInv
    <3>2. \A r \in Sessions : ~sendPending'[r] => sendPkts'[r] = <<>>
      BY <1>5, <2>1, <2>6 DEF SessionInv
    <3> QED
      BY <2>1, <2>6, <3>1, <3>2 DEF SessionInv
  <2>8. IntactInv'
    <3>1. Intact(Tail(sendPkts[s]), content)
      BY <1>5, IntactPop DEF IntactInv, SessionInv
    <3>2. \A r \in Sessions : Intact(sendPkts'[r], content)
      BY <2>6, <3>1 DEF IntactInv
    <3> QED
      BY <2>1, <3>2 DEF IntactInv
  <2> QED
    BY <1>3, <2>2, <2>4, <2>7, <2>8
<1> QED
  BY <1>4, <1>5

(* CloseSession releases what waits in the queue. *)
LEMMA CloseSessionDrainStep ==
  ASSUME IInv, NEW t \in Threads, CloseSessionDrain(t)
  PROVE  IInv'
<1> USE DEF IInv
<1>1. PICK s \in Sessions : s = cur[t]
  BY DEF RoleInv
<1>2. PICK l \in {pc[t], Home(t)} : pc' = [pc EXCEPT ![t] = l]
  <2>1. pc = [pc EXCEPT ![t] = pc[t]]
    BY DEF RoleInv
  <2> QED
    BY <2>1 DEF CloseSessionDrain, Goto
<1>3. RoleInv'
  <2>2. pc[t] \in SendLabels(t) /\ l \in SendLabels(t)
    BY <1>2 DEF CloseSessionDrain, At, Home, SendLabels, UpdaterLabels, WorkerLabels, SessionLabels
  <2>3. cur' \in [Threads -> Sessions] /\ todo' \in SUBSET Sessions /\ UNCHANGED <<mine, msg>>
    BY DEF CloseSessionDrain, RoleInv
  <2> QED
    BY <1>2, <2>2, <2>3, RoleMove
<1>4. CASE sendQ[s] = <<>>
  <2>1. Still /\ UNCHANGED <<sendPending, closeFlag, posted>>
    BY <1>1, <1>4 DEF CloseSessionDrain, Still, poolVars
  <2>2. DataInv' /\ PoolInv' /\ CountInv' /\ IntactInv'
    BY <2>1, StillStep
  <2>3. SessionInv'
    BY <2>1 DEF SessionInv, Still
  <2> QED
    BY <1>3, <2>2, <2>3
<1>5. CASE sendQ[s] # <<>>
  <2>1. /\ Release(t, Head(sendQ[s]).pkt)
        /\ sendQ' = [sendQ EXCEPT ![s] = Tail(@)]
        /\ owed[t] = NoPacket
        /\ UNCHANGED <<sendPending, pool, created, content, writes, contentQ, sendPkts, closeFlag,
                       posted, mine, msg>>
    BY <1>1, <1>5 DEF CloseSessionDrain, At
  <2>2. CountInv' /\ Head(sendQ[s]).pkt \in Packets /\ refCount[Head(sendQ[s]).pkt] >= 1
    BY <1>5, <2>1, DrainedCount DEF Release
  <2>3. PICK a \in Packets : a = Head(sendQ[s]).pkt
    BY <2>2
  <2>4. DataInv' /\ PoolInv'
    BY <2>1, <2>2, <2>3, ReleaseStep
  <2>5. Tail(sendQ[s]) \in Queue /\ Len(Tail(sendQ[s])) <= Qsize
    <3>1. sendQ[s] \in Queue /\ Len(sendQ[s]) <= Qsize
      BY DEF SessionInv
    <3>2. Len(Tail(sendQ[s])) = Len(sendQ[s]) - 1 /\ Len(sendQ[s]) \in Nat
      BY <1>5, <3>1, HeadTailProperties DEF Queue
    <3>3. Tail(sendQ[s]) \in Queue
      BY <1>5, <3>1, PopCount
    <3> QED
      BY <3>1, <3>2, <3>3, PacketAssumption
  <2>6. /\ sendQ' \in [Sessions -> Queue] /\ sendQ'[s] = Tail(sendQ[s])
        /\ \A r \in Sessions : r # s => sendQ'[r] = sendQ[r]
    BY <2>1, <2>5 DEF SessionInv
  <2>7. SessionInv'
    <3>1. \A r \in Sessions : Len(sendQ'[r]) <= Qsize
      BY <2>5, <2>6 DEF SessionInv
    <3> QED
      BY <2>1, <2>6, <3>1 DEF SessionInv
  <2>8. IntactInv'
    <3>1. Intact(Tail(sendQ[s]), content)
      BY <1>5, IntactPop DEF IntactInv, SessionInv
    <3>2. \A r \in Sessions : Intact(sendQ'[r], content)
      BY <2>6, <3>1 DEF IntactInv
    <3> QED
      BY <2>1, <3>2 DEF IntactInv
  <2> QED
    BY <1>3, <2>2, <2>4, <2>7, <2>8
<1> QED
  BY <1>4, <1>5
-----------------------------------------------------------------------------
(* The theorems *)

(* At the start nothing exists. *)
LEMMA InitInv == Init => IInv
<1> SUFFICES ASSUME Init PROVE IInv
  OBVIOUS
<1> USE PacketAssumption DEF Init
<1>1. DataInv
  BY DEF DataInv, Optional, Queue
<1>2. SessionInv
  <2>1. <<>> \in Queue /\ Len(<<>>) = 0
    BY EmptyCount
  <2> QED
    BY <2>1 DEF SessionInv
<1>3. RoleInv
  BY DEF RoleInv, Optional, Threads, WorkerLabels, UpdaterLabels, SessionLabels
<1>4. PoolInv
  <2>1. \A p \in Packets : ~InPool(p) /\ ~Owed(p)
    BY DEF InPool, Owed
  <2> QED
    BY <2>1 DEF PoolInv
<1>5. CountInv
  <2> SUFFICES ASSUME NEW p \in Packets
               PROVE  IsFiniteSet(Holders(p)) /\ refCount[p] = Cardinality(Holders(p))
    BY DEF CountInv
  <2>1. InQueue(contentQ, p) = {}
    BY DEF InQueue
  <2>2. \A s \in Sessions : InQueue(sendQ[s], p) = {} /\ InQueue(sendPkts[s], p) = {}
    BY DEF InQueue
  <2>3. {t \in Threads : mine[t] = p} = {} /\ {p} \cap {msg} = {}
    OBVIOUS
  <2>4. Holders(p) = {}
    BY <2>1, <2>2, <2>3 DEF Holders
  <2> QED
    BY <2>4, FS_EmptySet
<1>6. IntactInv
  BY DEF IntactInv, Intact
<1> QED
  BY <1>1, <1>2, <1>3, <1>4, <1>5, <1>6 DEF IInv

(* Every step keeps the invariant. *)
LEMMA NextInv == IInv /\ [Next]_vars => IInv'
<1> SUFFICES ASSUME IInv, [Next]_vars PROVE IInv'
  OBVIOUS
<1>0. Updater \in Threads /\ Workers \subseteq Threads
  BY DEF Threads
<1>1. ASSUME NEW t \in Threads, SessionStep(t) PROVE IInv'
  BY <1>1, FlushSendStep, ReleaseSentStep, CloseSessionStep, CloseSessionLockStep,
     CloseSessionDrainStep DEF SessionStep
<1>2. ASSUME NEW w \in Workers, RecvAlloc(w) \/ WorkerStep(w) \/ Completion(w)
                                \/ \E s \in Sessions : PeerGone(w, s)
      PROVE  IInv'
  <2>1. w \in Threads
    BY <1>0
  <2>2. CASE RecvAlloc(w)
    BY <2>2, RecvAllocStep
  <2>3. CASE WorkerStep(w)
    BY <1>1, <2>1, <2>3, ReleasePushStep, RecvRejectStep, OnRecvStep, RecvReleaseStep,
       RecheckStep DEF WorkerStep
  <2>4. CASE Completion(w)
    BY <2>4, SendCompletesStep DEF Completion
  <2>5. CASE \E s \in Sessions : PeerGone(w, s)
    BY <2>5, PeerGoneStep
  <2> QED
    BY <1>2, <2>2, <2>3, <2>4, <2>5
<1>3. ASSUME UpdateStep PROVE IInv'
  BY <1>0, <1>1, <1>3, ReleasePushStep, PopMessageStep, HandlerReleaseStep, MessageReleaseStep,
     SendPacketStep, SendPacketEnqueueStep DEF UpdateStep
<1>4. CASE UNCHANGED vars
  <2>1. Still /\ UNCHANGED <<sessVars, threadVars>>
    BY <1>4 DEF vars, Still, sessVars, threadVars
  <2>2. DataInv' /\ PoolInv' /\ CountInv' /\ IntactInv'
    BY <2>1, StillStep
  <2>3. SessionInv'
    BY <2>1 DEF IInv, SessionInv, sessVars
  <2>4. RoleInv'
    BY <2>1 DEF IInv, RoleInv, threadVars
  <2> QED
    BY <2>2, <2>3, <2>4 DEF IInv
<1> QED
  BY <1>2, <1>3, <1>4, HandlerAllocStep DEF Next

(* So it holds in every state. *)
LEMMA Invariance == Spec => []IInv
BY InitInv, NextInv, PTL DEF Spec

(* refCount is the number of references (AddRef and Release, over every    *)
(* order of receives, broadcasts, completions, failures and closes).       *)
THEOREM RefCount == Spec => []RefCountExact
<1>1. IInv => RefCountExact
  BY DEF IInv, CountInv, RefCountExact
<1> QED
  BY <1>1, Invariance, PTL

(* CPacket::pool: the packets nobody refers to, each once; one thread      *)
(* alone sees a count reach 0 and returns the packet.                      *)
THEOREM Pool == Spec => []PoolExact
<1>1. ASSUME IInv PROVE PoolExact
  <2>1. DOMAIN pool = 1 .. Len(pool)
    BY <1>1 DEF IInv, DataInv
  <2>2. \A i, j \in DOMAIN pool : pool[i] = pool[j] => i = j
    BY <1>1, <2>1 DEF IInv, PoolInv
  <2>3. \A t, u \in Threads : owed[t] = owed[u] /\ owed[t] # NoPacket => t = u
    BY <1>1 DEF IInv, PoolInv
  <2>4. ASSUME NEW p \in created
        PROVE  refCount[p] = 0 <=>
                 ((\E i \in DOMAIN pool : pool[i] = p) # (\E t \in Threads : owed[t] = p))
    <3>1. p \in Packets
      BY <1>1 DEF IInv, DataInv
    <3>2. /\ InPool(p) => refCount[p] = 0 /\ ~Owed(p)
          /\ Owed(p) => refCount[p] = 0
          /\ refCount[p] = 0 => InPool(p) \/ Owed(p)
      BY <1>1, <3>1 DEF IInv, PoolInv
    <3>3. InPool(p) <=> \E i \in DOMAIN pool : pool[i] = p
      BY <2>1 DEF InPool
    <3>4. Owed(p) <=> \E t \in Threads : owed[t] = p
      BY DEF Owed
    <3> QED
      BY <3>2, <3>3, <3>4, Zenon
  <2> QED
    BY <2>2, <2>3, <2>4 DEF PoolExact
<1> QED
  BY <1>1, Invariance, PTL

(* A packet is not written again while a queue, or a send in flight, still *)
(* needs it: Alloc takes only packets nobody refers to.                    *)
THEOREM NotRewritten == Spec => []QueuedIntact
<1>1. ASSUME IInv PROVE QueuedIntact
  <2>1. DOMAIN contentQ = 1 .. Len(contentQ)
    BY <1>1 DEF IInv, DataInv, Queue
  <2>2. ASSUME NEW s \in Sessions
        PROVE  DOMAIN sendQ[s] = 1 .. Len(sendQ[s]) /\ DOMAIN sendPkts[s] = 1 .. Len(sendPkts[s])
    BY <1>1 DEF IInv, SessionInv, Queue
  <2> QED
    BY <1>1, <2>1, <2>2 DEF IInv, IntactInv, Intact, QueuedIntact
<1> QED
  BY <1>1, Invariance, PTL

(* The types, and that neither the queue of a session nor the packets in   *)
(* flight outgrow Qsize.                                                   *)
THEOREM TypeCorrect == Spec => []TypeOK
<1>1. ASSUME IInv PROVE TypeOK
  <2>1. /\ pool \in Seq(Packets) /\ created \subseteq Packets /\ refCount \in [Packets -> Nat]
        /\ content \in [Packets -> 0 .. MaxWrites] /\ writes \in 0 .. MaxWrites
        /\ contentQ \in Seq(Entries) /\ owed \in [Threads -> Packets \cup {NoPacket}]
    BY <1>1 DEF IInv, DataInv, Queue, Optional
  <2>2. /\ \A s \in Sessions : sendQ[s] \in Seq(Entries) /\ Len(sendQ[s]) <= Qsize
        /\ \A s \in Sessions : sendPkts[s] \in Seq(Entries) /\ Len(sendPkts[s]) <= Qsize
        /\ sendPending \in [Sessions -> BOOLEAN] /\ closeFlag \in [Sessions -> BOOLEAN]
        /\ posted \in [Sessions -> BOOLEAN]
    BY <1>1 DEF IInv, SessionInv, Queue
  <2>3. /\ cur \in [Threads -> Sessions] /\ mine \in [Threads -> Packets \cup {NoPacket}]
        /\ msg \in Packets \cup {NoPacket} /\ todo \subseteq Sessions
    BY <1>1 DEF IInv, RoleInv, Optional
  <2> QED
    BY <2>1, <2>2, <2>3 DEF TypeOK
<1> QED
  BY <1>1, Invariance, PTL
=============================================================================
