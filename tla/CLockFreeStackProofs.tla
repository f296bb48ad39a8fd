------------------------ MODULE CLockFreeStackProofs ------------------------
(***************************************************************************)
(* Proofs about CLockFreeStack under TimelySpec, for any threads, values,  *)
(* addresses and stamps: every address is in one place, the stamp tells a  *)
(* word from a later one with the same pointer, and Push and Pop take      *)
(* effect in one step (StackSpec).                                         *)
(*                                                                         *)
(* The nodes of the stack are a sequence c that leads from m_pTop to       *)
(* nullptr.  There is one such sequence at most, so Linked is c; a push    *)
(* puts a node before it and a pop takes its first node off.               *)
(***************************************************************************)
EXTENDS CLockFreeStack, FiniteSetTheorems, FunctionTheorems, SequenceTheorems,
        WellFoundedInduction, TLAPS

Pushing == {"pushRead", "pushCAS"}
Popping == {"popRead", "popNext", "popCAS", "popDelete"}

(* While a thread is between its read of m_pTop and its compare-exchange,  *)
(* the stamp is ahead of the one it read by the words installed since.     *)
StampInv ==
  \A t \in Threads :
    /\ ~InWindow(t) => overtaken[t] = 0
    /\ InWindow(t) =>
         /\ overtaken[t] < StampMod
         /\ \/ m_pTop.stamp = old[t].stamp + overtaken[t]
            \/ m_pTop.stamp = old[t].stamp + overtaken[t] - StampMod
         /\ overtaken[t] = 0 => old[t] = m_pTop

(* What the local variables hold where. *)
LocalInv ==
  \A t \in Threads :
    /\ newNode[t] # nullptr <=> pc[t] \in Pushing
    /\ pc[t] \in Pushing => value[t] # NoValue /\ node[newNode[t]].data = value[t]
    /\ pc[t] = "pushCAS" => node[newNode[t]].next = old[t].ptr
    /\ pc[t] \in Popping => value[t] = NoValue
    /\ pc[t] \in Popping \ {"popRead"} => old[t].ptr # nullptr

(* The node a thread alone knows: the one it pushes, or took off. *)
Hand(t) == IF pc[t] \in Pushing THEN newNode[t]
           ELSE IF pc[t] = "popDelete" THEN old[t].ptr ELSE nullptr

(* The nodes from p on, in a given memory. *)
ChainFrom(c, p, nd) ==
  /\ p = IF c = <<>> THEN nullptr ELSE c[1]
  /\ \A i \in 1 .. Len(c) : nd[c[i]].next = IF i = Len(c) THEN nullptr ELSE c[i + 1]

Distinct(c) == \A i, j \in 1 .. Len(c) : c[i] = c[j] => i = j

Member(a, c) == \E i \in 1 .. Len(c) : c[i] = a

(* Every address is in one place: along the chain c from p, in the hands   *)
(* hd of one thread, or in fr.                                             *)
Place(c, p, nd, fr, hd) ==
  /\ ChainFrom(c, p, nd)
  /\ Distinct(c)
  /\ \A a \in Nodes : Member(a, c) => a \notin fr /\ \A t \in Threads : hd[t] # a
  /\ \A t \in Threads : hd[t] \notin fr
  /\ \A t, u \in Threads : hd[t] = hd[u] /\ hd[t] # nullptr => t = u
  /\ \A a \in Nodes : a \in fr \/ (\E t \in Threads : hd[t] = a) \/ Member(a, c)

PlaceInv(c) == Place(c, m_pTop.ptr, node, free, [t \in Threads |-> Hand(t)])

(* The inductive invariant, with the nodes of the stack. *)
IInvWith(c) == TypeOK /\ StampInv /\ LocalInv /\ StampTellsReuse /\ PlaceInv(c)

IInv == \E c \in Seq(Nodes) : IInvWith(c)
-----------------------------------------------------------------------------
(* Sequences of nodes *)

(* Every set of numbers that is not empty has a least one. *)
LEMMA LeastNumber ==
  ASSUME NEW T \in SUBSET Nat, T # {}
  PROVE  \E n \in T : \A m \in T : n <= m
<1> DEFINE R == OpToRel(<, Nat)
<1>1. IsWellFoundedOn(R, Nat)
  BY NatLessThanWellFounded
<1>2. \A x, y \in Nat : x < y => <<x, y>> \in R
  BY DEF OpToRel
<1> HIDE DEF R
<1>3. PICK n \in T : \A m \in T : ~(<<m, n>> \in R)
  BY <1>1, WFMin
<1>4. \A m \in T : ~(m < n)
  BY <1>2, <1>3
<1> QED
  BY <1>4

(* Along the pointers there is one way only. *)
LEMMA ChainPrefix ==
  ASSUME NEW p, NEW nd, NEW c \in Seq(Nodes), NEW d \in Seq(Nodes),
         ChainFrom(c, p, nd), ChainFrom(d, p, nd)
  PROVE  \A i \in 1 .. Len(c) : i <= Len(d) /\ c[i] = d[i]
<1> DEFINE T == {i \in 1 .. Len(c) : ~(i <= Len(d) /\ c[i] = d[i])}
<1> SUFFICES T = {}
  OBVIOUS
<1> SUFFICES ASSUME T # {} PROVE FALSE
  OBVIOUS
<1>0. Len(c) \in Nat /\ Len(d) \in Nat /\ nullptr \notin Nodes
  BY NodesAssumption
<1>1. T \in SUBSET Nat
  BY <1>0
<1>2. PICK n \in T : \A m \in T : n <= m
  <2> HIDE DEF T
  <2> QED
    BY <1>1, LeastNumber
<1>3. n \in 1 .. Len(c) /\ ~(n <= Len(d) /\ c[n] = d[n]) /\ c[n] \in Nodes
  OBVIOUS
<1>4. CASE n = 1
  <2>1. c # <<>> /\ p = c[1] /\ p # nullptr
    BY <1>0, <1>3, <1>4 DEF ChainFrom
  <2>2. d # <<>> /\ p = d[1]
    BY <2>1 DEF ChainFrom
  <2>3. 1 <= Len(d)
    BY <1>0, <2>2, EmptySeq
  <2> QED
    BY <1>3, <1>4, <2>1, <2>2, <2>3
<1>5. CASE n # 1
  <2>1. n - 1 \in 1 .. Len(c) /\ n - 1 \notin T
    BY <1>0, <1>1, <1>2, <1>3, <1>5
  <2>2. n - 1 <= Len(d) /\ c[n - 1] = d[n - 1]
    BY <2>1
  <2>3. nd[c[n - 1]].next = c[n]
    BY <1>0, <1>3, <2>1 DEF ChainFrom
  <2>4. n - 1 \in 1 .. Len(d) /\ nd[d[n - 1]].next = IF n - 1 = Len(d) THEN nullptr ELSE d[n]
    <3>1. n - 1 \in 1 .. Len(d) /\ (n - 1) + 1 = n
      BY <1>0, <1>3, <2>1, <2>2
    <3> QED
      BY <3>1 DEF ChainFrom
  <2> QED
    BY <1>0, <1>3, <2>2, <2>3, <2>4
<1> QED
  BY <1>4, <1>5

(* So the chain is determined. *)
LEMMA ChainUnique ==
  ASSUME NEW p, NEW nd, NEW c \in Seq(Nodes), NEW d \in Seq(Nodes),
         ChainFrom(c, p, nd), ChainFrom(d, p, nd)
  PROVE  c = d
<1>1. \A i \in 1 .. Len(c) : i <= Len(d) /\ c[i] = d[i]
  BY ChainPrefix
<1>2. \A i \in 1 .. Len(d) : i <= Len(c) /\ d[i] = c[i]
  BY ChainPrefix
<1>3. Len(c) = Len(d)
  <2>1. Len(c) \in Nat /\ Len(d) \in Nat
    OBVIOUS
  <2>2. Len(c) = 0 \/ Len(c) \in 1 .. Len(c)
    BY <2>1
  <2>3. Len(d) = 0 \/ Len(d) \in 1 .. Len(d)
    BY <2>1
  <2> QED
    BY <1>1, <1>2, <2>1, <2>2, <2>3
<1> QED
  BY <1>1, <1>3, SeqEqual

(* A sequence without repetition is not longer than its set. *)
LEMMA DistinctLength ==
  ASSUME NEW c \in Seq(Nodes), Distinct(c)
  PROVE  c \in [1 .. Len(c) -> Nodes] /\ Len(c) \in 0 .. Cardinality(Nodes)
<1>1. c \in [1 .. Len(c) -> Nodes] /\ Len(c) \in Nat
  OBVIOUS
<1>2. IsFiniteSet(Nodes) /\ Cardinality(Nodes) \in Nat
  BY NodesAssumption, FS_CardinalityType
<1>3. c \in Injection(1 .. Len(c), Nodes)
  BY <1>1, Fun_IsInj DEF Distinct
<1>4. Cardinality(1 .. Len(c)) <= Cardinality(Nodes)
  BY <1>2, <1>3, FS_Injection
<1>5. Cardinality(1 .. Len(c)) = Len(c)
  <2>1. PICK n \in Nat : n = Len(c)
    BY <1>1
  <2>2. Cardinality(1 .. n) = IF 1 > n THEN 0 ELSE n - 1 + 1
    BY FS_Interval
  <2> QED
    BY <2>1, <2>2
<1> QED
  BY <1>1, <1>2, <1>4, <1>5

(* Chains and Linked of a given memory. *)
ChainsFrom(p, nd) ==
  {c \in UNION {[1 .. n -> Nodes] : n \in 0 .. Cardinality(Nodes)} : ChainFrom(c, p, nd)}

LinkedFrom(p, nd) ==
  IF ChainsFrom(p, nd) = {} THEN <<>> ELSE CHOOSE c \in ChainsFrom(p, nd) : TRUE

(* Linked is the chain. *)
LEMMA LinkedIsChain ==
  ASSUME NEW p, NEW nd, NEW c \in Seq(Nodes), ChainFrom(c, p, nd), Distinct(c)
  PROVE  ChainsFrom(p, nd) # {} /\ LinkedFrom(p, nd) = c
<1>1. c \in ChainsFrom(p, nd)
  <2>1. c \in [1 .. Len(c) -> Nodes] /\ Len(c) \in 0 .. Cardinality(Nodes)
    BY DistinctLength
  <2> QED
    BY <2>1 DEF ChainsFrom
<1>2. ASSUME NEW d \in ChainsFrom(p, nd) PROVE d = c
  <2>1. PICK n \in 0 .. Cardinality(Nodes) : d \in [1 .. n -> Nodes]
    BY DEF ChainsFrom
  <2>2. n \in Nat
    BY <2>1, NodesAssumption, FS_CardinalityType
  <2>3. d \in Seq(Nodes)
    BY <2>1, <2>2, SeqDef
  <2>4. ChainFrom(d, p, nd)
    BY DEF ChainsFrom
  <2> QED
    BY <2>3, <2>4, ChainUnique
<1> QED
  BY <1>1, <1>2 DEF LinkedFrom
-----------------------------------------------------------------------------
(* Stamps *)

(* The stamp of the next word. *)
LEMMA NextStamp ==
  ASSUME NEW s \in 0 .. StampMod - 1
  PROVE  (s + 1) % StampMod = IF s + 1 = StampMod THEN 0 ELSE s + 1
<1> USE StampModAssumption
<1>1. CASE s + 1 = StampMod
  BY <1>1
<1>2. CASE s + 1 # StampMod
  BY <1>2
<1> QED
  BY <1>1, <1>2

(* The word that replaces m_pTop. *)
LEMMA NextWord ==
  ASSUME TypeOK, NEW ptr \in Pointers
  PROVE  /\ Combine(m_pTop.stamp + 1, ptr) \in [stamp : 0 .. StampMod - 1, ptr : Pointers]
         /\ Combine(m_pTop.stamp + 1, ptr).ptr = ptr
         /\ Combine(m_pTop.stamp + 1, ptr).stamp =
              IF m_pTop.stamp + 1 = StampMod THEN 0 ELSE m_pTop.stamp + 1
<1>1. m_pTop.stamp \in 0 .. StampMod - 1
  BY DEF TypeOK
<1>2. PICK n : n = (m_pTop.stamp + 1) % StampMod
  OBVIOUS
<1>3. n = IF m_pTop.stamp + 1 = StampMod THEN 0 ELSE m_pTop.stamp + 1
  BY <1>1, <1>2, NextStamp
<1>4. n \in 0 .. StampMod - 1
  BY <1>1, <1>3, StampModAssumption
<1>5. Combine(m_pTop.stamp + 1, ptr) = [stamp |-> n, ptr |-> ptr]
  BY <1>2 DEF Combine
<1> QED
  BY <1>3, <1>4, <1>5

(* A thread that finds the word it read was not overtaken. *)
LEMMA SameWord ==
  ASSUME TypeOK, StampInv, NEW t \in Threads, InWindow(t), m_pTop.stamp = old[t].stamp
  PROVE  overtaken[t] = 0
<1>1. /\ overtaken[t] \in 0 .. StampMod /\ overtaken[t] < StampMod
      /\ old[t].stamp \in 0 .. StampMod - 1
      /\ \/ m_pTop.stamp = old[t].stamp + overtaken[t]
         \/ m_pTop.stamp = old[t].stamp + overtaken[t] - StampMod
  BY DEF TypeOK, StampInv
<1>2. PICK x \in Int, k \in Int : x = old[t].stamp /\ k = overtaken[t]
  BY <1>1, StampModAssumption
<1>3. (x = x + k \/ x = x + k - StampMod) /\ k < StampMod
  BY <1>1, <1>2
<1>4. k = 0
  BY <1>3, StampModAssumption
<1> QED
  BY <1>2, <1>4

(* Installing a word: the stamps of the threads that wait, and that their  *)
(* compare-exchange is going to fail.                                      *)
LEMMA InstalledStamp ==
  ASSUME TypeOK, StampInv, NEW t \in Threads, NEW ptr \in Pointers, NEW l,
         InWindow(t), CAS(t, Combine(old[t].stamp + 1, ptr)), NoWrap,
         pc' = [pc EXCEPT ![t] = l], l \in {"idle", "popDelete"}, UNCHANGED old
  PROVE  /\ StampInv' /\ overtaken' \in [Threads -> 0 .. StampMod]
         /\ m_pTop' \in [stamp : 0 .. StampMod - 1, ptr : Pointers]
         /\ m_pTop'.ptr = ptr /\ m_pTop = old[t]
         /\ \A u \in Threads : u # t /\ InWindow(u) => m_pTop' # old[u]
<1>1. m_pTop = old[t] /\ m_pTop' = Combine(m_pTop.stamp + 1, ptr) /\ Installed(t)
  BY DEF CAS
<1>2. /\ m_pTop' \in [stamp : 0 .. StampMod - 1, ptr : Pointers] /\ m_pTop'.ptr = ptr
      /\ m_pTop'.stamp = IF m_pTop.stamp + 1 = StampMod THEN 0 ELSE m_pTop.stamp + 1
  BY <1>1, NextWord
<1>3. /\ overtaken' \in [Threads -> 0 .. StampMod] /\ overtaken'[t] = 0
      /\ \A u \in Threads : ~InWindow(u) => overtaken'[u] = 0
  BY <1>1, StampModAssumption DEF Installed, TypeOK
<1>4. ~InWindow(t)' /\ \A u \in Threads : u # t => (InWindow(u)' <=> InWindow(u))
  BY DEF InWindow, TypeOK
<1>5. ASSUME NEW u \in Threads, u # t, InWindow(u)
      PROVE  /\ overtaken'[u] < StampMod /\ overtaken'[u] # 0
             /\ \/ m_pTop'.stamp = old[u].stamp + overtaken'[u]
                \/ m_pTop'.stamp = old[u].stamp + overtaken'[u] - StampMod
             /\ m_pTop'.stamp # old[u].stamp
  <2>1. overtaken'[u] < StampMod
    BY DEF NoWrap
  <2>2. overtaken'[u] = IF overtaken[u] < StampMod THEN overtaken[u] + 1 ELSE StampMod
    BY <1>1, <1>5 DEF Installed
  <2>3. PICK k \in Int, x \in Int, y \in Int :
          /\ k = overtaken[u] /\ x = old[u].stamp /\ y = m_pTop.stamp
          /\ 0 <= k /\ k < StampMod
          /\ 0 <= x /\ x < StampMod /\ 0 <= y /\ y < StampMod
          /\ y = x + k \/ y = x + k - StampMod
    <3>1. overtaken[u] \in 0 .. StampMod /\ old[u].stamp \in 0 .. StampMod - 1
          /\ m_pTop.stamp \in 0 .. StampMod - 1
      BY DEF TypeOK
    <3>2. /\ overtaken[u] < StampMod
          /\ \/ m_pTop.stamp = old[u].stamp + overtaken[u]
             \/ m_pTop.stamp = old[u].stamp + overtaken[u] - StampMod
      BY <1>5 DEF StampInv
    <3> QED
      BY <3>1, <3>2, StampModAssumption
  <2>4. PICK z \in Int : z = m_pTop'.stamp /\ z = IF y + 1 = StampMod THEN 0 ELSE y + 1
    BY <1>2, <2>3, StampModAssumption
  <2>5. overtaken'[u] = k + 1 /\ k + 1 < StampMod
    BY <2>1, <2>2, <2>3, StampModAssumption
  <2>6. (z = x + (k + 1) \/ z = x + (k + 1) - StampMod) /\ z # x
    <3>1. PICK M \in Int : M = StampMod
      BY StampModAssumption
    <3>2. /\ 0 <= k /\ k + 1 < M /\ 0 <= x /\ x < M /\ 0 <= y /\ y < M
          /\ y = x + k \/ y = x + k - M
      BY <2>3, <2>5, <3>1
    <3>3. z = IF y + 1 = M THEN 0 ELSE y + 1
      BY <2>4, <3>1
    <3>4. (z = x + (k + 1) \/ z = x + (k + 1) - M) /\ z # x
      BY ONLY k \in Int, x \in Int, y \in Int, z \in Int, M \in Int, <3>2, <3>3
    <3> QED
      BY <3>1, <3>4
  <2> QED
    BY <2>1, <2>3, <2>4, <2>5, <2>6
<1>6. StampInv'
  <2> SUFFICES ASSUME NEW u \in Threads
               PROVE  /\ ~InWindow(u)' => overtaken'[u] = 0
                      /\ InWindow(u)' =>
                           /\ overtaken'[u] < StampMod
                           /\ \/ m_pTop'.stamp = old'[u].stamp + overtaken'[u]
                              \/ m_pTop'.stamp = old'[u].stamp + overtaken'[u] - StampMod
                           /\ overtaken'[u] = 0 => old'[u] = m_pTop'
    BY DEF StampInv
  <2>1. CASE u = t
    BY <1>3, <1>4, <2>1
  <2>2. CASE u # t
    BY <1>3, <1>4, <1>5, <2>2
  <2> QED
    BY <2>1, <2>2
<1> QED
  BY <1>1, <1>2, <1>3, <1>5, <1>6

(* A failed compare-exchange ends the window. *)
LEMMA FailedStamp ==
  ASSUME TypeOK, StampInv, NEW t \in Threads, CASFails(t), NEW l,
         pc' = [pc EXCEPT ![t] = l], l \in {"pushRead", "popRead"}, UNCHANGED old
  PROVE  StampInv' /\ overtaken' \in [Threads -> 0 .. StampMod] /\ m_pTop' = m_pTop
<1>1. ~InWindow(t)' /\ \A u \in Threads : u # t => (InWindow(u)' <=> InWindow(u))
  BY DEF InWindow, TypeOK
<1>2. /\ m_pTop' = m_pTop /\ overtaken'[t] = 0 /\ overtaken' \in [Threads -> 0 .. StampMod]
      /\ \A u \in Threads : u # t => overtaken'[u] = overtaken[u]
  BY StampModAssumption DEF CASFails, TypeOK
<1>3. \A u \in Threads : u # t =>
        /\ ~InWindow(u)' => overtaken'[u] = 0
        /\ InWindow(u)' =>
             /\ overtaken'[u] < StampMod
             /\ \/ m_pTop'.stamp = old'[u].stamp + overtaken'[u]
                \/ m_pTop'.stamp = old'[u].stamp + overtaken'[u] - StampMod
             /\ overtaken'[u] = 0 => old'[u] = m_pTop'
  BY <1>1, <1>2 DEF StampInv
<1> QED
  BY <1>1, <1>2, <1>3 DEF StampInv

(* A read of m_pTop opens one (or finds the stack empty). *)
LEMMA ReadStamp ==
  ASSUME TypeOK, StampInv, NEW t \in Threads, ~InWindow(t), ReadTop(t), NEW l,
         pc' = [pc EXCEPT ![t] = l], UNCHANGED <<m_pTop, overtaken>>
  PROVE  StampInv' /\ old' \in [Threads -> [stamp : 0 .. StampMod - 1, ptr : Pointers]]
<1>1. /\ old'[t] = m_pTop /\ \A u \in Threads : u # t => old'[u] = old[u]
      /\ old' \in [Threads -> [stamp : 0 .. StampMod - 1, ptr : Pointers]]
  BY DEF ReadTop, TypeOK
<1>2. \A u \in Threads : u # t => (InWindow(u)' <=> InWindow(u))
  BY DEF InWindow, TypeOK
<1>3. overtaken'[t] = 0 /\ m_pTop.stamp \in Int /\ 0 < StampMod
  BY StampModAssumption DEF StampInv, TypeOK
<1>4. \A u \in Threads : u # t =>
        /\ ~InWindow(u)' => overtaken'[u] = 0
        /\ InWindow(u)' =>
             /\ overtaken'[u] < StampMod
             /\ \/ m_pTop'.stamp = old'[u].stamp + overtaken'[u]
                \/ m_pTop'.stamp = old'[u].stamp + overtaken'[u] - StampMod
             /\ overtaken'[u] = 0 => old'[u] = m_pTop'
  BY <1>1, <1>2 DEF StampInv
<1>5. /\ overtaken'[t] < StampMod /\ m_pTop'.stamp = old'[t].stamp + overtaken'[t]
      /\ old'[t] = m_pTop'
  BY <1>1, <1>3
<1> QED
  BY <1>1, <1>3, <1>4, <1>5 DEF StampInv

(* The other steps leave the windows as they are. *)
LEMMA SameStamp ==
  ASSUME TypeOK, StampInv, NEW t \in Threads, NEW l, pc' = [pc EXCEPT ![t] = l],
         InWindow(t) <=> l \in {"pushCAS", "popNext", "popCAS"},
         UNCHANGED <<m_pTop, old, overtaken>>
  PROVE  StampInv'
<1>1. \A u \in Threads : InWindow(u)' <=> InWindow(u)
  BY DEF InWindow, TypeOK
<1> QED
  BY <1>1 DEF StampInv
-----------------------------------------------------------------------------
(* Addresses that change their place *)

(* Only the hands of t change. *)
OthersSame(hd, hd2, t) == \A u \in Threads : u # t => hd2[u] = hd[u]

(* A node before the others. *)
LEMMA ConsFacts ==
  ASSUME NEW c \in Seq(Nodes), NEW a \in Nodes
  PROVE  /\ <<a>> \o c \in Seq(Nodes) /\ Len(<<a>> \o c) = Len(c) + 1
         /\ (<<a>> \o c)[1] = a /\ <<a>> \o c # <<>> /\ Len(c) \in Nat
         /\ \A i \in 1 .. Len(c) : (<<a>> \o c)[i + 1] = c[i]
<1>1. <<a>> \in Seq(Nodes) /\ Len(<<a>>) = 1 /\ <<a>>[1] = a /\ Len(c) \in Nat
  OBVIOUS
<1>2. /\ <<a>> \o c \in Seq(Nodes) /\ Len(<<a>> \o c) = 1 + Len(c)
      /\ \A i \in 1 .. 1 + Len(c) : (<<a>> \o c)[i] = IF i <= 1 THEN <<a>>[i] ELSE c[i - 1]
  BY <1>1, ConcatProperties
<1>3. (<<a>> \o c)[1] = a
  BY <1>1, <1>2
<1>4. \A i \in 1 .. Len(c) : (<<a>> \o c)[i + 1] = c[i]
  BY <1>1, <1>2
<1> QED
  BY <1>1, <1>2, <1>3, <1>4, EmptySeq

(* The others without the first. *)
LEMMA TailFacts ==
  ASSUME NEW c \in Seq(Nodes), c # <<>>
  PROVE  /\ Tail(c) \in Seq(Nodes) /\ Len(Tail(c)) = Len(c) - 1 /\ Len(c) \in Nat \ {0}
         /\ \A i \in 1 .. Len(c) - 1 : Tail(c)[i] = c[i + 1]
<1>1. Len(c) \in Nat /\ Len(c) # 0
  BY EmptySeq
<1> QED
  BY <1>1, HeadTailProperties

(* Nothing moves, and the memory of the chain stays. *)
LEMMA PlaceSame ==
  ASSUME NEW c \in Seq(Nodes), NEW p, NEW nd, NEW nd2, NEW fr, NEW hd,
         Place(c, p, nd, fr, hd),
         \A i \in 1 .. Len(c) : nd2[c[i]].next = nd[c[i]].next
  PROVE  Place(c, p, nd2, fr, hd)
<1>1. ChainFrom(c, p, nd2)
  BY DEF Place, ChainFrom
<1> QED
  BY <1>1 DEF Place

(* A free address is taken by a thread that holds none. *)
LEMMA PlaceTake ==
  ASSUME NEW c \in Seq(Nodes), NEW p, NEW nd, NEW fr, NEW hd, NEW hd2,
         NEW t \in Threads, NEW a \in Nodes, a \in fr, nullptr \notin fr,
         Place(c, p, nd, fr, hd), hd[t] = nullptr, hd2[t] = a,
         \A u \in Threads : u # t => hd2[u] = hd[u]
  PROVE  Place(c, p, nd, fr \ {a}, hd2)
<1>1. ChainFrom(c, p, nd) /\ Distinct(c)
  BY DEF Place
<1>2. \A b \in Nodes : Member(b, c) => b \notin fr \ {a} /\ \A u \in Threads : hd2[u] # b
  BY DEF Place
<1>3. \A u \in Threads : hd2[u] \notin fr \ {a}
  BY DEF Place
<1>4. \A u, v \in Threads : hd2[u] = hd2[v] /\ hd2[u] # nullptr => u = v
  BY DEF Place
<1>5. \A b \in Nodes : b \in fr \ {a} \/ (\E u \in Threads : hd2[u] = b) \/ Member(b, c)
  <2> SUFFICES ASSUME NEW b \in Nodes, b # a, b \notin fr, ~Member(b, c)
               PROVE  \E u \in Threads : hd2[u] = b
    OBVIOUS
  <2>1. PICK u \in Threads : hd[u] = b
    BY DEF Place
  <2> QED
    BY <2>1, NodesAssumption
<1> QED
  BY <1>1, <1>2, <1>3, <1>4, <1>5 DEF Place

(* A thread gives its address back. *)
LEMMA PlaceGive ==
  ASSUME NEW c \in Seq(Nodes), NEW p, NEW nd, NEW fr, NEW hd, NEW hd2,
         NEW t \in Threads, NEW a \in Nodes, nullptr \notin fr,
         Place(c, p, nd, fr, hd), hd[t] = a, hd2[t] = nullptr,
         \A u \in Threads : u # t => hd2[u] = hd[u]
  PROVE  Place(c, p, nd, fr \cup {a}, hd2)
<1>1. ChainFrom(c, p, nd) /\ Distinct(c)
  BY DEF Place
<1>0. a # nullptr
  BY NodesAssumption
<1>2. \A b \in Nodes : Member(b, c) => b \notin fr \cup {a} /\ \A u \in Threads : hd2[u] # b
  <2> SUFFICES ASSUME NEW b \in Nodes, Member(b, c)
               PROVE  b \notin fr \cup {a} /\ \A u \in Threads : hd2[u] # b
    OBVIOUS
  <2>1. b \notin fr /\ b # nullptr /\ \A u \in Threads : hd[u] # b
    BY NodesAssumption DEF Place
  <2> QED
    BY <2>1
<1>3. \A u \in Threads : hd2[u] \notin fr \cup {a}
  BY <1>0 DEF Place
<1>4. \A u, v \in Threads : hd2[u] = hd2[v] /\ hd2[u] # nullptr => u = v
  BY DEF Place
<1>5. \A b \in Nodes : b \in fr \cup {a} \/ (\E u \in Threads : hd2[u] = b) \/ Member(b, c)
  <2> SUFFICES ASSUME NEW b \in Nodes, b # a, b \notin fr, ~Member(b, c)
               PROVE  \E u \in Threads : hd2[u] = b
    OBVIOUS
  <2>1. PICK u \in Threads : hd[u] = b
    BY DEF Place
  <2> QED
    BY <2>1
<1> QED
  BY <1>1, <1>2, <1>3, <1>4, <1>5 DEF Place

(* A thread links its node before the chain. *)
LEMMA PlacePush ==
  ASSUME NEW c \in Seq(Nodes), NEW p, NEW nd, NEW fr, NEW hd, NEW hd2,
         NEW t \in Threads, NEW a \in Nodes, nullptr \notin fr,
         Place(c, p, nd, fr, hd), hd[t] = a, hd2[t] = nullptr, nd[a].next = p,
         OthersSame(hd, hd2, t), NEW d, d = <<a>> \o c
  PROVE  Place(d, a, nd, fr, hd2)
<1>0. /\ d \in Seq(Nodes) /\ Len(d) = Len(c) + 1 /\ d[1] = a /\ d # <<>> /\ Len(c) \in Nat
      /\ \A i \in 1 .. Len(c) : d[i + 1] = c[i]
  BY ConsFacts
<1> USE DEF OthersSame
<1>i. \A i \in 1 .. Len(d) : i = 1 \/ (i - 1 \in 1 .. Len(c) /\ d[i] = c[i - 1])
  <2> SUFFICES ASSUME NEW i \in 1 .. Len(d), i # 1
               PROVE  i - 1 \in 1 .. Len(c) /\ d[i] = c[i - 1]
    OBVIOUS
  <2>1. i - 1 \in 1 .. Len(c) /\ (i - 1) + 1 = i
    BY <1>0
  <2> QED
    BY <1>0, <2>1
<1>a. ~Member(a, c) /\ a # nullptr
  BY NodesAssumption DEF Place
<1>m. \A b \in Nodes : Member(b, d) <=> b = a \/ Member(b, c)
  <2> SUFFICES ASSUME NEW b \in Nodes PROVE Member(b, d) <=> b = a \/ Member(b, c)
    OBVIOUS
  <2>1. ASSUME Member(b, d) PROVE b = a \/ Member(b, c)
    BY <1>0, <1>i, <2>1 DEF Member
  <2>2. ASSUME b = a PROVE Member(b, d)
    BY <1>0, <2>2 DEF Member
  <2>3. ASSUME Member(b, c) PROVE Member(b, d)
    <3>1. PICK i \in 1 .. Len(c) : c[i] = b
      BY <2>3 DEF Member
    <3>2. i + 1 \in 1 .. Len(d) /\ d[i + 1] = b
      BY <1>0, <3>1
    <3> QED
      BY <3>2 DEF Member
  <2> QED
    BY <2>1, <2>2, <2>3
<1>1. ChainFrom(d, a, nd)
  <2>1. a = IF d = <<>> THEN nullptr ELSE d[1]
    BY <1>0
  <2>2. ASSUME NEW i \in 1 .. Len(d)
        PROVE  nd[d[i]].next = IF i = Len(d) THEN nullptr ELSE d[i + 1]
    <3>1. CASE i = 1
      <4>1. p = IF c = <<>> THEN nullptr ELSE c[1]
        BY DEF Place, ChainFrom
      <4>2. CASE c = <<>>
        BY <1>0, <3>1, <4>1, <4>2
      <4>3. CASE c # <<>>
        <5>1. Len(c) # 0
          BY <4>3, EmptySeq
        <5>2. 1 \in 1 .. Len(c) /\ i # Len(d) /\ d[1 + 1] = c[1]
          BY <1>0, <3>1, <5>1
        <5> QED
          BY <1>0, <3>1, <4>1, <4>3, <5>2
      <4> QED
        BY <4>2, <4>3
    <3>2. CASE i # 1
      <4>1. i - 1 \in 1 .. Len(c) /\ d[i] = c[i - 1]
        BY <1>i, <3>2
      <4>2. nd[c[i - 1]].next = IF i - 1 = Len(c) THEN nullptr ELSE c[(i - 1) + 1]
        BY <4>1 DEF Place, ChainFrom
      <4>3. i - 1 = Len(c) <=> i = Len(d)
        BY <1>0
      <4>4. i # Len(d) => (i - 1) + 1 \in 1 .. Len(c) /\ (i - 1) + 1 = i
        BY <1>0, <4>1
      <4>5. i # Len(d) => d[i + 1] = c[i]
        BY <1>0, <4>4
      <4> QED
        BY <4>1, <4>2, <4>3, <4>4, <4>5
    <3> QED
      BY <3>1, <3>2
  <2> QED
    BY <2>1, <2>2 DEF ChainFrom
<1>2. Distinct(d)
  <2> SUFFICES ASSUME NEW i \in 1 .. Len(d), NEW j \in 1 .. Len(d), d[i] = d[j] PROVE i = j
    BY DEF Distinct
  <2>1. CASE i = 1 \/ j = 1
    BY <1>0, <1>a, <1>i, <2>1 DEF Member
  <2>2. CASE i # 1 /\ j # 1
    <3>1. /\ i - 1 \in 1 .. Len(c) /\ d[i] = c[i - 1]
          /\ j - 1 \in 1 .. Len(c) /\ d[j] = c[j - 1]
      BY <1>i, <2>2
    <3>2. i - 1 = j - 1
      BY <3>1 DEF Place, Distinct
    <3> QED
      BY <1>0, <3>2
  <2> QED
    BY <2>1, <2>2
<1>3. \A b \in Nodes : Member(b, d) => b \notin fr /\ \A u \in Threads : hd2[u] # b
  <2> SUFFICES ASSUME NEW b \in Nodes, Member(b, d)
               PROVE  b \notin fr /\ \A u \in Threads : hd2[u] # b
    OBVIOUS
  <2>0. b # nullptr
    BY NodesAssumption
  <2>1. CASE b = a
    BY <1>a, <2>1 DEF Place
  <2>2. CASE Member(b, c)
    BY <2>0, <2>2 DEF Place
  <2> QED
    BY <1>m, <2>1, <2>2
<1>4. \A u \in Threads : hd2[u] \notin fr
  BY DEF Place
<1>5. \A u, v \in Threads : hd2[u] = hd2[v] /\ hd2[u] # nullptr => u = v
  BY DEF Place
<1>6. \A b \in Nodes : b \in fr \/ (\E u \in Threads : hd2[u] = b) \/ Member(b, d)
  <2> SUFFICES ASSUME NEW b \in Nodes, b # a, b \notin fr, ~Member(b, c)
               PROVE  \E u \in Threads : hd2[u] = b
    BY <1>m
  <2>1. PICK u \in Threads : hd[u] = b
    BY DEF Place
  <2> QED
    BY <2>1
<1> QED
  BY <1>1, <1>2, <1>3, <1>4, <1>5, <1>6 DEF Place

(* A thread takes the first node of the chain off. *)
LEMMA PlacePop ==
  ASSUME NEW c \in Seq(Nodes), NEW p, NEW nd, NEW fr, NEW hd, NEW hd2,
         NEW t \in Threads, NEW a \in Nodes, nullptr \notin fr,
         Place(c, a, nd, fr, hd), hd[t] = nullptr, hd2[t] = a, nd[a].next = p,
         OthersSame(hd, hd2, t), NEW d, d = Tail(c)
  PROVE  Place(d, p, nd, fr, hd2)
<1> USE DEF OthersSame
<1>a. a # nullptr /\ c # <<>> /\ c[1] = a
  BY NodesAssumption DEF Place, ChainFrom
<1>0. /\ d \in Seq(Nodes) /\ Len(d) = Len(c) - 1 /\ Len(c) \in Nat \ {0}
      /\ \A i \in 1 .. Len(c) - 1 : d[i] = c[i + 1]
  BY <1>a, TailFacts
<1>i. \A i \in 1 .. Len(d) : i + 1 \in 1 .. Len(c) /\ d[i] = c[i + 1] /\ i + 1 # 1
  BY <1>0
<1>d. \A i, j \in 1 .. Len(c) : c[i] = c[j] => i = j
  BY DEF Place, Distinct
<1>1in. 1 \in 1 .. Len(c)
  BY <1>0
<1>m. \A b \in Nodes : Member(b, c) <=> b = a \/ Member(b, d)
  <2> SUFFICES ASSUME NEW b \in Nodes PROVE Member(b, c) <=> b = a \/ Member(b, d)
    OBVIOUS
  <2>1. ASSUME Member(b, d) PROVE Member(b, c)
    BY <1>i, <2>1 DEF Member
  <2>2. ASSUME b = a PROVE Member(b, c)
    BY <1>a, <1>1in, <2>2 DEF Member
  <2>3. ASSUME Member(b, c), b # a PROVE Member(b, d)
    <3>1. PICK i \in 1 .. Len(c) : c[i] = b
      BY <2>3 DEF Member
    <3>2. i # 1
      BY <1>a, <2>3, <3>1
    <3>3. i - 1 \in 1 .. Len(d) /\ (i - 1) + 1 = i
      BY <1>0, <3>1, <3>2
    <3>4. d[i - 1] = b
      BY <1>i, <3>1, <3>3
    <3> QED
      BY <3>3, <3>4 DEF Member
  <2> QED
    BY <2>1, <2>2, <2>3
<1>n. ~Member(a, d)
  BY <1>a, <1>i, <1>d, <1>1in DEF Member
<1>1. ChainFrom(d, p, nd)
  <2>1. p = IF d = <<>> THEN nullptr ELSE d[1]
    <3>1. p = IF 1 = Len(c) THEN nullptr ELSE c[1 + 1]
      BY <1>a, <1>1in DEF Place, ChainFrom
    <3>2. d = <<>> <=> 1 = Len(c)
      BY ONLY <1>0, EmptySeq
    <3>3. 1 # Len(c) => d[1] = c[1 + 1]
      BY <1>0
    <3> QED
      BY <3>1, <3>2, <3>3
  <2>2. ASSUME NEW i \in 1 .. Len(d)
        PROVE  nd[d[i]].next = IF i = Len(d) THEN nullptr ELSE d[i + 1]
    <3>1. i + 1 \in 1 .. Len(c) /\ d[i] = c[i + 1]
      BY <1>i
    <3>2. nd[c[i + 1]].next = IF i + 1 = Len(c) THEN nullptr ELSE c[(i + 1) + 1]
      BY <3>1 DEF Place, ChainFrom
    <3>3. i + 1 = Len(c) <=> i = Len(d)
      BY <1>0
    <3>4. i # Len(d) => i + 1 \in 1 .. Len(d)
      BY <1>0
    <3>5. i # Len(d) => d[i + 1] = c[(i + 1) + 1]
      BY <1>i, <3>4
    <3> QED
      BY <3>1, <3>2, <3>3, <3>5
  <2> QED
    BY <2>1, <2>2 DEF ChainFrom
<1>2. Distinct(d)
  <2> SUFFICES ASSUME NEW i \in 1 .. Len(d), NEW j \in 1 .. Len(d), d[i] = d[j] PROVE i = j
    BY DEF Distinct
  <2>1. i + 1 = j + 1
    BY <1>i, <1>d
  <2> QED
    BY <1>0, <2>1
<1>3. \A b \in Nodes : Member(b, d) => b \notin fr /\ \A u \in Threads : hd2[u] # b
  <2> SUFFICES ASSUME NEW b \in Nodes, Member(b, d)
               PROVE  b \notin fr /\ \A u \in Threads : hd2[u] # b
    OBVIOUS
  <2>1. b # a /\ Member(b, c)
    BY <1>m, <1>n
  <2> QED
    BY <2>1 DEF Place
<1>4. \A u \in Threads : hd2[u] \notin fr
  <2>1. a \notin fr
    BY <1>m DEF Place
  <2> QED
    BY <2>1 DEF Place
<1>5. \A u, v \in Threads : hd2[u] = hd2[v] /\ hd2[u] # nullptr => u = v
  <2>1. \A u \in Threads : hd[u] # a
    BY <1>m DEF Place
  <2> QED
    BY <2>1 DEF Place
<1>6. \A b \in Nodes : b \in fr \/ (\E u \in Threads : hd2[u] = b) \/ Member(b, d)
  <2> SUFFICES ASSUME NEW b \in Nodes, b # a, b \notin fr, ~Member(b, c)
               PROVE  \E u \in Threads : hd2[u] = b
    BY <1>m
  <2>1. PICK u \in Threads : hd[u] = b
    BY DEF Place
  <2> QED
    BY <2>1, NodesAssumption
<1> QED
  BY <1>1, <1>2, <1>3, <1>4, <1>5, <1>6 DEF Place
-----------------------------------------------------------------------------
(* The steps *)

(* The hands of all threads, as a constant to reason about. *)
Hands == [t \in Threads |-> Hand(t)]

(* What the top is. *)
LEMMA TopPlace ==
  ASSUME NEW c \in Seq(Nodes), TypeOK, PlaceInv(c), m_pTop.ptr # nullptr
  PROVE  /\ m_pTop.ptr \in Nodes /\ Member(m_pTop.ptr, c) /\ m_pTop.ptr \notin free
         /\ \A t \in Threads : Hand(t) # m_pTop.ptr
<1>1. m_pTop.ptr \in Nodes
  BY DEF TypeOK, Pointers
<1>2. c # <<>> /\ m_pTop.ptr = c[1]
  BY DEF PlaceInv, Place, ChainFrom
<1>3. Len(c) \in Nat /\ Len(c) # 0
  BY <1>2, EmptySeq
<1>4. Member(m_pTop.ptr, c)
  BY <1>2, <1>3 DEF Member
<1> QED
  BY <1>1, <1>4 DEF PlaceInv, Place

(* Which threads hold a node. *)
LEMMA HandFacts ==
  ASSUME TypeOK, LocalInv
  PROVE  /\ nullptr \notin free
         /\ \A t \in Threads : pc[t] \in Pushing => Hand(t) = newNode[t] /\ newNode[t] \in Nodes
         /\ \A t \in Threads : pc[t] = "popDelete" => Hand(t) = old[t].ptr /\ old[t].ptr \in Nodes
         /\ \A t \in Threads : pc[t] \notin Pushing \cup {"popDelete"} => Hand(t) = nullptr
<1>1. nullptr \notin free
  BY NodesAssumption DEF TypeOK
<1>2. \A t \in Threads : newNode[t] \in Pointers /\ old[t].ptr \in Pointers
  BY DEF TypeOK
<1>3. \A t \in Threads : pc[t] \in Pushing => newNode[t] # nullptr
  BY DEF LocalInv
<1>4. \A t \in Threads : pc[t] = "popDelete" => old[t].ptr # nullptr
  BY DEF LocalInv, Popping
<1> QED
  BY <1>1, <1>2, <1>3, <1>4 DEF Hand, Pushing, Pointers

(* A step that does not install a word and keeps the top's next. *)
LEMMA ReuseSame ==
  ASSUME TypeOK, StampTellsReuse, NEW t \in Threads, NEW l,
         pc' = [pc EXCEPT ![t] = l], l # "popCAS", m_pTop' = m_pTop,
         \A u \in Threads : u # t => next'[u] = next[u] /\ old'[u] = old[u],
         m_pTop.ptr # nullptr => node'[m_pTop.ptr].next = node[m_pTop.ptr].next,
         LocalInv
  PROVE  StampTellsReuse'
<1> SUFFICES ASSUME NEW u \in Threads, pc'[u] = "popCAS", m_pTop' = old'[u]
             PROVE  next'[u] = node'[old'[u].ptr].next
  BY DEF StampTellsReuse
<1>1. u # t /\ pc[u] = "popCAS"
  BY DEF TypeOK
<1>2. old'[u] = old[u] /\ next'[u] = next[u] /\ m_pTop = old[u] /\ old[u].ptr # nullptr
  BY <1>1 DEF LocalInv, Popping
<1>3. next[u] = node[m_pTop.ptr].next
  BY <1>1, <1>2 DEF StampTellsReuse
<1> QED
  BY <1>2, <1>3

(* The address was free. *)
LEMMA PushAllocInv ==
  ASSUME NEW c \in Seq(Nodes), IInvWith(c), NEW t \in Threads, PushAlloc(t)
  PROVE  IInvWith(c)'
<1> USE DEF IInvWith
<1>0. PICK a \in free :
        /\ free' = free \ {a}
        /\ newNode' = [newNode EXCEPT ![t] = a]
        /\ node' = [node EXCEPT ![a].data = value[t]]
  BY DEF PushAlloc
<1>1. /\ a \in Nodes /\ a # nullptr /\ pc[t] = "idle" /\ value[t] # NoValue
      /\ pc' = [pc EXCEPT ![t] = "pushRead"] /\ UNCHANGED <<m_pTop, value, old, next, overtaken>>
  BY NodesAssumption DEF PushAlloc, Goto, TypeOK
<1>2. /\ \A b \in Nodes : node'[b].next = node[b].next
      /\ \A b \in Nodes : b # a => node'[b] = node[b]
      /\ node'[a].data = value[t]
      /\ node' \in [Nodes -> [data : Values \cup {NoValue}, next : Pointers]]
  BY <1>0, <1>1 DEF TypeOK
<1>3. TypeOK'
  <2>1. newNode' \in [Threads -> Pointers]
    BY <1>0, <1>1 DEF TypeOK, Pointers
  <2>2. free' \in SUBSET Nodes
    BY <1>0 DEF TypeOK
  <2> QED
    BY <1>1, <1>2, <2>1, <2>2 DEF TypeOK
<1>4. StampInv'
  BY <1>1, SameStamp DEF InWindow
<1>5. \A u \in Threads : Hand(u) # a
  BY DEF PlaceInv, Place
<1>6. \A u \in Threads : u # t => pc'[u] = pc[u] /\ newNode'[u] = newNode[u] /\ Hand(u)' = Hand(u)
  BY <1>0, <1>1 DEF TypeOK, Hand
<1>7. pc'[t] = "pushRead" /\ newNode'[t] = a /\ Hand(t)' = a /\ Hand(t) = nullptr
  BY <1>0, <1>1 DEF TypeOK, Hand, Pushing
<1>8. LocalInv'
  <2> SUFFICES ASSUME NEW u \in Threads
               PROVE  /\ newNode'[u] # nullptr <=> pc'[u] \in Pushing
                      /\ pc'[u] \in Pushing => value'[u] # NoValue /\ node'[newNode'[u]].data = value'[u]
                      /\ pc'[u] = "pushCAS" => node'[newNode'[u]].next = old'[u].ptr
                      /\ pc'[u] \in Popping => value'[u] = NoValue
                      /\ pc'[u] \in Popping \ {"popRead"} => old'[u].ptr # nullptr
    BY DEF LocalInv
  <2>1. CASE u = t
    BY <1>1, <1>2, <1>7, <2>1 DEF Pushing, Popping
  <2>2. CASE u # t
    <3>1. pc[u] \in Pushing => newNode[u] \in Nodes /\ newNode[u] # a
      BY <1>5, HandFacts
    <3>2. pc[u] = "pushCAS" => pc[u] \in Pushing
      BY DEF Pushing
    <3> QED
      BY <1>1, <1>2, <1>6, <2>2, <3>1, <3>2 DEF LocalInv
  <2> QED
    BY <2>1, <2>2
<1>9. StampTellsReuse'
  <2>1. m_pTop.ptr # nullptr => node'[m_pTop.ptr].next = node[m_pTop.ptr].next
    BY <1>2 DEF TypeOK, Pointers
  <2> QED
    BY <1>1, <2>1, ReuseSame
<1>10. PlaceInv(c)'
  <2>1. PICK p, nd, nd2, fr, hd, hd2 :
          /\ p = m_pTop.ptr /\ nd = node /\ nd2 = node' /\ fr = free
          /\ hd = Hands /\ hd2 = Hands'
    OBVIOUS
  <2>2. Place(c, p, nd, fr, hd) /\ nullptr \notin fr /\ a \in fr
    BY <2>1, HandFacts DEF PlaceInv, Hands
  <2>3. hd[t] = nullptr /\ hd2[t] = a /\ \A u \in Threads : u # t => hd2[u] = hd[u]
    BY <1>6, <1>7, <2>1 DEF Hands
  <2>4. Place(c, p, nd, fr \ {a}, hd2)
    BY <1>1, <2>2, <2>3, PlaceTake
  <2>5. \A i \in 1 .. Len(c) : nd2[c[i]].next = nd[c[i]].next
    BY <1>2, <2>1
  <2>6. Place(c, p, nd2, fr \ {a}, hd2)
    BY <2>4, <2>5, PlaceSame
  <2> QED
    BY <1>0, <1>1, <2>1, <2>6 DEF PlaceInv, Hands
<1> QED
  BY <1>3, <1>4, <1>8, <1>9, <1>10

(* A step that moves no address. *)
LEMMA PlaceKeep ==
  ASSUME NEW c \in Seq(Nodes), PlaceInv(c), m_pTop' = m_pTop, free' = free,
         \A u \in Threads : Hand(u)' = Hand(u),
         \A i \in 1 .. Len(c) : node'[c[i]].next = node[c[i]].next
  PROVE  PlaceInv(c)'
<1>1. PICK p, nd, nd2, fr, hd, hd2 :
        /\ p = m_pTop.ptr /\ nd = node /\ nd2 = node' /\ fr = free
        /\ hd = Hands /\ hd2 = Hands'
  OBVIOUS
<1>2. hd2 = hd
  BY <1>1 DEF Hands
<1>3. Place(c, p, nd, fr, hd)
  BY <1>1 DEF PlaceInv, Hands
<1>4. Place(c, p, nd2, fr, hd2)
  BY <1>1, <1>2, <1>3, PlaceSame
<1> QED
  BY <1>1, <1>4 DEF PlaceInv, Hands

(* Only the thread's own node is written. *)
LEMMA PushReadInv ==
  ASSUME NEW c \in Seq(Nodes), IInvWith(c), NEW t \in Threads, PushRead(t)
  PROVE  IInvWith(c)'
<1> USE DEF IInvWith
<1> DEFINE a == newNode[t]
<1>1. /\ pc[t] = "pushRead" /\ pc' = [pc EXCEPT ![t] = "pushCAS"]
      /\ node' = [node EXCEPT ![a].next = m_pTop.ptr]
      /\ ReadTop(t) /\ UNCHANGED <<m_pTop, free, value, newNode, next, overtaken>>
  BY DEF PushRead, Goto
<1>2. a \in Nodes /\ Hand(t) = a /\ a # nullptr
  BY <1>1, HandFacts, NodesAssumption DEF Pushing
<1> HIDE DEF a
<1>3. /\ \A b \in Nodes : node'[b].data = node[b].data
      /\ \A b \in Nodes : b # a => node'[b] = node[b]
      /\ node'[a].next = m_pTop.ptr
      /\ node' \in [Nodes -> [data : Values \cup {NoValue}, next : Pointers]]
  BY <1>1, <1>2, ZenonT(30) DEF TypeOK
<1>4. StampInv' /\ old' \in [Threads -> [stamp : 0 .. StampMod - 1, ptr : Pointers]]
  BY <1>1, ReadStamp DEF InWindow
<1>5. TypeOK'
  BY <1>1, <1>3, <1>4 DEF TypeOK
<1>6. /\ old'[t] = m_pTop /\ \A u \in Threads : u # t => old'[u] = old[u]
  BY <1>1 DEF ReadTop, TypeOK
<1>7. pc'[t] = "pushCAS" /\ \A u \in Threads : u # t => pc'[u] = pc[u]
  BY <1>1 DEF TypeOK
<1>8. \A u \in Threads : Hand(u)' = Hand(u)
  BY <1>1, <1>6, <1>7 DEF Hand, Pushing
<1>9. LocalInv'
  <2> SUFFICES ASSUME NEW u \in Threads
               PROVE  /\ newNode'[u] # nullptr <=> pc'[u] \in Pushing
                      /\ pc'[u] \in Pushing => value'[u] # NoValue /\ node'[newNode'[u]].data = value'[u]
                      /\ pc'[u] = "pushCAS" => node'[newNode'[u]].next = old'[u].ptr
                      /\ pc'[u] \in Popping => value'[u] = NoValue
                      /\ pc'[u] \in Popping \ {"popRead"} => old'[u].ptr # nullptr
    BY DEF LocalInv
  <2>1. CASE u = t
    <3>1. value[t] # NoValue /\ node[a].data = value[t]
      BY <1>1 DEF LocalInv, Pushing, a
    <3>2. newNode'[u] = a
      BY <1>1, <2>1 DEF a
    <3> QED
      BY <1>1, <1>2, <1>3, <1>6, <1>7, <2>1, <3>1, <3>2 DEF Pushing, Popping
  <2>2. CASE u # t
    <3>1. pc[u] \in Pushing => newNode[u] \in Nodes /\ newNode[u] # a
      <4> SUFFICES ASSUME pc[u] \in Pushing PROVE newNode[u] \in Nodes /\ newNode[u] # a
        OBVIOUS
      <4>1. newNode[u] \in Nodes /\ Hand(u) = newNode[u]
        BY HandFacts
      <4>2. Hand(u) # Hand(t)
        BY <1>2, <2>2 DEF PlaceInv, Place
      <4> QED
        BY <1>2, <4>1, <4>2
    <3>2. pc[u] = "pushCAS" => pc[u] \in Pushing
      BY DEF Pushing
    <3> QED
      BY <1>1, <1>3, <1>6, <1>7, <2>2, <3>1, <3>2 DEF LocalInv
  <2> QED
    BY <2>1, <2>2
<1>10. StampTellsReuse'
  <2>1. m_pTop.ptr # nullptr => node'[m_pTop.ptr].next = node[m_pTop.ptr].next
    BY <1>2, <1>3, TopPlace
  <2> QED
    BY <1>1, <1>6, <2>1, ReuseSame
<1>11. PlaceInv(c)'
  <2>1. \A i \in 1 .. Len(c) : node'[c[i]].next = node[c[i]].next
    <3> SUFFICES ASSUME NEW i \in 1 .. Len(c) PROVE c[i] # a
      BY <1>3
    <3>1. c[i] \in Nodes /\ Member(c[i], c)
      BY DEF Member
    <3> QED
      BY <1>2, <3>1 DEF PlaceInv, Place
  <2> QED
    BY <1>1, <1>8, <2>1, PlaceKeep
<1> QED
  BY <1>4, <1>5, <1>9, <1>10, <1>11

(* A compare-exchange that fails, in Push or in Pop. *)
LEMMA FailInv ==
  ASSUME NEW c \in Seq(Nodes), IInvWith(c), NEW t \in Threads, CASFails(t), NEW l,
         \/ pc[t] = "pushCAS" /\ l = "pushRead"
         \/ pc[t] = "popCAS" /\ l = "popRead",
         Goto(t, l), UNCHANGED <<node, free, value, newNode, old, next>>
  PROVE  IInvWith(c)'
<1> USE DEF IInvWith
<1>1. pc' = [pc EXCEPT ![t] = l] /\ pc'[t] = l /\ \A u \in Threads : u # t => pc'[u] = pc[u]
  BY DEF Goto, TypeOK
<1>2. StampInv' /\ overtaken' \in [Threads -> 0 .. StampMod] /\ m_pTop' = m_pTop
  BY <1>1, FailedStamp
<1>3. TypeOK'
  <2>1. pc' \in [Threads -> {"idle", "pushRead", "pushCAS", "popRead", "popNext",
                             "popCAS", "popDelete"}]
    BY <1>1 DEF TypeOK
  <2> QED
    BY <1>2, <2>1 DEF TypeOK
<1>4. LocalInv'
  <2> SUFFICES ASSUME NEW u \in Threads
               PROVE  /\ newNode'[u] # nullptr <=> pc'[u] \in Pushing
                      /\ pc'[u] \in Pushing => value'[u] # NoValue /\ node'[newNode'[u]].data = value'[u]
                      /\ pc'[u] = "pushCAS" => node'[newNode'[u]].next = old'[u].ptr
                      /\ pc'[u] \in Popping => value'[u] = NoValue
                      /\ pc'[u] \in Popping \ {"popRead"} => old'[u].ptr # nullptr
    BY DEF LocalInv
  <2> QED
    BY <1>1 DEF LocalInv, Pushing, Popping
<1>5. StampTellsReuse'
  BY <1>1, <1>2, ReuseSame
<1>6. \A u \in Threads : Hand(u)' = Hand(u)
  BY <1>1 DEF Hand, Pushing
<1>7. PlaceInv(c)'
  BY <1>2, <1>6, PlaceKeep
<1> QED
  BY <1>2, <1>3, <1>4, <1>5, <1>7

(* A read of m_pTop moves nothing. *)
LEMMA PopReadInv ==
  ASSUME NEW c \in Seq(Nodes), IInvWith(c), NEW t \in Threads, PopRead(t)
  PROVE  IInvWith(c)'
<1> USE DEF IInvWith
<1>1. PICK l : l = IF m_pTop.ptr = nullptr THEN "idle" ELSE "popNext"
  OBVIOUS
<1>2. /\ pc' = [pc EXCEPT ![t] = l] /\ pc'[t] = l
      /\ pc[t] \in {"idle", "popRead"}
      /\ pc[t] = "idle" => value[t] = NoValue
      /\ ReadTop(t) /\ UNCHANGED <<m_pTop, node, free, value, newNode, next, overtaken>>
      /\ \A u \in Threads : u # t => pc'[u] = pc[u]
  BY <1>1 DEF PopRead, Goto, TypeOK
<1>3. StampInv' /\ old' \in [Threads -> [stamp : 0 .. StampMod - 1, ptr : Pointers]]
  BY <1>2, ReadStamp DEF InWindow
<1>4. TypeOK'
  <2>1. pc' \in [Threads -> {"idle", "pushRead", "pushCAS", "popRead", "popNext",
                             "popCAS", "popDelete"}]
    BY <1>1, <1>2 DEF TypeOK
  <2> QED
    BY <1>2, <1>3, <2>1 DEF TypeOK
<1>5. old'[t] = m_pTop /\ \A u \in Threads : u # t => old'[u] = old[u]
  BY <1>2 DEF ReadTop, TypeOK
<1>6. \A u \in Threads : Hand(u)' = Hand(u)
  BY <1>1, <1>2, <1>5 DEF Hand, Pushing
<1>7. LocalInv'
  <2> SUFFICES ASSUME NEW u \in Threads
               PROVE  /\ newNode'[u] # nullptr <=> pc'[u] \in Pushing
                      /\ pc'[u] \in Pushing => value'[u] # NoValue /\ node'[newNode'[u]].data = value'[u]
                      /\ pc'[u] = "pushCAS" => node'[newNode'[u]].next = old'[u].ptr
                      /\ pc'[u] \in Popping => value'[u] = NoValue
                      /\ pc'[u] \in Popping \ {"popRead"} => old'[u].ptr # nullptr
    BY DEF LocalInv
  <2>1. CASE u = t
    BY <1>1, <1>2, <1>5, <2>1 DEF LocalInv, Pushing, Popping
  <2>2. CASE u # t
    BY <1>2, <1>5, <2>2 DEF LocalInv
  <2> QED
    BY <2>1, <2>2
<1>8. StampTellsReuse'
  BY <1>1, <1>2, <1>5, ReuseSame
<1>9. PlaceInv(c)'
  BY <1>2, <1>6, PlaceKeep
<1> QED
  BY <1>3, <1>4, <1>7, <1>8, <1>9

(* Whatever was read from a node that is not the top any more, the        *)
(* compare-exchange is going to fail.                                      *)
LEMMA PopNextInv ==
  ASSUME NEW c \in Seq(Nodes), IInvWith(c), NEW t \in Threads, PopNext(t)
  PROVE  IInvWith(c)'
<1> USE DEF IInvWith
<1>1. PICK p \in IF Undefined(old[t].ptr) THEN Pointers ELSE {node[old[t].ptr].next} :
        next' = [next EXCEPT ![t] = p]
  BY DEF PopNext
<1>2. /\ pc[t] = "popNext" /\ pc' = [pc EXCEPT ![t] = "popCAS"] /\ pc'[t] = "popCAS"
      /\ UNCHANGED <<m_pTop, node, free, value, newNode, old, overtaken>>
      /\ \A u \in Threads : u # t => pc'[u] = pc[u]
  BY DEF PopNext, Goto, TypeOK
<1>3. old[t].ptr \in Nodes
  BY <1>2 DEF TypeOK, Pointers, LocalInv, Popping
<1>4. p \in Pointers
  BY <1>1, <1>3 DEF TypeOK
<1>5. next'[t] = p /\ next' \in [Threads -> Pointers] /\ \A u \in Threads : u # t => next'[u] = next[u]
  BY <1>1, <1>4 DEF TypeOK
<1>6. StampInv'
  BY <1>2, SameStamp DEF InWindow
<1>7. TypeOK'
  <2>1. pc' \in [Threads -> {"idle", "pushRead", "pushCAS", "popRead", "popNext",
                             "popCAS", "popDelete"}]
    BY <1>2 DEF TypeOK
  <2> QED
    BY <1>2, <1>5, <2>1 DEF TypeOK
<1>8. LocalInv'
  <2> SUFFICES ASSUME NEW u \in Threads
               PROVE  /\ newNode'[u] # nullptr <=> pc'[u] \in Pushing
                      /\ pc'[u] \in Pushing => value'[u] # NoValue /\ node'[newNode'[u]].data = value'[u]
                      /\ pc'[u] = "pushCAS" => node'[newNode'[u]].next = old'[u].ptr
                      /\ pc'[u] \in Popping => value'[u] = NoValue
                      /\ pc'[u] \in Popping \ {"popRead"} => old'[u].ptr # nullptr
    BY DEF LocalInv
  <2> QED
    BY <1>2 DEF LocalInv, Pushing, Popping
<1>9. StampTellsReuse'
  <2> SUFFICES ASSUME NEW u \in Threads, pc'[u] = "popCAS", m_pTop' = old'[u]
               PROVE  next'[u] = node'[old'[u].ptr].next
    BY DEF StampTellsReuse
  <2>1. CASE u = t
    <3>1. old[t] = m_pTop /\ m_pTop.ptr # nullptr
      BY <1>2, <1>3, <2>1, NodesAssumption
    <3>2. m_pTop.ptr \notin free /\ \A v \in Threads : Hand(v) # m_pTop.ptr
      BY <3>1, TopPlace
    <3>3. ~Undefined(m_pTop.ptr)
      BY <3>2 DEF Undefined, Hand, Pushing
    <3> QED
      BY <1>1, <1>2, <1>5, <2>1, <3>1, <3>3
  <2>2. CASE u # t
    BY <1>2, <1>5, <2>2 DEF StampTellsReuse
  <2> QED
    BY <2>1, <2>2
<1>10. \A u \in Threads : Hand(u)' = Hand(u)
  BY <1>2 DEF Hand, Pushing
<1>11. PlaceInv(c)'
  BY <1>2, <1>10, PlaceKeep
<1> QED
  BY <1>6, <1>7, <1>8, <1>9, <1>11

(* The node was in the hands of the thread alone. *)
LEMMA PopDeleteInv ==
  ASSUME NEW c \in Seq(Nodes), IInvWith(c), NEW t \in Threads, PopDelete(t)
  PROVE  IInvWith(c)'
<1> USE DEF IInvWith
<1>1. /\ pc[t] = "popDelete" /\ pc' = [pc EXCEPT ![t] = "idle"] /\ pc'[t] = "idle"
      /\ value' = [value EXCEPT ![t] = node[old[t].ptr].data]
      /\ free' = free \cup {old[t].ptr}
      /\ UNCHANGED <<m_pTop, node, newNode, old, next, overtaken>>
      /\ \A u \in Threads : u # t => pc'[u] = pc[u]
  BY DEF PopDelete, Goto, TypeOK
<1>2. PICK a \in Nodes : a = old[t].ptr /\ Hand(t) = a
  BY <1>1, HandFacts
<1>3. /\ value' \in [Threads -> Values \cup {NoValue}]
      /\ \A u \in Threads : u # t => value'[u] = value[u]
  BY <1>1, <1>2 DEF TypeOK
<1>4. TypeOK'
  <2>1. pc' \in [Threads -> {"idle", "pushRead", "pushCAS", "popRead", "popNext",
                             "popCAS", "popDelete"}]
    BY <1>1 DEF TypeOK
  <2>2. free' \in SUBSET Nodes
    BY <1>1, <1>2 DEF TypeOK
  <2> QED
    BY <1>1, <1>3, <2>1, <2>2 DEF TypeOK
<1>5. StampInv'
  BY <1>1, SameStamp DEF InWindow
<1>6. LocalInv'
  <2> SUFFICES ASSUME NEW u \in Threads
               PROVE  /\ newNode'[u] # nullptr <=> pc'[u] \in Pushing
                      /\ pc'[u] \in Pushing => value'[u] # NoValue /\ node'[newNode'[u]].data = value'[u]
                      /\ pc'[u] = "pushCAS" => node'[newNode'[u]].next = old'[u].ptr
                      /\ pc'[u] \in Popping => value'[u] = NoValue
                      /\ pc'[u] \in Popping \ {"popRead"} => old'[u].ptr # nullptr
    BY DEF LocalInv
  <2>1. CASE u = t
    BY <1>1, <2>1 DEF LocalInv, Pushing, Popping
  <2>2. CASE u # t
    BY <1>1, <1>3, <2>2 DEF LocalInv
  <2> QED
    BY <2>1, <2>2
<1>7. StampTellsReuse'
  BY <1>1, ReuseSame
<1>8. Hand(t)' = nullptr /\ \A u \in Threads : u # t => Hand(u)' = Hand(u)
  BY <1>1 DEF Hand, Pushing
<1>9. PlaceInv(c)'
  <2>1. PICK p, nd, fr, hd, hd2 :
          p = m_pTop.ptr /\ nd = node /\ fr = free /\ hd = Hands /\ hd2 = Hands'
    OBVIOUS
  <2>2. Place(c, p, nd, fr, hd) /\ nullptr \notin fr
    BY <2>1, HandFacts DEF PlaceInv, Hands
  <2>3. hd[t] = a /\ hd2[t] = nullptr /\ \A u \in Threads : u # t => hd2[u] = hd[u]
    BY <1>2, <1>8, <2>1 DEF Hands
  <2>4. Place(c, p, nd, fr \cup {a}, hd2)
    BY <2>2, <2>3, PlaceGive
  <2> QED
    BY <1>1, <1>2, <2>1, <2>4 DEF PlaceInv, Hands
<1> QED
  BY <1>4, <1>5, <1>6, <1>7, <1>9

(* A compare-exchange that succeeds makes those of the others fail. *)
LEMMA ReuseInstalled ==
  ASSUME TypeOK, NEW t \in Threads, NEW l, l # "popCAS", pc' = [pc EXCEPT ![t] = l],
         UNCHANGED old, \A u \in Threads : u # t /\ InWindow(u) => m_pTop' # old[u]
  PROVE  StampTellsReuse'
<1> SUFFICES ASSUME NEW u \in Threads, pc'[u] = "popCAS", m_pTop' = old'[u] PROVE FALSE
  BY DEF StampTellsReuse
<1>1. u # t /\ pc[u] = "popCAS"
  BY DEF TypeOK
<1> QED
  BY <1>1 DEF InWindow

(* The node becomes the first of the stack. *)
LEMMA PushLinkInv ==
  ASSUME NEW c \in Seq(Nodes), IInvWith(c), NEW t \in Threads, NoWrap,
         pc[t] = "pushCAS", CAS(t, Combine(old[t].stamp + 1, newNode[t])),
         value' = [value EXCEPT ![t] = NoValue],
         newNode' = [newNode EXCEPT ![t] = nullptr],
         Goto(t, "idle"), UNCHANGED <<node, free, old, next>>,
         NEW a, a = newNode[t]
  PROVE  a \in Nodes /\ m_pTop'.ptr = a /\ IInvWith(<<a>> \o c)'
<1> USE DEF IInvWith
<1>1. a \in Nodes /\ Hand(t) = a
  BY HandFacts DEF Pushing
<1>2. /\ pc' = [pc EXCEPT ![t] = "idle"] /\ pc'[t] = "idle"
      /\ \A u \in Threads : u # t => pc'[u] = pc[u]
  BY DEF Goto, TypeOK
<1>3. /\ StampInv' /\ overtaken' \in [Threads -> 0 .. StampMod]
      /\ m_pTop' \in [stamp : 0 .. StampMod - 1, ptr : Pointers]
      /\ m_pTop'.ptr = a /\ m_pTop = old[t]
      /\ \A u \in Threads : u # t /\ InWindow(u) => m_pTop' # old[u]
  <2>1. InWindow(t) /\ a \in Pointers /\ CAS(t, Combine(old[t].stamp + 1, a))
    BY <1>1 DEF InWindow, Pointers
  <2> QED
    BY <1>2, <2>1, InstalledStamp
<1>4. /\ value'[t] = NoValue /\ newNode'[t] = nullptr
      /\ \A u \in Threads : u # t => value'[u] = value[u] /\ newNode'[u] = newNode[u]
      /\ value' \in [Threads -> Values \cup {NoValue}] /\ newNode' \in [Threads -> Pointers]
  BY DEF TypeOK, Pointers
<1>5. TypeOK'
  <2>1. pc' \in [Threads -> {"idle", "pushRead", "pushCAS", "popRead", "popNext",
                             "popCAS", "popDelete"}]
    BY <1>2 DEF TypeOK
  <2> QED
    BY <1>3, <1>4, <2>1 DEF TypeOK
<1>6. LocalInv'
  <2> SUFFICES ASSUME NEW u \in Threads
               PROVE  /\ newNode'[u] # nullptr <=> pc'[u] \in Pushing
                      /\ pc'[u] \in Pushing => value'[u] # NoValue /\ node'[newNode'[u]].data = value'[u]
                      /\ pc'[u] = "pushCAS" => node'[newNode'[u]].next = old'[u].ptr
                      /\ pc'[u] \in Popping => value'[u] = NoValue
                      /\ pc'[u] \in Popping \ {"popRead"} => old'[u].ptr # nullptr
    BY DEF LocalInv
  <2>1. CASE u = t
    BY <1>2, <1>4, <2>1 DEF Pushing, Popping
  <2>2. CASE u # t
    BY <1>2, <1>4, <2>2 DEF LocalInv
  <2> QED
    BY <2>1, <2>2
<1>7. StampTellsReuse'
  BY <1>2, <1>3, ReuseInstalled
<1>8. Hand(t)' = nullptr /\ \A u \in Threads : u # t => Hand(u)' = Hand(u)
  BY <1>2, <1>4 DEF Hand, Pushing
<1>9. PlaceInv(<<a>> \o c)'
  <2>1. PICK p, nd, fr, hd, hd2 :
          p = m_pTop.ptr /\ nd = node /\ fr = free /\ hd = Hands /\ hd2 = Hands'
    OBVIOUS
  <2>2. Place(c, p, nd, fr, hd) /\ nullptr \notin fr
    BY <2>1, HandFacts DEF PlaceInv, Hands
  <2>3. hd[t] = a /\ hd2[t] = nullptr /\ \A u \in Threads : u # t => hd2[u] = hd[u]
    BY <1>1, <1>8, <2>1 DEF Hands
  <2>4. nd[a].next = p
    BY <1>1, <1>3, <2>1 DEF LocalInv
  <2>5. PICK d : d = <<a>> \o c
    OBVIOUS
  <2>6. OthersSame(hd, hd2, t)
    BY <2>3 DEF OthersSame
  <2>7. Place(d, a, nd, fr, hd2)
    BY ONLY c \in Seq(Nodes), t \in Threads, <1>1, <2>2, <2>3, <2>4, <2>5, <2>6, PlacePush
  <2> QED
    BY <1>3, <2>1, <2>5, <2>7 DEF PlaceInv, Hands
<1> QED
  BY <1>1, <1>3, <1>5, <1>6, <1>7, <1>9

(* The first node of the stack goes to the thread. *)
LEMMA PopTakeInv ==
  ASSUME NEW c \in Seq(Nodes), IInvWith(c), NEW t \in Threads, NoWrap,
         pc[t] = "popCAS", CAS(t, Combine(old[t].stamp + 1, next[t])),
         Goto(t, "popDelete"), UNCHANGED <<node, free, value, newNode, old, next>>
  PROVE  /\ c # <<>> /\ c[1] = old[t].ptr /\ Tail(c) \in Seq(Nodes)
         /\ \A d \in Seq(Nodes) : d = Tail(c) => IInvWith(d)'
<1> USE DEF IInvWith
<1>1. /\ pc' = [pc EXCEPT ![t] = "popDelete"] /\ pc'[t] = "popDelete"
      /\ \A u \in Threads : u # t => pc'[u] = pc[u]
  BY DEF Goto, TypeOK
<1>2. /\ StampInv' /\ overtaken' \in [Threads -> 0 .. StampMod]
      /\ m_pTop' \in [stamp : 0 .. StampMod - 1, ptr : Pointers]
      /\ m_pTop'.ptr = next[t] /\ m_pTop = old[t]
      /\ \A u \in Threads : u # t /\ InWindow(u) => m_pTop' # old[u]
  <2>1. InWindow(t) /\ next[t] \in Pointers
    BY DEF InWindow, TypeOK
  <2> QED
    BY <1>1, <2>1, InstalledStamp
<1>3. PICK a \in Nodes : a = old[t].ptr
  BY DEF TypeOK, Pointers, LocalInv, Popping
<1>4. TypeOK'
  <2>1. pc' \in [Threads -> {"idle", "pushRead", "pushCAS", "popRead", "popNext",
                             "popCAS", "popDelete"}]
    BY <1>1 DEF TypeOK
  <2> QED
    BY <1>2, <2>1 DEF TypeOK
<1>5. LocalInv'
  <2> SUFFICES ASSUME NEW u \in Threads
               PROVE  /\ newNode'[u] # nullptr <=> pc'[u] \in Pushing
                      /\ pc'[u] \in Pushing => value'[u] # NoValue /\ node'[newNode'[u]].data = value'[u]
                      /\ pc'[u] = "pushCAS" => node'[newNode'[u]].next = old'[u].ptr
                      /\ pc'[u] \in Popping => value'[u] = NoValue
                      /\ pc'[u] \in Popping \ {"popRead"} => old'[u].ptr # nullptr
    BY DEF LocalInv
  <2> QED
    BY <1>1 DEF LocalInv, Pushing, Popping
<1>6. StampTellsReuse'
  BY <1>1, <1>2, ReuseInstalled
<1>7. /\ Hand(t) = nullptr /\ Hand(t)' = a
      /\ \A u \in Threads : u # t => Hand(u)' = Hand(u)
  BY <1>1, <1>3 DEF Hand, Pushing
<1>8. PICK d : d = Tail(c)
  OBVIOUS
<1>9. c # <<>> /\ c[1] = a /\ PlaceInv(d)'
  <2>1. PICK p, nd, fr, hd, hd2 :
          p = next[t] /\ nd = node /\ fr = free /\ hd = Hands /\ hd2 = Hands'
    OBVIOUS
  <2>2. Place(c, a, nd, fr, hd) /\ nullptr \notin fr
    BY <1>2, <1>3, <2>1, HandFacts DEF PlaceInv, Hands
  <2>3. hd[t] = nullptr /\ hd2[t] = a
    BY <1>7, <2>1 DEF Hands
  <2>4. nd[a].next = p
    BY <1>2, <1>3, <2>1 DEF StampTellsReuse
  <2>5. OthersSame(hd, hd2, t)
    BY <1>7, <2>1 DEF OthersSame, Hands
  <2>6. c # <<>> /\ c[1] = a
    BY <2>2, NodesAssumption DEF Place, ChainFrom
  <2>7. Place(d, p, nd, fr, hd2)
    BY ONLY c \in Seq(Nodes), t \in Threads, a \in Nodes, <1>8, <2>2, <2>3, <2>4, <2>5, PlacePop
  <2> QED
    BY <1>2, <2>1, <2>6, <2>7 DEF PlaceInv, Hands
<1>10. Tail(c) \in Seq(Nodes)
  BY <1>9, TailFacts
<1> QED
  BY <1>2, <1>3, <1>4, <1>5, <1>6, <1>8, <1>9, <1>10

(* The pool as the constructor leaves it. *)
LEMMA InitInv ==
  ASSUME Init
  PROVE  \E c \in Seq(Nodes) :
           IInvWith(c) /\ \A i \in 1 .. Len(c) : node[c[i]].data \in Values
<1> DEFINE n == Cardinality(Values)
<1>0. n \in Nat
  BY NodesAssumption, FS_CardinalityType
<1>1. PICK a \in [1 .. n -> Nodes], v \in [1 .. n -> Values] :
        LET Pos(x) == CHOOSE i \in 1 .. n : a[i] = x
            Links == {a[i] : i \in 1 .. n}
        IN  /\ \A i, j \in 1 .. n : i # j => a[i] # a[j] /\ v[i] # v[j]
            /\ m_pTop = Combine(n, IF n = 0 THEN nullptr ELSE a[n])
            /\ node = [x \in Nodes |->
                 IF x \notin Links THEN [data |-> NoValue, next |-> nullptr]
                 ELSE [data |-> v[Pos(x)],
                       next |-> IF Pos(x) = 1 THEN nullptr ELSE a[Pos(x) - 1]]]
            /\ free = Nodes \ Links
  BY Zenon DEF Init
<1>2. /\ pc = [t \in Threads |-> "idle"]
      /\ value = [t \in Threads |-> NoValue]
      /\ newNode = [t \in Threads |-> nullptr]
      /\ old = [t \in Threads |-> Combine(0, nullptr)]
      /\ next = [t \in Threads |-> nullptr]
      /\ overtaken = [t \in Threads |-> 0]
  BY DEF Init
<1> DEFINE Pos(x) == CHOOSE i \in 1 .. n : a[i] = x
           Links == {a[i] : i \in 1 .. n}
<1>3. /\ \A i, j \in 1 .. n : a[i] = a[j] => i = j
      /\ m_pTop = Combine(n, IF n = 0 THEN nullptr ELSE a[n])
      /\ node = [x \in Nodes |->
           IF x \notin Links THEN [data |-> NoValue, next |-> nullptr]
           ELSE [data |-> v[Pos(x)],
                 next |-> IF Pos(x) = 1 THEN nullptr ELSE a[Pos(x) - 1]]]
      /\ free = Nodes \ Links
  BY <1>1
<1>4. \A i \in 1 .. n : a[i] \in Nodes /\ a[i] \in Links /\ Pos(a[i]) = i
  <2> SUFFICES ASSUME NEW i \in 1 .. n PROVE a[i] \in Nodes /\ a[i] \in Links /\ Pos(a[i]) = i
    OBVIOUS
  <2>1. Pos(a[i]) \in 1 .. n /\ a[Pos(a[i])] = a[i]
    OBVIOUS
  <2> QED
    BY <1>3, <2>1
<1>5. \A x \in Links : \E i \in 1 .. n : x = a[i]
  OBVIOUS
<1>6. Links \subseteq Nodes
  OBVIOUS
<1> HIDE DEF n, Pos, Links
<1>7. \A i \in 1 .. n : (IF i = 1 THEN nullptr ELSE a[i - 1]) \in Pointers /\ v[i] \in Values
  <2> SUFFICES ASSUME NEW i \in 1 .. n, i # 1 PROVE a[i - 1] \in Nodes
    BY DEF Pointers
  <2>1. i - 1 \in 1 .. n
    BY <1>0
  <2> QED
    BY <2>1
<1>8. /\ \A i \in 1 .. n : /\ node[a[i]] \in [data : Values \cup {NoValue}, next : Pointers]
                           /\ node[a[i]].data = v[i]
                           /\ node[a[i]].next = IF i = 1 THEN nullptr ELSE a[i - 1]
      /\ \A x \in Nodes \ Links : node[x] = [data |-> NoValue, next |-> nullptr]
  <2>1. ASSUME NEW i \in 1 .. n
        PROVE  node[a[i]] = [data |-> v[i], next |-> IF i = 1 THEN nullptr ELSE a[i - 1]]
    BY <1>3, <1>4
  <2>2. ASSUME NEW i \in 1 .. n
        PROVE  /\ node[a[i]] \in [data : Values \cup {NoValue}, next : Pointers]
               /\ node[a[i]].data = v[i]
               /\ node[a[i]].next = IF i = 1 THEN nullptr ELSE a[i - 1]
    <3>1. PICK q \in Pointers : q = IF i = 1 THEN nullptr ELSE a[i - 1]
      BY <1>7
    <3>2. node[a[i]] = [data |-> v[i], next |-> q] /\ v[i] \in Values
      BY <1>7, <2>1, <3>1
    <3> QED
      BY <3>1, <3>2
  <2> QED
    BY <1>3, <2>2
<1>9. node \in [Nodes -> [data : Values \cup {NoValue}, next : Pointers]]
  <2>1. ASSUME NEW x \in Nodes
        PROVE  node[x] \in [data : Values \cup {NoValue}, next : Pointers]
    <3>1. CASE x \in Links
      <4>1. PICK i \in 1 .. n : x = a[i]
        BY <1>5, <3>1
      <4> QED
        BY <1>8, <4>1
    <3>2. CASE x \notin Links
      BY <1>8, <3>2 DEF Pointers
    <3> QED
      BY <3>1, <3>2
  <2> QED
    BY <1>3, <2>1
<1>10. \A s \in Nat, p \in Pointers :
         /\ Combine(s, p) \in [stamp : 0 .. StampMod - 1, ptr : Pointers]
         /\ Combine(s, p).ptr = p
  BY StampModAssumption DEF Combine
<1>11. (IF n = 0 THEN nullptr ELSE a[n]) \in Pointers
  BY <1>0 DEF Pointers
<1>12. TypeOK
  <2>1. m_pTop \in [stamp : 0 .. StampMod - 1, ptr : Pointers]
    BY <1>0, <1>3, <1>10, <1>11
  <2>2. old \in [Threads -> [stamp : 0 .. StampMod - 1, ptr : Pointers]]
    BY <1>2, <1>10 DEF Pointers
  <2>3. newNode \in [Threads -> Pointers] /\ next \in [Threads -> Pointers]
    BY <1>2 DEF Pointers
  <2>4. overtaken \in [Threads -> 0 .. StampMod]
    BY <1>2, StampModAssumption
  <2> QED
    BY <1>2, <1>3, <1>9, <2>1, <2>2, <2>3, <2>4 DEF TypeOK
<1>13. StampInv /\ StampTellsReuse
  BY <1>2 DEF StampInv, StampTellsReuse, InWindow
<1>14. LocalInv
  BY <1>2 DEF LocalInv, Pushing, Popping
<1> DEFINE c == [i \in 1 .. n |-> a[n + 1 - i]]
<1>15. \A i \in 1 .. n : n + 1 - i \in 1 .. n
  BY <1>0
<1>16. c \in Seq(Nodes) /\ Len(c) = n /\ \A i \in 1 .. n : c[i] = a[n + 1 - i]
  <2>1. c \in [1 .. n -> Nodes]
    BY <1>15
  <2>2. c \in Seq(Nodes)
    BY <1>0, <2>1, SeqDef
  <2> QED
    BY <1>0, <2>1, <2>2
<1> HIDE DEF c
<1>17. ChainFrom(c, m_pTop.ptr, node)
  <2>1. m_pTop.ptr = IF c = <<>> THEN nullptr ELSE c[1]
    <3>1. c = <<>> <=> n = 0
      BY <1>16, EmptySeq
    <3>2. n # 0 => c[1] = a[n]
      <4> SUFFICES ASSUME n # 0 PROVE c[1] = a[n]
        OBVIOUS
      <4>1. 1 \in 1 .. n /\ n + 1 - 1 = n
        BY <1>0
      <4> QED
        BY <1>16, <4>1
    <3> QED
      BY <1>0, <1>3, <1>10, <1>11, <3>1, <3>2
  <2>2. ASSUME NEW i \in 1 .. n
        PROVE  node[c[i]].next = IF i = n THEN nullptr ELSE c[i + 1]
    <3>1. PICK k \in 1 .. n : k = n + 1 - i /\ c[i] = a[k]
      BY <1>15, <1>16
    <3>2. node[c[i]].next = IF k = 1 THEN nullptr ELSE a[k - 1]
      BY <1>8, <3>1
    <3>3. k = 1 <=> i = n
      BY <1>0, <3>1
    <3>4. i # n => i + 1 \in 1 .. n /\ n + 1 - (i + 1) = k - 1
      BY <1>0, <3>1
    <3>5. i # n => c[i + 1] = a[k - 1]
      BY <1>16, <3>4
    <3> QED
      BY <3>2, <3>3, <3>5
  <2> QED
    BY <1>16, <2>1, <2>2 DEF ChainFrom
<1>18. Distinct(c)
  <2> SUFFICES ASSUME NEW i \in 1 .. n, NEW j \in 1 .. n, c[i] = c[j] PROVE i = j
    BY <1>16 DEF Distinct
  <2>1. n + 1 - i = n + 1 - j
    BY <1>3, <1>15, <1>16
  <2> QED
    BY <1>0, <2>1
<1>19. \A x \in Nodes : Member(x, c) <=> x \in Links
  <2> SUFFICES ASSUME NEW x \in Nodes PROVE Member(x, c) <=> x \in Links
    OBVIOUS
  <2>1. ASSUME Member(x, c) PROVE x \in Links
    BY <1>4, <1>15, <1>16, <2>1 DEF Member
  <2>2. ASSUME x \in Links PROVE Member(x, c)
    <3>1. PICK i \in 1 .. n : x = a[i]
      BY <1>5, <2>2
    <3>2. n + 1 - i \in 1 .. n /\ n + 1 - (n + 1 - i) = i
      BY <1>0
    <3>3. c[n + 1 - i] = x
      BY <1>16, <3>1, <3>2
    <3> QED
      BY <1>16, <3>2, <3>3 DEF Member
  <2> QED
    BY <2>1, <2>2
<1>20. PlaceInv(c)
  <2>1. \A t \in Threads : Hand(t) = nullptr
    BY <1>2 DEF Hand, Pushing
  <2>2. \A x \in Nodes : x # nullptr
    BY NodesAssumption
  <2>3. \A x \in Nodes : Member(x, c) => x \notin free /\ \A t \in Threads : Hand(t) # x
    BY <1>3, <1>19, <2>1, <2>2
  <2>4. \A t \in Threads : Hand(t) \notin free
    BY <1>3, <2>1, <2>2
  <2>5. \A x \in Nodes : x \in free \/ Member(x, c)
    BY <1>3, <1>19
  <2> QED
    BY <1>17, <1>18, <2>1, <2>3, <2>4, <2>5 DEF PlaceInv, Place
<1>21. \A i \in 1 .. Len(c) : node[c[i]].data \in Values
  BY <1>7, <1>8, <1>15, <1>16
<1> QED
  BY <1>12, <1>13, <1>14, <1>16, <1>20, <1>21 DEF IInvWith

(* Nothing changes. *)
LEMMA StutterInv ==
  ASSUME NEW c \in Seq(Nodes), IInvWith(c), UNCHANGED vars
  PROVE  IInvWith(c)'
<1>1. TypeOK' /\ LocalInv' /\ StampTellsReuse'
  BY DEF IInvWith, vars, TypeOK, LocalInv, StampTellsReuse
<1>2. StampInv'
  BY DEF IInvWith, vars, StampInv, InWindow
<1>3. \A u \in Threads : Hand(u)' = Hand(u)
  BY DEF vars, Hand
<1>4. PlaceInv(c)'
  BY <1>3, PlaceKeep DEF IInvWith, vars
<1> QED
  BY <1>1, <1>2, <1>4 DEF IInvWith

(* What a step does to the chain: nothing, or t pushes a node onto it, or  *)
(* takes the first one off.                                                *)
Fails(t) ==
  /\ UNCHANGED <<node, value, old>>
  /\ \/ pc[t] = "pushCAS" /\ Goto(t, "pushRead")
     \/ pc[t] = "popCAS" /\ Goto(t, "popRead")

Quiet(t) ==
  PushAlloc(t) \/ PushRead(t) \/ PopRead(t) \/ PopNext(t) \/ PopDelete(t) \/ Fails(t)

Pushes(t, c, d) ==
  /\ pc[t] = "pushCAS" /\ Goto(t, "idle")
  /\ d = <<newNode[t]>> \o c
  /\ value' = [value EXCEPT ![t] = NoValue] /\ UNCHANGED <<node, old>>

Pops(t, c, d) ==
  /\ pc[t] = "popCAS" /\ Goto(t, "popDelete")
  /\ c # <<>> /\ c[1] = old[t].ptr /\ d = Tail(c)
  /\ UNCHANGED <<node, value, old>>

(* Every step keeps the invariant, with the chain it leaves. *)
LEMMA StepInv ==
  ASSUME NEW c \in Seq(Nodes), IInvWith(c), NEW t \in Threads, Step(t), NoWrap
  PROVE  \/ IInvWith(c)' /\ Quiet(t)
         \/ \E d \in Seq(Nodes) : IInvWith(d)' /\ (Pushes(t, c, d) \/ Pops(t, c, d))
<1>1. CASE PushAlloc(t)
  BY <1>1, PushAllocInv DEF Quiet
<1>2. CASE PushRead(t)
  BY <1>2, PushReadInv DEF Quiet
<1>3. CASE PopRead(t)
  BY <1>3, PopReadInv DEF Quiet
<1>4. CASE PopNext(t)
  BY <1>4, PopNextInv DEF Quiet
<1>5. CASE PopDelete(t)
  BY <1>5, PopDeleteInv DEF Quiet
<1>6. CASE PushCAS(t)
  <2>1. CASE CASFails(t) /\ Goto(t, "pushRead") /\ UNCHANGED <<value, newNode>>
    <3>1. UNCHANGED <<node, free, value, newNode, old, next>> /\ pc[t] = "pushCAS"
      BY <1>6, <2>1 DEF PushCAS
    <3>2. IInvWith(c)'
      BY <2>1, <3>1, FailInv
    <3> QED
      BY <2>1, <3>1, <3>2 DEF Quiet, Fails
  <2>2. CASE /\ CAS(t, Combine(old[t].stamp + 1, newNode[t]))
             /\ value' = [value EXCEPT ![t] = NoValue]
             /\ newNode' = [newNode EXCEPT ![t] = nullptr]
             /\ Goto(t, "idle")
    <3>1. UNCHANGED <<node, free, old, next>> /\ pc[t] = "pushCAS"
      BY <1>6 DEF PushCAS
    <3>2. PICK a : a = newNode[t]
      OBVIOUS
    <3>3. a \in Nodes /\ IInvWith(<<a>> \o c)'
      BY <2>2, <3>1, <3>2, PushLinkInv
    <3>4. PICK d : d = <<a>> \o c
      OBVIOUS
    <3>5. d \in Seq(Nodes)
      BY ONLY c \in Seq(Nodes), <3>3, <3>4, ConsFacts
    <3>6. IInvWith(d)'
      BY <3>3, <3>4
    <3>7. Pushes(t, c, d)
      BY <2>2, <3>1, <3>2, <3>4 DEF Pushes
    <3> QED
      BY <3>5, <3>6, <3>7
  <2> QED
    BY <1>6, <2>1, <2>2 DEF PushCAS
<1>7. CASE PopCAS(t)
  <2>0. UNCHANGED <<node, free, value, newNode, old, next>> /\ pc[t] = "popCAS"
    BY <1>7 DEF PopCAS
  <2>1. CASE CASFails(t) /\ Goto(t, "popRead")
    <3>1. IInvWith(c)'
      BY <2>0, <2>1, FailInv
    <3> QED
      BY <2>0, <2>1, <3>1 DEF Quiet, Fails
  <2>2. CASE CAS(t, Combine(old[t].stamp + 1, next[t])) /\ Goto(t, "popDelete")
    <3>1. /\ c # <<>> /\ c[1] = old[t].ptr /\ Tail(c) \in Seq(Nodes)
          /\ \A d \in Seq(Nodes) : d = Tail(c) => IInvWith(d)'
      BY <2>0, <2>2, PopTakeInv
    <3>2. PICK d \in Seq(Nodes) : d = Tail(c)
      BY <3>1
    <3>3. Pops(t, c, d)
      BY <2>0, <2>2, <3>1, <3>2 DEF Pops
    <3> QED
      BY <3>1, <3>2, <3>3
  <2> QED
    BY <1>7, <2>1, <2>2 DEF PopCAS
<1> QED
  BY <1>1, <1>2, <1>3, <1>4, <1>5, <1>6, <1>7 DEF Step

(* So the invariant is inductive. *)
LEMMA NextInv ==
  ASSUME IInv, [TimelyNext]_vars
  PROVE  IInv'
<1>1. PICK c \in Seq(Nodes) : IInvWith(c)
  BY DEF IInv
<1>2. CASE UNCHANGED vars
  BY <1>1, <1>2, StutterInv DEF IInv
<1>3. CASE TimelyNext
  <2>1. PICK t \in Threads : Step(t) /\ NoWrap
    BY <1>3 DEF TimelyNext, Next
  <2>2. \E d \in Seq(Nodes) : IInvWith(d)'
    BY <1>1, <2>1, StepInv
  <2> QED
    BY <2>2 DEF IInv
<1> QED
  BY <1>2, <1>3
-----------------------------------------------------------------------------
(* Theorems *)

(* Linked is the chain of the invariant. *)
LEMMA LinkedNow ==
  ASSUME NEW c \in Seq(Nodes), IInvWith(c)
  PROVE  Chains # {} /\ Linked = c
<1>1. PICK p, nd : p = m_pTop.ptr /\ nd = node
  OBVIOUS
<1>2. ChainFrom(c, p, nd) /\ Distinct(c)
  BY <1>1 DEF IInvWith, PlaceInv, Place
<1>3. ChainsFrom(p, nd) # {} /\ LinkedFrom(p, nd) = c
  BY <1>2, LinkedIsChain
<1>4. Chains = ChainsFrom(p, nd)
  BY <1>1 DEF Chains, ChainsFrom, IsChain, ChainFrom
<1> QED
  BY <1>3, <1>4 DEF Linked, LinkedFrom

(* The same after a step. *)
LEMMA LinkedNext ==
  ASSUME NEW d \in Seq(Nodes), IInvWith(d)'
  PROVE  Linked' = d
<1>1. PICK p, nd : p = m_pTop'.ptr /\ nd = node'
  OBVIOUS
<1>2. ChainFrom(d, p, nd) /\ Distinct(d)
  BY <1>1 DEF IInvWith, PlaceInv, Place
<1>3. ChainsFrom(p, nd) # {} /\ LinkedFrom(p, nd) = d
  BY <1>2, LinkedIsChain
<1>4. Chains' = ChainsFrom(p, nd)
  BY <1>1 DEF Chains, ChainsFrom, IsChain, ChainFrom
<1> QED
  BY <1>3, <1>4 DEF Linked, LinkedFrom

(* The invariant holds in every reachable state under TimelySpec. *)
LEMMA Invariant == TimelySpec => []IInv
<1>1. Init => IInv
  BY InitInv DEF IInv
<1>2. IInv /\ [TimelyNext]_vars => IInv'
  BY NextInv
<1> QED
  BY <1>1, <1>2, PTL DEF TimelySpec

(* Type correctness. *)
THEOREM TypeCorrect == TimelySpec => []TypeOK
<1>1. IInv => TypeOK
  BY DEF IInv, IInvWith
<1> QED
  BY <1>1, Invariant, PTL

(* A compare-exchange of Pop that is going to succeed installs the node    *)
(* that follows the top (CLockFreeStack.h, Pop), whatever was taken off    *)
(* and pushed again since it read m_pTop.                                  *)
THEOREM Stamp == TimelySpec => []StampTellsReuse
<1>1. IInv => StampTellsReuse
  BY DEF IInv, IInvWith
<1> QED
  BY <1>1, Invariant, PTL

(* How many threads hold an address. *)
LEMMA HoldersCount ==
  ASSUME TypeOK, LocalInv, NEW a \in Nodes,
         \A t, u \in Threads : Hand(t) = Hand(u) /\ Hand(t) # nullptr => t = u
  PROVE  Cardinality({t \in Threads : newNode[t] = a})
           + Cardinality({t \in Threads : pc[t] = "popDelete" /\ old[t].ptr = a})
         = IF \E t \in Threads : Hand(t) = a THEN 1 ELSE 0
<1> DEFINE S1 == {t \in Threads : newNode[t] = a}
           S2 == {t \in Threads : pc[t] = "popDelete" /\ old[t].ptr = a}
<1>0. a # nullptr
  BY NodesAssumption
<1>1. \A t \in Threads : /\ t \in S1 <=> pc[t] \in Pushing /\ Hand(t) = a
                         /\ t \in S2 <=> pc[t] = "popDelete" /\ Hand(t) = a
                         /\ Hand(t) = a => pc[t] \in Pushing \cup {"popDelete"}
  <2> SUFFICES ASSUME NEW t \in Threads
               PROVE  /\ newNode[t] = a <=> pc[t] \in Pushing /\ Hand(t) = a
                      /\ pc[t] = "popDelete" /\ old[t].ptr = a <=> pc[t] = "popDelete" /\ Hand(t) = a
                      /\ Hand(t) = a => pc[t] \in Pushing \cup {"popDelete"}
    OBVIOUS
  <2>1. newNode[t] # nullptr <=> pc[t] \in Pushing
    BY DEF LocalInv
  <2> QED
    BY <1>0, <2>1 DEF Hand, Pushing
<1>2. S1 \subseteq Threads /\ S2 \subseteq Threads
  OBVIOUS
<1> HIDE DEF S1, S2
<1>3. CASE \A t \in Threads : Hand(t) # a
  <2>1. S1 = {} /\ S2 = {}
    BY <1>1, <1>2, <1>3
  <2>2. Cardinality(S1) = 0 /\ Cardinality(S2) = 0
    BY <2>1, FS_EmptySet
  <2> QED
    BY <1>3, <2>2 DEF S1, S2
<1>4. ASSUME NEW t \in Threads, Hand(t) = a
      PROVE  Cardinality(S1) + Cardinality(S2) = 1
  <2>0. Cardinality({t}) = 1 /\ Cardinality({}) = 0
    BY FS_Singleton, FS_EmptySet
  <2>1. \A u \in Threads : Hand(u) = a => u = t
    BY <1>0, <1>4
  <2>2. CASE pc[t] \in Pushing
    <3>1. S1 = {t} /\ S2 = {}
      BY <1>1, <1>2, <1>4, <2>1, <2>2 DEF Pushing
    <3> QED
      BY <2>0, <3>1
  <2>3. CASE pc[t] = "popDelete"
    <3>1. S1 = {} /\ S2 = {t}
      BY <1>1, <1>2, <1>4, <2>1, <2>3 DEF Pushing
    <3> QED
      BY <2>0, <3>1
  <2> QED
    BY <1>1, <1>4, <2>2, <2>3
<1> QED
  BY <1>3, <1>4 DEF S1, S2

(* The pointers lead to nullptr and every address is in one place: none is *)
(* leaked, deleted twice or linked after it was deleted                    *)
(* (CLockFreeStack.h, Push and Pop), for any threads and any allocator.    *)
THEOREM Addresses == TimelySpec => []NodesExact
<1>1. IInv => NodesExact
  <2> SUFFICES ASSUME NEW c \in Seq(Nodes), IInvWith(c) PROVE NodesExact
    BY DEF IInv
  <2>1. Chains # {} /\ Linked = c
    BY LinkedNow
  <2>2. ASSUME NEW a \in Nodes
        PROVE  Cardinality({t \in Threads : newNode[t] = a})
                 + Cardinality({t \in Threads : pc[t] = "popDelete" /\ old[t].ptr = a})
                 + (IF Member(a, c) THEN 1 ELSE 0) + (IF a \in free THEN 1 ELSE 0)
               = 1
    <3>1. \A t, u \in Threads : Hand(t) = Hand(u) /\ Hand(t) # nullptr => t = u
      BY DEF IInvWith, PlaceInv, Place
    <3>2. PICK k \in {0, 1} :
            /\ k = Cardinality({t \in Threads : newNode[t] = a})
                   + Cardinality({t \in Threads : pc[t] = "popDelete" /\ old[t].ptr = a})
            /\ k = IF \E t \in Threads : Hand(t) = a THEN 1 ELSE 0
      BY <3>1, HoldersCount DEF IInvWith
    <3>3. /\ Member(a, c) => a \notin free /\ \A t \in Threads : Hand(t) # a
          /\ a \in free => \A t \in Threads : Hand(t) # a
          /\ a \in free \/ (\E t \in Threads : Hand(t) = a) \/ Member(a, c)
      BY DEF IInvWith, PlaceInv, Place
    <3>4. k + (IF Member(a, c) THEN 1 ELSE 0) + (IF a \in free THEN 1 ELSE 0) = 1
      BY <3>2, <3>3
    <3> QED
      BY <3>2, <3>4
  <2> QED
    BY <2>1, <2>2 DEF NodesExact, Member
<1> QED
  BY <1>1, Invariant, PTL
-----------------------------------------------------------------------------
(* Push and Pop are atomic *)

(* The value a thread has popped, and the values along c. *)
Held(t) == IF pc[t] = "popDelete" THEN node[old[t].ptr].data ELSE value[t]
Data(c) == [i \in 1 .. Len(c) |-> node[c[i]].data]

(* The steps without effect. *)
LEMMA QuietKeeps ==
  ASSUME NEW c \in Seq(Nodes), IInvWith(c), NEW t \in Threads, Quiet(t)
  PROVE  /\ \A i \in 1 .. Len(c) : node'[c[i]].data = node[c[i]].data
         /\ \A u \in Threads : Held(u)' = Held(u)
<1> USE DEF IInvWith
<1>1. CASE PushAlloc(t)
  <2>1. PICK a \in free : node' = [node EXCEPT ![a].data = value[t]]
    BY <1>1 DEF PushAlloc
  <2>2. a \in Nodes /\ \A b \in Nodes : b # a => node'[b] = node[b]
    BY <2>1 DEF TypeOK
  <2>3. \A i \in 1 .. Len(c) : c[i] \in Nodes /\ c[i] # a
    <3> SUFFICES ASSUME NEW i \in 1 .. Len(c) PROVE c[i] \in Nodes /\ c[i] # a
      OBVIOUS
    <3>1. c[i] \in Nodes /\ Member(c[i], c)
      BY DEF Member
    <3> QED
      BY <3>1 DEF PlaceInv, Place
  <2>4. /\ pc[t] = "idle" /\ pc'[t] = "pushRead" /\ UNCHANGED <<value, old>>
        /\ \A u \in Threads : u # t => pc'[u] = pc[u]
    BY <1>1 DEF PushAlloc, Goto, TypeOK
  <2>5. \A u \in Threads : pc[u] = "popDelete" => old[u].ptr \in Nodes /\ old[u].ptr # a
    <3>1. \A u \in Threads : Hand(u) # a
      BY DEF PlaceInv, Place
    <3> QED
      BY <3>1, HandFacts
  <2> QED
    BY <2>2, <2>3, <2>4, <2>5 DEF Held
<1>2. CASE PushRead(t)
  <2>1. newNode[t] \in Nodes
    BY <1>2, HandFacts DEF PushRead, Pushing
  <2>2. \A b \in Nodes : node'[b].data = node[b].data
    BY <1>2, <2>1 DEF PushRead, TypeOK
  <2>3. /\ pc[t] = "pushRead" /\ pc'[t] = "pushCAS" /\ UNCHANGED value
        /\ \A u \in Threads : u # t => pc'[u] = pc[u] /\ old'[u] = old[u]
    BY <1>2 DEF PushRead, ReadTop, Goto, TypeOK
  <2>4. \A u \in Threads : pc[u] = "popDelete" => old[u].ptr \in Nodes
    BY HandFacts
  <2> QED
    BY <2>2, <2>3, <2>4 DEF Held
<1>3. CASE PopRead(t)
  <2>1. /\ pc[t] # "popDelete" /\ pc'[t] # "popDelete" /\ UNCHANGED <<node, value>>
        /\ \A u \in Threads : u # t => pc'[u] = pc[u] /\ old'[u] = old[u]
    BY <1>3 DEF PopRead, ReadTop, Goto, TypeOK
  <2> QED
    BY <2>1 DEF Held
<1>4. CASE PopNext(t)
  <2>1. /\ pc[t] # "popDelete" /\ pc'[t] # "popDelete" /\ UNCHANGED <<node, value, old>>
        /\ \A u \in Threads : u # t => pc'[u] = pc[u]
    BY <1>4 DEF PopNext, Goto, TypeOK
  <2> QED
    BY <2>1 DEF Held
<1>5. CASE PopDelete(t)
  <2>1. /\ pc[t] = "popDelete" /\ pc'[t] = "idle" /\ UNCHANGED <<node, old>>
        /\ value'[t] = node[old[t].ptr].data
        /\ \A u \in Threads : u # t => pc'[u] = pc[u] /\ value'[u] = value[u]
    BY <1>5 DEF PopDelete, Goto, TypeOK
  <2> QED
    BY <2>1 DEF Held
<1>6. CASE Fails(t)
  <2>1. /\ pc[t] # "popDelete" /\ pc'[t] # "popDelete" /\ UNCHANGED <<node, value, old>>
        /\ \A u \in Threads : u # t => pc'[u] = pc[u]
    BY <1>6 DEF Fails, Goto, TypeOK
  <2> QED
    BY <2>1 DEF Held
<1> QED
  BY <1>1, <1>2, <1>3, <1>4, <1>5, <1>6 DEF Quiet

(* The values along a chain. *)
LEMMA ChainData ==
  ASSUME NEW c \in Seq(Nodes), NEW nd
  PROVE  /\ [i \in 1 .. Len(c) |-> nd[c[i]].data] \in Seq({nd[b].data : b \in Nodes})
         /\ Len([i \in 1 .. Len(c) |-> nd[c[i]].data]) = Len(c)
         /\ \A i \in 1 .. Len(c) : [j \in 1 .. Len(c) |-> nd[c[j]].data][i] = nd[c[i]].data
<1> DEFINE S == {nd[b].data : b \in Nodes}
           s == [i \in 1 .. Len(c) |-> nd[c[i]].data]
<1>1. PICK n \in Nat : n = Len(c)
  OBVIOUS
<1>2. s \in [1 .. n -> S]
  BY <1>1
<1>3. \A i \in 1 .. Len(c) : s[i] = nd[c[i]].data
  OBVIOUS
<1> HIDE DEF S, s
<1>4. s \in Seq(S)
  BY ONLY <1>2, n \in Nat, SeqDef
<1>5. Len(s) = n
  BY <1>2, <1>4
<1> QED
  BY <1>1, <1>3, <1>4, <1>5 DEF S, s

(* The values of a chain with one node more. *)
LEMMA ConsData ==
  ASSUME NEW c \in Seq(Nodes), NEW a \in Nodes, NEW nd, NEW d, d = <<a>> \o c
  PROVE  [i \in 1 .. Len(d) |-> nd[d[i]].data]
         = <<nd[a].data>> \o [i \in 1 .. Len(c) |-> nd[c[i]].data]
<1>1. /\ Len(d) = Len(c) + 1 /\ d[1] = a /\ Len(c) \in Nat
      /\ \A i \in 1 .. Len(c) : d[i + 1] = c[i]
  BY ConsFacts
<1> DEFINE S == {nd[b].data : b \in Nodes}
           s == [i \in 1 .. Len(c) |-> nd[c[i]].data]
           r == [i \in 1 .. Len(d) |-> nd[d[i]].data]
           x == nd[a].data
<1>2. x \in S
  OBVIOUS
<1>3. s \in Seq(S) /\ Len(s) = Len(c) /\ \A i \in 1 .. Len(c) : s[i] = nd[c[i]].data
  BY ChainData
<1>4. r \in Seq(S) /\ Len(r) = Len(d) /\ \A i \in 1 .. Len(d) : r[i] = nd[d[i]].data
  <2>1. d \in Seq(Nodes)
    BY ConsFacts
  <2> QED
    BY <2>1, ChainData
<1> HIDE DEF S, s, r, x
<1>7. <<x>> \in Seq(S) /\ Len(<<x>>) = 1 /\ <<x>>[1] = x
  BY <1>2
<1>8. /\ <<x>> \o s \in Seq(S) /\ Len(<<x>> \o s) = 1 + Len(s)
      /\ \A i \in 1 .. 1 + Len(s) : (<<x>> \o s)[i] = IF i <= 1 THEN <<x>>[i] ELSE s[i - 1]
  BY <1>3, <1>7, ConcatProperties
<1>9. ASSUME NEW i \in 1 .. Len(r) PROVE r[i] = (<<x>> \o s)[i]
  <2>1. CASE i = 1
    BY <1>1, <1>3, <1>4, <1>7, <1>8, <2>1 DEF x
  <2>2. CASE i # 1
    <3>1. i - 1 \in 1 .. Len(c) /\ (i - 1) + 1 = i /\ i \in 1 .. Len(d)
      BY <1>1, <1>4, <2>2
    <3>2. d[i] = c[i - 1]
      BY <1>1, <3>1
    <3>3. r[i] = s[i - 1]
      BY <1>3, <1>4, <3>1, <3>2
    <3>4. i \in 1 .. 1 + Len(s) /\ ~(i <= 1)
      BY <1>1, <1>3, <1>4, <2>2
    <3> QED
      BY <1>8, <3>3, <3>4
  <2> QED
    BY <2>1, <2>2
<1>10. r = <<x>> \o s
  <2>1. Len(r) = Len(<<x>> \o s)
    BY <1>1, <1>3, <1>4, <1>8
  <2> QED
    BY ONLY <1>4, <1>8, <1>9, <2>1, SeqEqual
<1> QED
  BY <1>10 DEF r, s, x

(* The values of a chain without its first node. *)
LEMMA TailData ==
  ASSUME NEW c \in Seq(Nodes), c # <<>>, NEW nd, NEW d, d = Tail(c)
  PROVE  /\ [i \in 1 .. Len(d) |-> nd[d[i]].data] = Tail([i \in 1 .. Len(c) |-> nd[c[i]].data])
         /\ [i \in 1 .. Len(c) |-> nd[c[i]].data] # <<>>
         /\ Head([i \in 1 .. Len(c) |-> nd[c[i]].data]) = nd[c[1]].data
<1>1. /\ Len(d) = Len(c) - 1 /\ Len(c) \in Nat \ {0} /\ d \in Seq(Nodes)
      /\ \A i \in 1 .. Len(c) - 1 : d[i] = c[i + 1]
  BY TailFacts
<1> DEFINE S == {nd[b].data : b \in Nodes}
           s == [i \in 1 .. Len(c) |-> nd[c[i]].data]
           r == [i \in 1 .. Len(d) |-> nd[d[i]].data]
<1>3. s \in Seq(S) /\ Len(s) = Len(c) /\ \A i \in 1 .. Len(c) : s[i] = nd[c[i]].data
  BY ChainData
<1>4. r \in Seq(S) /\ Len(r) = Len(d) /\ \A i \in 1 .. Len(d) : r[i] = nd[d[i]].data
  BY <1>1, ChainData
<1> HIDE DEF S, s, r
<1>7. s # <<>>
  BY <1>1, <1>3, EmptySeq
<1>8. /\ Tail(s) \in Seq(S) /\ Len(Tail(s)) = Len(s) - 1 /\ Head(s) = s[1]
      /\ \A i \in 1 .. Len(s) - 1 : Tail(s)[i] = s[i + 1]
  BY <1>1, <1>3, <1>7, HeadTailProperties
<1>9. ASSUME NEW i \in 1 .. Len(r) PROVE r[i] = Tail(s)[i]
  <2>1. i \in 1 .. Len(c) - 1 /\ i + 1 \in 1 .. Len(c) /\ i \in 1 .. Len(d) /\ i \in 1 .. Len(s) - 1
    BY <1>1, <1>3, <1>4
  <2> QED
    BY <1>1, <1>3, <1>4, <1>8, <2>1
<1>10. r = Tail(s)
  <2>1. Len(r) = Len(Tail(s))
    BY <1>1, <1>3, <1>4, <1>8
  <2> QED
    BY ONLY <1>4, <1>8, <1>9, <2>1, SeqEqual
<1>11. Head(s) = nd[c[1]].data
  BY <1>1, <1>3, <1>8
<1> QED
  BY <1>7, <1>10, <1>11 DEF r, s

(* What StackSpec sees. *)
AStack == [i \in 1 .. Len(Linked) |-> node[Linked[i]].data]
AHeld == [t \in Threads |-> Held(t)]

(* The initial pool is an initial state of StackSpec. *)
LEMMA InitAtomic ==
  ASSUME Init
  PROVE  AStack \in Seq(Values) /\ AHeld = [t \in Threads |-> NoValue]
<1>1. PICK c \in Seq(Nodes) :
        IInvWith(c) /\ \A i \in 1 .. Len(c) : node[c[i]].data \in Values
  BY InitInv
<1>2. AStack = [i \in 1 .. Len(c) |-> node[c[i]].data]
  BY <1>1, LinkedNow DEF AStack
<1>3. PICK n \in Nat : n = Len(c)
  OBVIOUS
<1>4. AStack \in [1 .. n -> Values]
  BY <1>1, <1>2, <1>3
<1>5. AStack \in Seq(Values)
  BY ONLY <1>4, n \in Nat, SeqDef
<1> QED
  BY <1>5 DEF AHeld, Held, Init

(* A step is one of StackSpec, or changes nothing there. *)
LEMMA StepAtomic ==
  ASSUME IInv, [TimelyNext]_vars
  PROVE  \/ \E t \in Threads :
              \/ /\ AHeld[t] # NoValue /\ AStack' = <<AHeld[t]>> \o AStack
                 /\ AHeld' = [AHeld EXCEPT ![t] = NoValue]
              \/ /\ AHeld[t] = NoValue /\ AStack # <<>>
                 /\ AHeld' = [AHeld EXCEPT ![t] = Head(AStack)] /\ AStack' = Tail(AStack)
         \/ UNCHANGED <<AStack, AHeld>>
<1>1. PICK c \in Seq(Nodes) : IInvWith(c)
  BY DEF IInv
<1>2. AStack = Data(c)
  BY <1>1, LinkedNow DEF AStack, Data
<1>3. ASSUME NEW d \in Seq(Nodes), IInvWith(d)'
      PROVE  AStack' = [i \in 1 .. Len(d) |-> node'[d[i]].data]
  BY <1>3, LinkedNext DEF AStack
<1>4. CASE UNCHANGED vars
  <2>1. IInvWith(c)'
    BY <1>1, <1>4, StutterInv
  <2> QED
    BY <1>2, <1>3, <1>4, <2>1 DEF AHeld, Held, Data, vars
<1>5. CASE TimelyNext
  <2>1. PICK t \in Threads : Step(t) /\ NoWrap
    BY <1>5 DEF TimelyNext, Next
  <2>2. CASE IInvWith(c)' /\ Quiet(t)
    <3>1. /\ \A i \in 1 .. Len(c) : node'[c[i]].data = node[c[i]].data
          /\ \A u \in Threads : Held(u)' = Held(u)
      BY <1>1, <2>2, QuietKeeps
    <3>2. AStack' = AStack
      BY <1>2, <1>3, <2>2, <3>1 DEF Data
    <3>3. AHeld' = AHeld
      BY <3>1 DEF AHeld
    <3> QED
      BY <3>2, <3>3
  <2>3. ASSUME NEW d \in Seq(Nodes), IInvWith(d)', Pushes(t, c, d)
        PROVE  /\ AHeld[t] # NoValue /\ AStack' = <<AHeld[t]>> \o AStack
               /\ AHeld' = [AHeld EXCEPT ![t] = NoValue]
    <3>1. /\ pc[t] = "pushCAS" /\ pc'[t] = "idle"
          /\ value'[t] = NoValue /\ node' = node /\ old' = old
          /\ \A u \in Threads : u # t => pc'[u] = pc[u] /\ value'[u] = value[u]
      BY <1>1, <2>3 DEF Pushes, Goto, IInvWith, TypeOK
    <3>2. PICK a \in Nodes : a = newNode[t] /\ node[a].data = value[t] /\ value[t] # NoValue
      <4>1. newNode[t] \in Nodes
        BY <1>1, <3>1, HandFacts DEF IInvWith, Pushing
      <4> QED
        BY <1>1, <3>1, <4>1 DEF IInvWith, LocalInv, Pushing
    <3>3. AHeld[t] = value[t] /\ AHeld[t] # NoValue
      BY <3>1, <3>2 DEF AHeld, Held
    <3>4. AHeld' = [AHeld EXCEPT ![t] = NoValue]
      BY <3>1 DEF AHeld, Held
    <3>5. PICK nd : nd = node
      OBVIOUS
    <3>6. d = <<a>> \o c
      BY <2>3, <3>2 DEF Pushes
    <3>7. [i \in 1 .. Len(d) |-> nd[d[i]].data]
          = <<nd[a].data>> \o [i \in 1 .. Len(c) |-> nd[c[i]].data]
      BY ONLY <3>6, c \in Seq(Nodes), a \in Nodes, ConsData
    <3>8. AStack' = <<AHeld[t]>> \o AStack
      BY <1>2, <1>3, <2>3, <3>1, <3>2, <3>3, <3>5, <3>7 DEF Data
    <3> QED
      BY <3>3, <3>4, <3>8
  <2>4. ASSUME NEW d \in Seq(Nodes), IInvWith(d)', Pops(t, c, d)
        PROVE  /\ AHeld[t] = NoValue /\ AStack # <<>>
               /\ AHeld' = [AHeld EXCEPT ![t] = Head(AStack)] /\ AStack' = Tail(AStack)
    <3>1. /\ pc[t] = "popCAS" /\ pc'[t] = "popDelete" /\ UNCHANGED <<node, value, old>>
          /\ c # <<>> /\ c[1] = old[t].ptr /\ d = Tail(c)
          /\ \A u \in Threads : u # t => pc'[u] = pc[u]
      BY <1>1, <2>4 DEF Pops, Goto, IInvWith, TypeOK
    <3>2. value[t] = NoValue
      BY <1>1, <3>1 DEF IInvWith, LocalInv, Popping
    <3>3. AHeld[t] = NoValue
      BY <3>1, <3>2 DEF AHeld, Held
    <3>4. PICK nd : nd = node
      OBVIOUS
    <3>5. /\ [i \in 1 .. Len(d) |-> nd[d[i]].data] = Tail([i \in 1 .. Len(c) |-> nd[c[i]].data])
          /\ [i \in 1 .. Len(c) |-> nd[c[i]].data] # <<>>
          /\ Head([i \in 1 .. Len(c) |-> nd[c[i]].data]) = nd[c[1]].data
      BY ONLY <3>1, c \in Seq(Nodes), TailData
    <3>6. AStack # <<>> /\ AStack' = Tail(AStack) /\ Head(AStack) = node[old[t].ptr].data
      BY <1>2, <1>3, <2>4, <3>1, <3>4, <3>5 DEF Data
    <3>7. AHeld' = [AHeld EXCEPT ![t] = Head(AStack)]
      BY <3>1, <3>6 DEF AHeld, Held
    <3> QED
      BY <3>3, <3>6, <3>7
  <2> QED
    BY <1>1, <2>1, <2>2, <2>3, <2>4, StepInv
<1> QED
  BY <1>4, <1>5

(* The lock-free stack implements StackSpec: a Push takes effect in its    *)
(* successful compare-exchange and a Pop in its own (CLockFreeStack.h), so *)
(* no value is popped twice and none is lost, although addresses come back *)
(* and Pop reads nodes others have deleted.                                *)
THEOREM Linearizable == TimelySpec => ActsAtomically
<1>1. Init => Atomic!Init
  BY InitAtomic DEF Atomic!Init, AStack, AHeld, Held
<1>2. IInv /\ [TimelyNext]_vars => [Atomic!Next]_(Atomic!vars)
  BY StepAtomic DEF Atomic!Next, Atomic!Push, Atomic!Pop, Atomic!vars, AStack, AHeld, Held
<1> QED
  BY <1>1, <1>2, Invariant, PTL DEF TimelySpec, ActsAtomically, Atomic!Spec
=============================================================================
