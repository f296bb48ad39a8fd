--------------------------- MODULE CLockFreeStack ---------------------------
(***************************************************************************)
(* The lock-free stack (myIOCP/CLockFreeStack.h).  m_pTop holds a pointer  *)
(* and a stamp in one word; Push and Pop read it, prepare a new word and   *)
(* install it with a compare-exchange.  A read of m_pTop, a read of a      *)
(* node's next and a compare-exchange are one step each.                   *)
(*                                                                         *)
(* The threads use the stack as a pool, as CLanServer::indexPool and       *)
(* CPacket::pool are used: it is filled before the threads start, and a    *)
(* thread pushes back a value it popped.                                   *)
(*                                                                         *)
(* Abstractions.                                                           *)
(*  - Nodes are the addresses the allocator has; it may hand out any free  *)
(*    one, so an address just deleted may come back at once.               *)
(*  - Pop reads oldPtr->next although another Pop may have deleted the     *)
(*    node: the value read from a node that is free, or allocated again    *)
(*    and not yet linked, is any pointer.                                  *)
(*  - The stamp has 17 bits in the code, StampMod values here.             *)
(***************************************************************************)
EXTENDS Integers, Sequences, FiniteSets

CONSTANTS
  Threads,
  Values,     \* what is pushed: a session index, a packet
  Nodes,      \* addresses
  nullptr,
  NoValue,
  StampMod    \* 2^17 in the code

ASSUME StampModAssumption == StampMod \in Nat \ {0}
ASSUME NodesAssumption ==
  /\ IsFiniteSet(Values) /\ IsFiniteSet(Nodes)
  /\ Cardinality(Values) <= Cardinality(Nodes)
  /\ nullptr \notin Nodes
  /\ NoValue \notin Values

Pointers == Nodes \cup {nullptr}

VARIABLES
  m_pTop,    \* [stamp, ptr]
  node,      \* the memory: node[a] is [data, next]
  free,      \* addresses not allocated
  pc,        \* where a thread is in Push or Pop
  value,     \* the value a thread holds, or NoValue
  newNode,   \* local to Push
  old,       \* local to Push and Pop
  next,      \* local to Pop: oldPtr->next
  overtaken  \* words the others installed since a thread read m_pTop (a
             \* count for TimelySpec, at most StampMod)

vars == <<m_pTop, node, free, pc, value, newNode, old, next, overtaken>>

Combine_FaultyNoStamp(stamp, ptr) == [stamp |-> 0, ptr |-> ptr]

Combine(stamp, ptr) == [stamp |-> stamp % StampMod, ptr |-> ptr]

(* The pool after the constructor pushed every value: the values in some   *)
(* order, linked.                                                          *)
Init ==
  /\ \E a \in [1 .. Cardinality(Values) -> Nodes],
        v \in [1 .. Cardinality(Values) -> Values] :
       LET n == Cardinality(Values)
           Pos(x) == CHOOSE i \in 1 .. n : a[i] = x
           Linked == {a[i] : i \in 1 .. n}
       IN  /\ \A i, j \in 1 .. n : i # j => a[i] # a[j] /\ v[i] # v[j]
           /\ m_pTop = Combine(n, IF n = 0 THEN nullptr ELSE a[n])
           /\ node = [x \in Nodes |->
                IF x \notin Linked THEN [data |-> NoValue, next |-> nullptr]
                ELSE [data |-> v[Pos(x)],
                      next |-> IF Pos(x) = 1 THEN nullptr ELSE a[Pos(x) - 1]]]
           /\ free = Nodes \ Linked
  /\ pc = [t \in Threads |-> "idle"]
  /\ value = [t \in Threads |-> NoValue]
  /\ newNode = [t \in Threads |-> nullptr]
  /\ old = [t \in Threads |-> Combine(0, nullptr)]
  /\ next = [t \in Threads |-> nullptr]
  /\ overtaken = [t \in Threads |-> 0]
-----------------------------------------------------------------------------
Goto(t, label) == pc' = [pc EXCEPT ![t] = label]

ReadTop(t) == old' = [old EXCEPT ![t] = m_pTop]

InWindow(t) == pc[t] \in {"pushCAS", "popNext", "popCAS"}

Installed(t) ==
  overtaken' = [u \in Threads |->
                  IF u = t \/ ~InWindow(u) THEN 0
                  ELSE IF overtaken[u] < StampMod THEN overtaken[u] + 1
                  ELSE StampMod]

CAS_FaultyPointerOnly(t, new) ==
  m_pTop.ptr = old[t].ptr /\ m_pTop' = new /\ Installed(t)

CAS_FaultySwapped(t, new) == m_pTop = old[t] /\ UNCHANGED m_pTop /\ Installed(t)

(* InterlockedCompareExchange64 *)
CAS(t, new) == m_pTop = old[t] /\ m_pTop' = new /\ Installed(t)

CASFails(t) ==
  /\ m_pTop # old[t]
  /\ overtaken' = [overtaken EXCEPT ![t] = 0]
  /\ UNCHANGED m_pTop

(* new Node<T>, and its data *)
PushAlloc(t) ==
  /\ pc[t] = "idle"
  /\ value[t] # NoValue
  /\ \E a \in free :
       /\ free' = free \ {a}
       /\ newNode' = [newNode EXCEPT ![t] = a]
       /\ node' = [node EXCEPT ![a].data = value[t]]
  /\ Goto(t, "pushRead")
  /\ UNCHANGED <<m_pTop, value, old, next, overtaken>>

PushRead(t) ==
  /\ pc[t] = "pushRead"
  /\ ReadTop(t)
  /\ node' = [node EXCEPT ![newNode[t]].next = m_pTop.ptr]
  /\ Goto(t, "pushCAS")
  /\ UNCHANGED <<m_pTop, free, value, newNode, next, overtaken>>

PushCAS(t) ==
  /\ pc[t] = "pushCAS"
  /\ \/ /\ CAS(t, Combine(old[t].stamp + 1, newNode[t]))
        /\ value' = [value EXCEPT ![t] = NoValue]
        /\ newNode' = [newNode EXCEPT ![t] = nullptr]
        /\ Goto(t, "idle")
     \/ /\ CASFails(t)
        /\ Goto(t, "pushRead")
        /\ UNCHANGED <<value, newNode>>
  /\ UNCHANGED <<node, free, old, next>>

(* An empty stack ends Pop at once.  A thread holds one value at a time: a *)
(* user that pops several, as CPacket::Alloc's do, is as many threads.     *)
PopRead(t) ==
  /\ \/ pc[t] = "idle" /\ value[t] = NoValue
     \/ pc[t] = "popRead"
  /\ ReadTop(t)
  /\ Goto(t, IF m_pTop.ptr = nullptr THEN "idle" ELSE "popNext")
  /\ UNCHANGED <<m_pTop, node, free, value, newNode, next, overtaken>>

(* Is next of this node undefined?                                         *)
Undefined(a) == a \in free \/ \E t \in Threads : pc[t] = "pushRead" /\ newNode[t] = a

PopNext(t) ==
  /\ pc[t] = "popNext"
  /\ \E p \in IF Undefined(old[t].ptr) THEN Pointers ELSE {node[old[t].ptr].next} :
       next' = [next EXCEPT ![t] = p]
  /\ Goto(t, "popCAS")
  /\ UNCHANGED <<m_pTop, node, free, value, newNode, old, overtaken>>

PopCAS(t) ==
  /\ pc[t] = "popCAS"
  /\ \/ CAS(t, Combine(old[t].stamp + 1, next[t])) /\ Goto(t, "popDelete")
     \/ CASFails(t) /\ Goto(t, "popRead")
  /\ UNCHANGED <<node, free, value, newNode, old, next>>

PopDelete_FaultyDeleteFirst(t) ==
  /\ pc[t] = "popDelete"
  /\ \E v \in Values : value' = [value EXCEPT ![t] = v]
  /\ free' = free \cup {old[t].ptr}
  /\ Goto(t, "idle")
  /\ UNCHANGED <<m_pTop, node, newNode, old, next, overtaken>>

(* *out = temp->data; delete temp *)
PopDelete(t) ==
  /\ pc[t] = "popDelete"
  /\ value' = [value EXCEPT ![t] = node[old[t].ptr].data]
  /\ free' = free \cup {old[t].ptr}
  /\ Goto(t, "idle")
  /\ UNCHANGED <<m_pTop, node, newNode, old, next, overtaken>>

Step(t) ==
  \/ PushAlloc(t) \/ PushRead(t) \/ PushCAS(t)
  \/ PopRead(t) \/ PopNext(t) \/ PopCAS(t) \/ PopDelete(t)

Next == \E t \in Threads : Step(t)

Spec == Init /\ [][Next]_vars

(* Between a thread's read of m_pTop and its compare-exchange the others   *)
(* install fewer than StampMod words.                                      *)
NoWrap == \A t \in Threads : overtaken'[t] < StampMod

TimelyNext == Next /\ NoWrap

TimelySpec == Init /\ [][TimelyNext]_vars

(* Every thread runs. *)
LiveSpec == TimelySpec /\ \A t \in Threads : WF_vars(Step(t) /\ NoWrap)
-----------------------------------------------------------------------------
(* Properties. *)

(* Every variable holds a value of its kind.                               *)
TypeOK ==
  /\ m_pTop \in [stamp : 0 .. StampMod - 1, ptr : Pointers]
  /\ node \in [Nodes -> [data : Values \cup {NoValue}, next : Pointers]]
  /\ free \in SUBSET Nodes
  /\ pc \in [Threads -> {"idle", "pushRead", "pushCAS", "popRead", "popNext",
                         "popCAS", "popDelete"}]
  /\ value \in [Threads -> Values \cup {NoValue}]
  /\ newNode \in [Threads -> Pointers]
  /\ old \in [Threads -> [stamp : 0 .. StampMod - 1, ptr : Pointers]]
  /\ next \in [Threads -> Pointers]
  /\ overtaken \in [Threads -> 0 .. StampMod]

(* The nodes of the stack, the top first: the pointers lead from m_pTop    *)
(* along next to nullptr.                                                  *)
IsChain(c) ==
  /\ m_pTop.ptr = IF c = <<>> THEN nullptr ELSE c[1]
  /\ \A i \in 1 .. Len(c) : node[c[i]].next = IF i = Len(c) THEN nullptr ELSE c[i + 1]

Chains ==
  {c \in UNION {[1 .. n -> Nodes] : n \in 0 .. Cardinality(Nodes)} : IsChain(c)}

Linked == IF Chains = {} THEN <<>> ELSE CHOOSE c \in Chains : TRUE

(* The pointers lead to nullptr, and every address is in one place: in the *)
(* stack; in the hands of the one thread that is pushing it or has taken   *)
(* it off; or free.  So no node is leaked, deleted twice, or linked after  *)
(* it was deleted, although addresses come back while other threads still  *)
(* hold them in old.                                                       *)
NodesExact ==
  /\ Chains # {}
  /\ \A a \in Nodes :
       Cardinality({t \in Threads : newNode[t] = a})
         + Cardinality({t \in Threads : pc[t] = "popDelete" /\ old[t].ptr = a})
         + (IF \E i \in 1 .. Len(Linked) : Linked[i] = a THEN 1 ELSE 0)
         + (IF a \in free THEN 1 ELSE 0)
       = 1

(* A Pop whose compare-exchange is going to succeed installs the node that *)
(* really follows the top: when the address it read has been taken off and *)
(* pushed again in the meantime, the stamp differs.                        *)
StampTellsReuse ==
  \A t \in Threads :
    pc[t] = "popCAS" /\ m_pTop = old[t] => next[t] = node[old[t].ptr].next

Atomic == INSTANCE StackSpec WITH
  stack <- [i \in 1 .. Len(Linked) |-> node[Linked[i]].data],
  held <- [t \in Threads |-> IF pc[t] = "popDelete" THEN node[old[t].ptr].data
                             ELSE value[t]]

(* Push and Pop take effect in one step, their successful compare-exchange *)
(* (the stack of StackSpec): a value popped by one thread is never popped  *)
(* by another, and none disappears.                                        *)
ActsAtomically == Atomic!Spec

(* As long as threads use the pool, operations complete: a compare-        *)
(* exchange fails only because another one succeeded.  Every thread runs   *)
(* here; lock freedom proper would let all but one of them stand still.    *)
LockFree == []<><<m_pTop' # m_pTop>>_vars
=============================================================================
