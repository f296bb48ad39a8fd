----------------------------- MODULE StackSpec -----------------------------
(***************************************************************************)
(* What CLockFreeStack promises its users (the session index pool of       *)
(* CLanServer, the packet pool of CPacket): a stack whose Push and Pop     *)
(* take effect in one step, so that a value is in the stack or held by one *)
(* thread, and never both.                                                 *)
(***************************************************************************)
EXTENDS Sequences

CONSTANTS Threads, Values, NoValue

VARIABLES
  stack,    \* the values in the stack, the top first
  held      \* the value a thread popped and did not push yet, or NoValue

vars == <<stack, held>>

Init ==
  /\ stack \in Seq(Values)
  /\ held = [t \in Threads |-> NoValue]

Push(t) ==
  /\ held[t] # NoValue
  /\ stack' = <<held[t]>> \o stack
  /\ held' = [held EXCEPT ![t] = NoValue]

Pop(t) ==
  /\ held[t] = NoValue
  /\ stack # <<>>
  /\ held' = [held EXCEPT ![t] = Head(stack)]
  /\ stack' = Tail(stack)

Next == \E t \in Threads : Push(t) \/ Pop(t)

Spec == Init /\ [][Next]_vars
=============================================================================
