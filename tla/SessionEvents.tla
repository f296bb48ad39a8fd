--------------------------- MODULE SessionEvents ---------------------------
(***************************************************************************)
(* What the network engine promises the content: the order of the messages *)
(* JOIN, RECV and LEAVE about the sessions of one slot (README of the      *)
(* repository: the workers push, one Update thread owns the content).      *)
(* CLanServer implements it; CChatServer is fed by it.                     *)
(*                                                                         *)
(* Of each slot it keeps the generation of the last session announced by   *)
(* OnClientJoin, heard of by OnRecv and ended by OnClientLeave.            *)
(***************************************************************************)
EXTENDS Naturals

CONSTANTS Slots, Generations

VARIABLES joined, received, left

events == <<joined, received, left>>

Init ==
  /\ joined = [s \in Slots |-> 0]
  /\ received = [s \in Slots |-> 0]
  /\ left = [s \in Slots |-> 0]

(* A session is announced when every earlier session of its slot was ended *)
(* and its own end has not been.                                           *)
Join(s) ==
  /\ left[s] >= joined[s]
  /\ \E g \in Generations :
       /\ g > left[s]
       /\ joined' = [joined EXCEPT ![s] = g]
  /\ UNCHANGED <<received, left>>

(* A packet belongs to the session announced last.  It may follow the      *)
(* LEAVE of its session: a worker in OnRecvComplete is not stopped by      *)
(* another thread's CloseSession.                                          *)
Recv(s) ==
  /\ joined[s] # 0
  /\ received' = [received EXCEPT ![s] = joined[s]]
  /\ UNCHANGED <<joined, left>>

(* A session is ended once, after its announcement; one that could not be  *)
(* associated with the completion port is ended without an announcement.   *)
Leave(s) ==
  /\ \E g \in Generations :
       /\ g > left[s]
       /\ g >= joined[s]
       /\ joined[s] > left[s] => g = joined[s]
       /\ left' = [left EXCEPT ![s] = g]
  /\ UNCHANGED <<joined, received>>

Next == \E s \in Slots : Join(s) \/ Recv(s) \/ Leave(s)

Spec == Init /\ [][Next]_events
=============================================================================
