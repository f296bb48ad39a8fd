------------------------------ MODULE MCPacket ------------------------------
(* CPacket for TLC: addresses, sessions and workers are interchangeable. *)
EXTENDS CPacket, TLC

Symmetry ==
  Permutations(Packets) \cup Permutations(Sessions) \cup Permutations(Workers)
=============================================================================
