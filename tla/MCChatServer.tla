---------------------------- MODULE MCChatServer ----------------------------
(* CChatServer for TLC. *)
EXTENDS CChatServer, TLC

(* The sessions are interchangeable. *)
Symmetry == Permutations(Sids)
=============================================================================
