---------------------------- MODULE MCLanServer ----------------------------
(* CLanServer for TLC: the workers are interchangeable. *)
EXTENDS CLanServer, TLC

Symmetry == Permutations(Workers)
=============================================================================
