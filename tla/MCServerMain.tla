---------------------------- MODULE MCServerMain ----------------------------
(* ServerMain for TLC: the worker threads are interchangeable. *)
EXTENDS ServerMain, TLC

Symmetry == Permutations(Workers)
=============================================================================
