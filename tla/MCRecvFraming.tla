--------------------------- MODULE MCRecvFraming ---------------------------
(* RecvFraming for TLC. *)
EXTENDS RecvFraming

MCByte == [pkt : 1 .. 3, off : 1 .. 7]
=============================================================================
