---------------------------- MODULE PacketStream ----------------------------
(***************************************************************************)
(* What the receiver of a byte stream promises the layer above it: it      *)
(* hands over the peer's packets, each once, in order and without a gap,   *)
(* only packets that are authentic, and only packets that arrived while    *)
(* the connection was open.  It may hand over those also after the         *)
(* connection was closed, until the next one.  RecvFraming implements it.  *)
(***************************************************************************)
EXTENDS Naturals, Sequences

VARIABLES
  packets,   \* what the peer sends: a sequence of [len, ok]
  arrived,   \* which of them arrived completely
  delivered, \* how many of them were handed over, as the sequence 1, 2, ...
  open

vars == <<packets, arrived, delivered, open>>

Init == packets = <<>> /\ arrived = {} /\ delivered = <<>> /\ open = FALSE

Connect ==
  /\ ~open
  /\ open' = TRUE
  /\ arrived' = {}
  /\ delivered' = <<>>
  /\ packets' # <<>>

Arrive ==
  /\ open
  /\ arrived \subseteq arrived' /\ arrived' \subseteq 1 .. Len(packets)
  /\ UNCHANGED <<packets, delivered, open>>

Deliver ==
  LET n == Len(delivered) + 1
  IN  /\ n \in arrived
      /\ packets[n].ok
      /\ delivered' = Append(delivered, n)
      /\ UNCHANGED <<packets, arrived, open>>

Close ==
  /\ open
  /\ open' = FALSE
  /\ UNCHANGED <<packets, arrived, delivered>>

Next == Connect \/ Arrive \/ Deliver \/ Close

Spec == Init /\ [][Next]_vars
=============================================================================
