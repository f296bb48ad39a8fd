--------------------------- MODULE MCDummyClient ---------------------------
(* DummyClient for TLC: the sessions are the connections of the clients.   *)
EXTENDS DummyClient

MCSids == Sessions
=============================================================================
