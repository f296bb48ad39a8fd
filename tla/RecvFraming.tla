---------------------------- MODULE RecvFraming ----------------------------
(***************************************************************************)
(* How a session cuts the byte stream of its client into packets           *)
(* (CLanServer::PostRecv and OnRecvComplete on the session's CRingBuffer,  *)
(* CPacket::Decode).  TCP may deliver the stream in pieces of any size.    *)
(* CLanServer shows that a session has one receive at a time (OneReceive), *)
(* so no other thread touches the ring; but any other thread may close the *)
(* session (full send queue, failed send, Stop) between two of the steps,  *)
(* and OnRecvComplete does not test closeFlag.                             *)
(*                                                                         *)
(* Abstractions.                                                           *)
(*  - A byte is [pkt, off]: the off-th byte of the client's pkt-th packet. *)
(*    The length field is read from a packet's first byte; a first byte    *)
(*    that is not one gives any length.                                    *)
(*  - Decode accepts exactly the bytes of one packet whose code matches;   *)
(*    ok says whether the client's packet has a matching one.  What is     *)
(*    encrypted and the text of the packet are left out.                   *)
(*  - OnRecv is delivered: the indices of the packets handed to the        *)
(*    content, in order.                                                   *)
(***************************************************************************)
EXTENDS CRingBuffer

CONSTANTS
  PKT_HEADER_SIZE,
  PACKET_BUFFER_SIZE,
  MaxLen,        \* bound: the largest length a client sends
  MaxPackets,    \* bound: packets of the first session; the n-th one sends
                 \* at most MaxPackets \div n
  MaxSessions    \* bound: sessions that use the slot one after the other

ASSUME SizesAssumption ==
  /\ PKT_HEADER_SIZE \in 1 .. maxSize - 1
  /\ PACKET_BUFFER_SIZE = maxSize      \* both are 4096
  /\ MaxLen \in Nat /\ MaxPackets \in Nat /\ MaxSessions \in Nat

(* A cell may hold any byte a client sends.                                *)
ASSUME ByteAssumption ==
  [pkt : 1 .. MaxPackets, off : 1 .. PKT_HEADER_SIZE + MaxLen] \subseteq Byte

VARIABLES
  packets,     \* what the client sends: a sequence of [len, ok]
  stream,      \* its bytes that have not arrived yet
  delivered,
  phase,       \* "posted": a WSARecv is pending, "complete": it received got
               \* bytes, "parse": a worker runs OnRecvComplete, "done"
  got,         \* how many first bytes of stream the WSARecv has received
  cause,       \* who set closeFlag and why; "none" when it is 0
  sock,        \* "open", or "invalid" after closesocket
  session      \* number of the session that uses the slot

vars == <<ringVars, packets, stream, delivered, phase, got, cause, sock, session>>

Bytes(i) == [off \in 1 .. PKT_HEADER_SIZE + packets[i].len |->
               [pkt |-> i, off |-> off]]

(* How many bytes of the stream of packets ps come before each of them,    *)
(* and how many there are.                                                 *)
Starts(ps) ==
  LET start[i \in 1 .. Len(ps) + 1] ==
        IF i = 1 THEN 0 ELSE start[i - 1] + PKT_HEADER_SIZE + ps[i - 1].len
  IN  start

(* The a-th byte of that stream. *)
ByteAt(ps, a) ==
  LET i == CHOOSE j \in 1 .. Len(ps) : Starts(ps)[j] < a /\ a <= Starts(ps)[j + 1]
  IN  [pkt |-> i, off |-> a - Starts(ps)[i]]

(* The stream from its i-th packet on. *)
StreamFrom(ps, i) ==
  [k \in 1 .. Starts(ps)[Len(ps) + 1] - Starts(ps)[i] |->
     ByteAt(ps, Starts(ps)[i] + k)]

ClientSends ==
  /\ packets' \in UNION {[1 .. n -> [len : 0 .. MaxLen, ok : BOOLEAN]] :
                           n \in 1 .. MaxPackets \div session'}
  /\ stream' = StreamFrom(packets', 1)

Init ==
  /\ RingInit
  /\ packets = <<>>
  /\ stream = <<>>
  /\ delivered = <<>>
  /\ phase = "done"
  /\ got = 0
  /\ cause = "none"
  /\ sock = "invalid"
  /\ session = 0

(* InitSession clears the ring; the accept thread posts the first receive. *)
(* The slot is free: nobody closes or parses the session before it.        *)
InitSession ==
  /\ phase = "done" /\ sock = "invalid"
  /\ session < MaxSessions
  /\ session' = session + 1
  /\ ClientSends
  /\ delivered' = <<>>
  /\ phase' = "posted"
  /\ got' = 0
  /\ cause' = "none"
  /\ sock' = "open"
  /\ Clear
  /\ UNCHANGED buffer

(* CloseSession by the worker that has the receive, after which it does    *)
(* nothing more with the session: the first to set closeFlag closes the    *)
(* socket, and nobody else.                                                *)
CloseSession(why) ==
  /\ phase' = "done"
  /\ IF cause = "none" THEN cause' = why /\ sock' = "invalid"
     ELSE UNCHANGED <<cause, sock>>

(* CloseSession by any other thread, at any moment: it sets closeFlag ...  *)
OtherCloses ==
  /\ sock = "open" /\ cause = "none"
  /\ cause' = "other"
  /\ UNCHANGED <<ringVars, packets, stream, delivered, phase, got, sock, session>>

(* ... and closes the socket. *)
CloseSocket ==
  /\ sock = "open" /\ cause = "other"
  /\ sock' = "invalid"
  /\ UNCHANGED <<ringVars, packets, stream, delivered, phase, got, cause, session>>

(* The receive posted for DirectEnqueueSize bytes gets some of them.       *)
RecvArrives ==
  /\ phase = "posted" /\ sock = "open"
  /\ got' \in 1 .. DirectEnqueueSize
  /\ got' <= Len(stream)
  /\ phase' = "complete"
  /\ UNCHANGED <<ringVars, packets, stream, delivered, cause, sock, session>>

(* A worker dequeues its completion, be the socket closed by then or not.  *)
RecvComplete ==
  /\ phase = "complete"
  /\ Store(SubSeq(stream, 1, got))
  /\ MoveWritePos(got)
  /\ stream' = SubSeq(stream, got + 1, Len(stream))
  /\ phase' = "parse"
  /\ got' = 0
  /\ UNCHANGED <<front, packets, delivered, cause, sock, session>>

(* The receive fails, is cancelled or ends with 0 bytes. *)
Disconnected ==
  /\ phase = "posted"
  /\ CloseSession("client")
  /\ UNCHANGED <<ringVars, packets, stream, delivered, got, session>>

HasHeader == UseSize >= PKT_HEADER_SIZE

(* The values len may have. *)
Lens ==
  LET first == Peek(PKT_HEADER_SIZE)[1]
  IN  IF first # NoByte /\ first.off = 1 THEN {packets[first.pkt].len}
      ELSE 0 .. MaxLen

TooLong(len) == len > PACKET_BUFFER_SIZE - PKT_HEADER_SIZE

Complete(len) == UseSize >= PKT_HEADER_SIZE + len

Decodes_FaultyUnchecked(bytes) == bytes[1] # NoByte

(* CPacket::Decode returns a length, not -1. *)
Decodes(bytes) ==
  /\ bytes[1] # NoByte
  /\ packets[bytes[1].pkt].ok
  /\ bytes = Bytes(bytes[1].pkt)

RingFull_FaultyNoRoomForHeader == FreeSize < PKT_HEADER_SIZE

RingFull == DirectEnqueueSize = 0

(* One round of the loop of OnRecvComplete: a packet is taken out ... *)
TakePacket ==
  /\ phase = "parse"
  /\ HasHeader
  /\ \E len \in Lens :
       LET buf == Peek(PKT_HEADER_SIZE + len)
       IN  /\ ~TooLong(len)
           /\ Complete(len)
           /\ MoveReadPos(PKT_HEADER_SIZE + len)
           /\ \/ /\ Decodes(buf)
                 /\ delivered' = Append(delivered, buf[1].pkt)
                 /\ UNCHANGED <<phase, cause, sock>>
              \/ /\ ~Decodes(buf)
                 /\ CloseSession("mac")
                 /\ UNCHANGED delivered
  /\ UNCHANGED <<buffer, rear, packets, stream, got, session>>

(* ... or the length makes no sense ... *)
RejectLength ==
  /\ phase = "parse"
  /\ HasHeader
  /\ \E len \in Lens : TooLong(len)
  /\ CloseSession("length")
  /\ UNCHANGED <<ringVars, packets, stream, delivered, got, session>>

(* WSARecv succeeds only on an open socket, and may always fail.           *)
PostRecv ==
  \/ sock = "open" /\ phase' = "posted" /\ UNCHANGED <<cause, sock>>
  \/ CloseSession("client")

PostNext_FaultyReturnsEarly ==
  /\ phase = "parse"
  /\ \/ ~HasHeader /\ phase' = "idle" /\ UNCHANGED <<cause, sock>>
     \/ /\ HasHeader /\ \E len \in Lens : ~TooLong(len) /\ ~Complete(len)
        /\ \/ RingFull /\ CloseSession("full")
           \/ ~RingFull /\ PostRecv
  /\ UNCHANGED <<ringVars, packets, stream, delivered, got, session>>

(* ... or the loop ends, and the next receive is posted if there is room.  *)
PostNext ==
  /\ phase = "parse"
  /\ ~HasHeader \/ \E len \in Lens : ~TooLong(len) /\ ~Complete(len)
  /\ \/ RingFull /\ CloseSession("full")
     \/ ~RingFull /\ PostRecv
  /\ UNCHANGED <<ringVars, packets, stream, delivered, got, session>>

Next ==
  \/ InitSession \/ OtherCloses \/ CloseSocket
  \/ RecvArrives \/ RecvComplete \/ Disconnected
  \/ TakePacket \/ RejectLength \/ PostNext

Spec == Init /\ [][Next]_vars

(* Bytes sent arrive, their completion is dequeued, and the worker runs.   *)
LiveSpec ==
  Spec /\ WF_vars(RecvArrives \/ RecvComplete \/ TakePacket \/ RejectLength \/ PostNext)
-----------------------------------------------------------------------------
(* Properties. *)

(* Every variable holds a value of its kind.                               *)
TypeOK ==
  /\ buffer \in [Cells -> Byte \cup {NoByte}]
  /\ front \in Cells /\ rear \in Cells
  /\ phase \in {"posted", "complete", "parse", "done"}
  /\ got \in 0 .. Len(stream)
  /\ cause \in {"none", "other", "client", "mac", "length", "full"}
  /\ sock \in {"open", "invalid"}
  /\ session \in 0 .. MaxSessions
  /\ delivered \in Seq(1 .. MaxPackets)

(* Until the last completion of a session is handled, also while another   *)
(* thread closes it, the bytes in the ring followed by those not yet in it *)
(* are exactly its client's stream after the packets delivered: no byte is *)
(* lost, overwritten, repeated or left from the session before, wherever   *)
(* the ring wraps and however TCP cut the stream.                          *)
RingIsStream ==
  phase # "done" =>
    Peek(UseSize) \o stream = StreamFrom(packets, Len(delivered) + 1)

(* The packets of which WSARecv has received every byte. *)
Arrived ==
  {i \in 1 .. Len(packets) :
     Starts(packets)[i + 1] <= Starts(packets)[Len(packets) + 1] - Len(stream) + got}

Stream == INSTANCE PacketStream WITH open <- sock = "open", arrived <- Arrived

(* The content gets the client's packets in order, without a gap, each     *)
(* once, and only those whose code matches.  A worker goes on delivering   *)
(* after another thread closed the session, but only packets that had      *)
(* arrived before the socket was closed: OnRecvComplete implements         *)
(* PacketStream.                                                           *)
DeliversStream == Stream!Spec

(* The worker closes a session only for a packet it cannot take: a wrong   *)
(* code, a length over the limit, or a packet of PACKET_BUFFER_SIZE bytes, *)
(* which the length test lets pass and the ring can never hold.            *)
ClosedForCause ==
  cause \in {"mac", "length", "full"} =>
    LET p == packets[Len(delivered) + 1]
    IN  ~p.ok \/ PKT_HEADER_SIZE + p.len >= PACKET_BUFFER_SIZE

(* Every packet of a client that stays connected is delivered, unless the  *)
(* session is closed: another receive is posted after every one.           *)
AllDelivered ==
  (sock = "open" /\ cause = "none")
    ~> (cause # "none" \/ Len(delivered) = Len(packets))
=============================================================================
