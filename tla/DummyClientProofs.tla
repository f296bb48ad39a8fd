------------------------- MODULE DummyClientProofs -------------------------
(***************************************************************************)
(* Proofs about DummyClient, for any number of bots, tamper clients,       *)
(* connections, timeouts, rooms and limits: the final line of RunAuto      *)
(* balances, and only a session whose ROOM_ENTER overtook the answer to    *)
(* its login can be in a room without its player being there.              *)
(*                                                                         *)
(* The second follows a session's logins and its one ROOM_ENTER on their   *)
(* way: the wire, contentQ, and for a login the Pipeline, for an enter the *)
(* room.  There is never more than one enter, and, but for the sessions of *)
(* early, never a login with it.                                           *)
(***************************************************************************)
EXTENDS DummyClient, CChatServerProofs

(* Where a queue holds an entry of a kind, and that it holds no two. *)
Where(q, kind) == {i \in 1 .. Len(q) : q[i] \in kind}
Single(A) == \A i, j \in A : i = j

(* Packets of some types on the wire w of session s, and in the queue q. *)
WirePacket == Packets \cup {Tampered}
Typed(T) == {p \in WirePacket : p.type \in T}
Received(s, T) == {m \in Message : m.sid = s /\ m.pkt.type \in T}

Absent(s, w, q, T) == Where(w, Typed(T)) = {} /\ Where(q, Received(s, T)) = {}
AtMostOne(s, w, q, T) ==
  /\ Single(Where(w, Typed(T))) /\ Single(Where(q, Received(s, T)))
  /\ Where(w, Typed(T)) = {} \/ Where(q, Received(s, T)) = {}

(* The logins of s that the database has not answered. *)
Accepted(s) == {x \in Entry : x.sid = s /\ x.type = "login"}
-----------------------------------------------------------------------------
(* The queues *)

(* An entry is added. *)
LEMMA WhereAppend ==
  ASSUME NEW S, NEW q \in Seq(S), NEW x \in S, NEW kind
  PROVE  /\ x \notin kind => Where(Append(q, x), kind) = Where(q, kind)
         /\ Where(q, kind) = {} => Single(Where(Append(q, x), kind))
<1>1. PICK b : b = Append(q, x)
  OBVIOUS
<1>2. /\ Len(b) = Len(q) + 1 /\ Len(q) \in Nat
      /\ \A i \in 1 .. Len(q) : b[i] = q[i]
      /\ b[Len(q) + 1] = x
      /\ \A i \in 1 .. Len(b) : i \in 1 .. Len(q) \/ i = Len(q) + 1
      /\ \A i \in 1 .. Len(q) : i \in 1 .. Len(b)
  BY <1>1, AppendEntries
<1>3. x \notin kind => Where(b, kind) = Where(q, kind)
  BY <1>2 DEF Where
<1>4. Where(q, kind) = {} => Single(Where(b, kind))
  BY <1>2 DEF Where, Single
<1> QED
  BY <1>1, <1>3, <1>4

(* The head is taken. *)
LEMMA WhereTail ==
  ASSUME NEW S, NEW q \in Seq(S), q # <<>>, NEW kind
  PROVE  /\ Where(q, kind) = {} => Where(Tail(q), kind) = {} /\ Head(q) \notin kind
         /\ Single(Where(q, kind)) => Single(Where(Tail(q), kind))
         /\ Single(Where(q, kind)) /\ Head(q) \in kind => Where(Tail(q), kind) = {}
<1>1. PICK b, h : b = Tail(q) /\ h = Head(q)
  OBVIOUS
<1>2. /\ 1 \in 1 .. Len(q) /\ h = q[1] /\ Len(q) \in Nat
      /\ \A i \in 1 .. Len(b) : i + 1 \in 1 .. Len(q) /\ b[i] = q[i + 1]
  BY <1>1, TailEntries
<1>3. \A i \in Where(b, kind) : i \in Nat /\ i > 0 /\ i + 1 \in Where(q, kind)
  <2>1. \A i \in 1 .. Len(b) : i \in Nat /\ i > 0
    OBVIOUS
  <2> QED
    BY <1>2, <2>1 DEF Where
<1>4. h \in kind => 1 \in Where(q, kind)
  BY <1>2 DEF Where
<1>5. Where(q, kind) = {} => Where(b, kind) = {} /\ h \notin kind
  BY <1>3, <1>4
<1>6. Single(Where(q, kind)) => Single(Where(b, kind))
  <2> SUFFICES ASSUME Single(Where(q, kind)), NEW i \in Where(b, kind), NEW j \in Where(b, kind)
               PROVE  i = j
    BY DEF Single
  <2>1. i + 1 = j + 1 /\ i \in Nat /\ j \in Nat
    BY <1>3 DEF Single
  <2> QED
    BY <2>1
<1>7. Single(Where(q, kind)) /\ h \in kind => Where(b, kind) = {}
  <2> SUFFICES ASSUME Single(Where(q, kind)), h \in kind, NEW i \in Where(b, kind)
               PROVE  FALSE
    OBVIOUS
  <2>1. i + 1 = 1 /\ i \in Nat /\ i > 0
    BY <1>3, <1>4 DEF Single
  <2> QED
    BY <2>1
<1> QED
  BY <1>1, <1>5, <1>6, <1>7

(* Nothing is in an empty queue, and none is at most one. *)
LEMMA WhereEmpty ==
  ASSUME NEW kind
  PROVE  Where(<<>>, kind) = {} /\ Single({})
BY DEF Where, Single

(* Absence is at most one; losing the wire's packets keeps both. *)
LEMMA Fewer ==
  ASSUME NEW s, NEW w, NEW q, NEW T
  PROVE  /\ Absent(s, w, q, T) => AtMostOne(s, w, q, T)
         /\ Absent(s, w, q, T) => Absent(s, <<>>, q, T)
         /\ AtMostOne(s, w, q, T) => AtMostOne(s, <<>>, q, T)
BY WhereEmpty DEF Absent, AtMostOne, Single

(* SendAll puts a packet on the wire. *)
LEMMA WireGrows ==
  ASSUME NEW s, NEW w \in Seq(WirePacket), NEW q, NEW T, NEW p \in WirePacket
  PROVE  /\ p.type \notin T /\ Absent(s, w, q, T) => Absent(s, Append(w, p), q, T)
         /\ p.type \notin T /\ AtMostOne(s, w, q, T) => AtMostOne(s, Append(w, p), q, T)
         /\ Absent(s, w, q, T) => AtMostOne(s, Append(w, p), q, T)
<1>1. p.type \notin T => p \notin Typed(T)
  BY DEF Typed
<1>2. /\ p.type \notin T => Where(Append(w, p), Typed(T)) = Where(w, Typed(T))
      /\ Where(w, Typed(T)) = {} => Single(Where(Append(w, p), Typed(T)))
  BY <1>1, WhereAppend
<1> QED
  BY <1>2, WhereEmpty DEF Absent, AtMostOne

(* A network thread pushes a message of another session, or of another     *)
(* type.                                                                   *)
LEMMA QueueGrows ==
  ASSUME NEW s, NEW w, NEW q \in Seq(Message), NEW T, NEW m \in Message,
         m.sid # s \/ m.pkt.type \notin T
  PROVE  /\ Absent(s, w, q, T) => Absent(s, w, Append(q, m), T)
         /\ AtMostOne(s, w, q, T) => AtMostOne(s, w, Append(q, m), T)
<1>1. m \notin Received(s, T)
  BY DEF Received
<1>2. Where(Append(q, m), Received(s, T)) = Where(q, Received(s, T))
  BY <1>1, WhereAppend
<1> QED
  BY <1>2 DEF Absent, AtMostOne

(* OnRecvComplete takes a packet from the wire to contentQ. *)
LEMMA PacketMoves ==
  ASSUME NEW s, NEW w \in Seq(WirePacket), w # <<>>, NEW q \in Seq(Message), NEW T,
         NEW m \in Message, m.sid = s, m.pkt = Head(w)
  PROVE  /\ Absent(s, w, q, T) => Absent(s, Tail(w), Append(q, m), T)
         /\ AtMostOne(s, w, q, T) => AtMostOne(s, Tail(w), Append(q, m), T)
<1>1. Head(w) \in WirePacket
  BY TailEntries
<1>2. m \in Received(s, T) <=> Head(w) \in Typed(T)
  BY <1>1 DEF Received, Typed
<1>3. /\ Where(w, Typed(T)) = {} => Where(Tail(w), Typed(T)) = {} /\ Head(w) \notin Typed(T)
      /\ Single(Where(w, Typed(T))) => Single(Where(Tail(w), Typed(T)))
      /\ Single(Where(w, Typed(T))) /\ Head(w) \in Typed(T) => Where(Tail(w), Typed(T)) = {}
  BY WhereTail
<1>4. /\ m \notin Received(s, T) =>
           Where(Append(q, m), Received(s, T)) = Where(q, Received(s, T))
      /\ Where(q, Received(s, T)) = {} => Single(Where(Append(q, m), Received(s, T)))
  BY WhereAppend
<1>5. Absent(s, w, q, T) => Absent(s, Tail(w), Append(q, m), T)
  BY <1>2, <1>3, <1>4 DEF Absent
<1>6. ASSUME AtMostOne(s, w, q, T)
      PROVE  AtMostOne(s, Tail(w), Append(q, m), T)
  <2>1. CASE Head(w) \in Typed(T)
    <3>1. Where(w, Typed(T)) # {}
      BY <1>3, <2>1
    <3> QED
      BY <1>3, <1>4, <1>6, <2>1, <3>1, WhereEmpty DEF AtMostOne
  <2>2. CASE Head(w) \notin Typed(T)
    BY <1>2, <1>3, <1>4, <1>6, <2>2 DEF AtMostOne
  <2> QED
    BY <2>1, <2>2
<1> QED
  BY <1>5, <1>6

(* The Update thread takes a message. *)
LEMMA MessageTaken ==
  ASSUME NEW s, NEW w, NEW q \in Seq(Message), q # <<>>, NEW T
  PROVE  /\ Absent(s, w, q, T) => Absent(s, w, Tail(q), T) /\ Head(q) \notin Received(s, T)
         /\ AtMostOne(s, w, q, T) => AtMostOne(s, w, Tail(q), T)
         /\ AtMostOne(s, w, q, T) /\ Head(q) \in Received(s, T) => Absent(s, w, Tail(q), T)
<1>1. PICK R : R = Received(s, T)
  OBVIOUS
<1>2. /\ Where(q, R) = {} => Where(Tail(q), R) = {} /\ Head(q) \notin R
      /\ Single(Where(q, R)) => Single(Where(Tail(q), R))
      /\ Single(Where(q, R)) /\ Head(q) \in R => Where(Tail(q), R) = {}
  BY WhereTail
<1> QED
  BY <1>1, <1>2 DEF Absent, AtMostOne
-----------------------------------------------------------------------------
(* The invariant *)

(* The parts of the state that are typed; the rest is CChatServer's.       *)
ClientTypes ==
  /\ at \in [Clients -> {"connect", "signup", "signupDrain", "login", "loginDrain",
                         "enter", "enterDrain", "chat", "chatDrain", "close",
                         "failed", "exit", "normalDrain", "tamper", "select"}]
  /\ cycle \in [Clients -> 0 .. Cycles]
  /\ toServer \in [Sessions -> Seq(WirePacket)]
  /\ \A c \in Clients : at[c] \notin {"connect", "exit"} => cycle[c] > 0

InNoRoom(s) == \A r \in RoomNos : s \notin rooms[r]
Accepts(s) == Where(Pipeline, Accepted(s))

NoLogin(s) == Absent(s, toServer[s], contentQ, {"login"}) /\ Accepts(s) = {}

NoEnter(s) == Absent(s, toServer[s], contentQ, {"enter"}) /\ InNoRoom(s)
OneEnter(s) ==
  /\ AtMostOne(s, toServer[s], contentQ, {"enter"})
  /\ Absent(s, toServer[s], contentQ, {"enter"}) \/ InNoRoom(s)

(* A session has one enter at most, under way or carried out, and with it  *)
(* a login only if it is of early.                                         *)
SessionInv ==
  \A s \in Sessions : OneEnter(s) /\ (s \in early \/ NoLogin(s) \/ NoEnter(s))

(* A connection not made yet. *)
UnusedInv == \A s \in Sessions : s[2] > cycle[s[1]] => NoEnter(s)

(* Until it sends ROOM_ENTER a client has no enter. *)
Before == {"signup", "signupDrain", "login", "loginDrain", "enter"}

PhaseOf(c, s) == at[c] \in Before => NoEnter(s)

PhaseInv == \A c \in Clients : PhaseOf(c, Sid(c))

BotInv == ClientTypes /\ SessionInv /\ UnusedInv /\ PhaseInv /\ OnlyEarlyStray

(* What a step does to a session as long as its client does not send a     *)
(* login or an enter.                                                      *)
Kept(s) ==
  /\ NoLogin(s) => NoLogin(s)'
  /\ NoEnter(s) => NoEnter(s)'
  /\ OneEnter(s) => OneEnter(s)'

-----------------------------------------------------------------------------
(* A client at its current session. *)
LEMMA CurrentSession ==
  ASSUME ClientTypes, NEW c \in Clients, at[c] \notin {"connect", "exit"}
  PROVE  Sid(c) \in Sessions /\ Sid(c) \in Sids
BY SessionsAssumption DEF ClientTypes, Sid, Sessions

(* No enter is one at most. *)
LEMMA NoneIsOneNext ==
  ASSUME NEW s
  PROVE  NoEnter(s)' => OneEnter(s)'
<1>1. PICK w, q : w = toServer'[s] /\ q = contentQ'
  OBVIOUS
<1>2. Absent(s, w, q, {"enter"}) => AtMostOne(s, w, q, {"enter"})
  BY Fewer
<1> QED
  BY <1>1, <1>2 DEF NoEnter, OneEnter

(* A step that keeps every session and moves no client keeps the            *)
(* invariant, but for the players.                                         *)
LEMMA KeptAll ==
  ASSUME SessionInv, UnusedInv, PhaseInv, ClientTypes,
         UNCHANGED <<at, cycle, early>>, \A s \in Sessions : Kept(s)
  PROVE  SessionInv' /\ UnusedInv' /\ PhaseInv'
<1>1. SessionInv'
  BY DEF SessionInv, Kept
<1>2. UnusedInv'
  BY DEF UnusedInv, Kept
<1>3. ASSUME NEW c \in Clients, at[c] \in Before
      PROVE  PhaseOf(c, Sid(c))'
  <2>1. PICK s : s = Sid(c)
    OBVIOUS
  <2>2. s \in Sessions
    BY <1>3, <2>1, CurrentSession DEF Before
  <2>3. PhaseOf(c, s)
    BY <2>1 DEF PhaseInv
  <2>4. Kept(s)
    BY <2>2
  <2>5. PhaseOf(c, s)'
    BY <1>3, <2>3, <2>4 DEF PhaseOf, Kept
  <2>6. Sid(c)' = s
    BY <2>1 DEF Sid
  <2> QED
    BY <2>5, <2>6 DEF PhaseOf
<1>4. PhaseInv'
  BY <1>3 DEF PhaseInv, PhaseOf
<1> QED
  BY <1>1, <1>2, <1>4
-----------------------------------------------------------------------------
(* The server's steps *)

(* What the server's variables say of a session changes with them only. *)
LEMMA SameKept ==
  ASSUME NEW s, UNCHANGED <<contentQ, results, dbJob, jobs, rooms>>, toServer'[s] = toServer[s]
  PROVE  Kept(s)
BY DEF Kept, NoLogin, NoEnter, OneEnter, Accepts, InNoRoom, Pipeline

(* contentQ and the wire change, the rest does not. *)
LEMMA QueueKept ==
  ASSUME NEW s, UNCHANGED <<results, dbJob, jobs, rooms>>,
         \A T \in {{"login"}, {"enter"}} :
           /\ Absent(s, toServer[s], contentQ, T) => Absent(s, toServer'[s], contentQ', T)
           /\ AtMostOne(s, toServer[s], contentQ, T) => AtMostOne(s, toServer'[s], contentQ', T)
  PROVE  Kept(s)
<1>1. Accepts(s)' = Accepts(s) /\ InNoRoom(s)' = InNoRoom(s)
  BY DEF Accepts, InNoRoom, Pipeline
<1> QED
  BY <1>1 DEF Kept, NoLogin, NoEnter, OneEnter

(* No packet is read with a JOIN or a LEAVE. *)
LEMMA NoPacketType ==
  /\ NoPacket \in Packets /\ NoPacket.type # "login" /\ NoPacket.type # "enter"
BY RoomCountAssumption DEF NoPacket, Packets, PacketTypes, JobTypes, INVALID_ROOM_NO

(* The accept thread and the workers: a session is announced, a packet     *)
(* received, a session closed.                                             *)
LEMMA NetKept ==
  ASSUME IInv, BotInv, NEW sid \in Sessions,
         ServerAccept(sid) \/ ServerRecv(sid) \/ ServerClose(sid)
  PROVE  /\ UNCHANGED <<at, cycle, early, players, rooms>>
         /\ toServer' \in [Sessions -> Seq(WirePacket)]
         /\ NetworkStep
         /\ \A s \in Sessions : Kept(s)
<1>0. /\ sid \in Sids /\ contentQ \in Seq(Message) /\ toServer \in [Sessions -> Seq(WirePacket)]
      /\ net \in [Sids -> {"new", "joined", "left", "refused"}] /\ Sids = Sessions
  BY SessionsAssumption DEF IInv, QueueInv, ThreadInv, BotInv, ClientTypes
<1>1. ASSUME NEW type \in {"join", "leave"}, Push(type, sid, NoPacket),
             net[sid] \in {"new", "joined"}, net' \in {[net EXCEPT ![sid] = "joined"],
                                                       [net EXCEPT ![sid] = "left"]},
             \A s \in Sessions : toServer'[s] = toServer[s] \/ (s = sid /\ toServer'[s] = <<>>)
      PROVE  UNCHANGED <<players, rooms>> /\ \A s \in Sessions : Kept(s)
  <2>1. PICK m : m = [type |-> type, sid |-> sid, pkt |-> NoPacket]
    OBVIOUS
  <2>2. m \in Message /\ m.sid = sid /\ m.pkt = NoPacket
    BY <1>0, <2>1, NoPacketType DEF Message
  <2>3. contentQ' = Append(contentQ, m) /\ UNCHANGED <<results, dbJob, jobs, rooms, players>>
    BY <1>1, <2>1 DEF Push, dbVars, contentVars
  <2>4. ASSUME NEW s \in Sessions
        PROVE  Kept(s)
    <3>2. ASSUME NEW T \in {{"login"}, {"enter"}}
          PROVE  /\ Absent(s, toServer[s], contentQ, T) => Absent(s, toServer'[s], contentQ', T)
                 /\ AtMostOne(s, toServer[s], contentQ, T) =>
                      AtMostOne(s, toServer'[s], contentQ', T)
      <4>1. PICK w, v : w = toServer[s] /\ v = toServer'[s]
        OBVIOUS
      <4>2. v = w \/ v = <<>>
        BY <1>1, <2>4, <4>1
      <4>3. m.pkt.type \notin T
        BY <2>2, <3>2, NoPacketType
      <4>4. /\ Absent(s, w, contentQ, T) => Absent(s, v, contentQ, T)
            /\ AtMostOne(s, w, contentQ, T) => AtMostOne(s, v, contentQ, T)
        BY <4>2, Fewer
      <4>5. /\ Absent(s, v, contentQ, T) => Absent(s, v, contentQ', T)
            /\ AtMostOne(s, v, contentQ, T) => AtMostOne(s, v, contentQ', T)
        BY <1>0, <2>2, <2>3, <4>3, QueueGrows
      <4> QED
        BY <4>1, <4>4, <4>5
    <3> QED
      BY <2>3, <3>2, QueueKept
  <2> QED
    BY <2>3, <2>4
<1>2. CASE ServerAccept(sid)
  <2>1. /\ OnClientJoin(sid) /\ UNCHANGED <<at, cycle, early, toServer>>
    BY <1>2 DEF ServerAccept, clientVars, wireVars
  <2>2. /\ net[sid] = "new" /\ net' = [net EXCEPT ![sid] = "joined"]
        /\ Push("join", sid, NoPacket)
    BY <2>1 DEF OnClientJoin
  <2> QED
    BY <1>0, <1>1, <2>1, <2>2 DEF NetworkStep
<1>3. CASE ServerClose(sid)
  <2>1. /\ OnClientLeave(sid) /\ UNCHANGED <<at, cycle, early, toServer>>
        /\ net[sid] = "joined"
    BY <1>3 DEF ServerClose, clientVars, wireVars
  <2>2. net' = [net EXCEPT ![sid] = "left"] /\ Push("leave", sid, NoPacket)
    BY <2>1 DEF OnClientLeave
  <2> QED
    BY <1>0, <1>1, <2>1, <2>2 DEF NetworkStep
<1>4. CASE ServerRecv(sid)
  <2>1. /\ UNCHANGED <<at, cycle, early>> /\ net[sid] = "joined"
        /\ toServer[sid] # <<>>
    BY <1>4 DEF ServerRecv, clientVars
  <2>2. CASE Head(toServer[sid]) = Tampered
    <3>1. OnClientLeave(sid) /\ toServer' = [toServer EXCEPT ![sid] = <<>>]
      BY <1>4, <2>2 DEF ServerRecv
    <3>2. net' = [net EXCEPT ![sid] = "left"] /\ Push("leave", sid, NoPacket)
      BY <2>1, <3>1 DEF OnClientLeave
    <3>3. \A s \in Sessions : toServer'[s] = toServer[s] \/ (s = sid /\ toServer'[s] = <<>>)
      BY <1>0, <3>1
    <3>4. toServer' \in [Sessions -> Seq(WirePacket)]
      BY <1>0, <3>1
    <3> QED
      BY <1>0, <1>1, <2>1, <3>1, <3>2, <3>3, <3>4 DEF NetworkStep
  <2>3. CASE Head(toServer[sid]) # Tampered
    <3>1. PICK p, w : p = Head(w) /\ w = toServer[sid]
      OBVIOUS
    <3>2. OnRecv(sid, p) /\ toServer' = [toServer EXCEPT ![sid] = Tail(w)]
      BY <1>4, <2>3, <3>1 DEF ServerRecv
    <3>3. w \in Seq(WirePacket) /\ w # <<>> /\ p \in WirePacket /\ Tail(w) \in Seq(WirePacket)
      BY <1>0, <2>1, <3>1, TailEntries
    <3>4. p \in Packets
      BY <2>3, <3>1, <3>3 DEF WirePacket
    <3>5. PICK m : m = [type |-> "recv", sid |-> sid, pkt |-> p]
      OBVIOUS
    <3>6. m \in Message /\ m.sid = sid /\ m.pkt = p
      BY <1>0, <3>4, <3>5 DEF Message
    <3>7. /\ contentQ' = Append(contentQ, m) /\ net' = net
          /\ UNCHANGED <<results, dbJob, jobs, rooms, players>>
      BY <3>2, <3>5 DEF OnRecv, Push, dbVars, contentVars
    <3>8. toServer' \in [Sessions -> Seq(WirePacket)]
      BY <1>0, <3>2, <3>3
    <3>9. ASSUME NEW s \in Sessions
          PROVE  Kept(s)
      <4>1. ASSUME NEW T \in {{"login"}, {"enter"}}
            PROVE  /\ Absent(s, toServer[s], contentQ, T) => Absent(s, toServer'[s], contentQ', T)
                   /\ AtMostOne(s, toServer[s], contentQ, T) =>
                        AtMostOne(s, toServer'[s], contentQ', T)
        <5>1. CASE s = sid
          <6>1. toServer[s] = w /\ toServer'[s] = Tail(w)
            BY <1>0, <3>1, <3>2, <5>1
          <6>2. /\ Absent(s, w, contentQ, T) => Absent(s, Tail(w), Append(contentQ, m), T)
                /\ AtMostOne(s, w, contentQ, T) => AtMostOne(s, Tail(w), Append(contentQ, m), T)
            BY <1>0, <3>1, <3>3, <3>6, <5>1, PacketMoves
          <6> QED
            BY <3>7, <6>1, <6>2
        <5>2. CASE s # sid
          <6>1. toServer'[s] = toServer[s]
            BY <1>0, <3>2, <5>2
          <6>2. PICK v : v = toServer[s]
            OBVIOUS
          <6>3. /\ Absent(s, v, contentQ, T) => Absent(s, v, Append(contentQ, m), T)
                /\ AtMostOne(s, v, contentQ, T) => AtMostOne(s, v, Append(contentQ, m), T)
            BY <1>0, <3>6, <5>2, QueueGrows
          <6> QED
            BY <3>7, <6>1, <6>2, <6>3
        <5> QED
          BY <5>1, <5>2
      <4> QED
        BY <3>7, <4>1, QueueKept
    <3> QED
      BY <1>0, <2>1, <3>2, <3>4, <3>7, <3>8, <3>9 DEF NetworkStep
  <2> QED
    BY <2>2, <2>3
<1> QED
  BY <1>2, <1>3, <1>4

(* The database worker moves a request within the Pipeline. *)
LEMMA WorkerKept ==
  ASSUME IInv, IInv', WorkerStep, NEW s, UNCHANGED toServer
  PROVE  Kept(s)
<1>1. UNCHANGED <<contentQ, rooms>>
  BY DEF WorkerStep, PopJob, ProcessJob, DrainStart, DrainEnd, netVars, contentVars
<1>2. Pipeline \in Seq(Entry)
  BY PipelineType DEF IInv
<1>3. Pipeline' \in Seq(Entry)
  <2>1. QueueInv => Pipeline \in Seq(Entry)
    BY PipelineType
  <2>2. QueueInv' => (Pipeline \in Seq(Entry))'
    BY <2>1, PipelineType, PTL
  <2> QED
    BY <2>2 DEF IInv
<1>4. PICK a, b : a = Pipeline /\ b = Pipeline'
  OBVIOUS
<1>5. Len(b) = Len(a) /\ \A i \in 1 .. Len(a) : b[i].sid = a[i].sid /\ b[i].type = a[i].type
  BY <1>4, PipelineWorker DEF IInv
<1>6. \A i \in 1 .. Len(a) : a[i] \in Entry /\ b[i] \in Entry
  BY <1>2, <1>3, <1>4, <1>5
<1>7. Where(b, Accepted(s)) = Where(a, Accepted(s))
  BY <1>5, <1>6 DEF Where, Accepted
<1>8. Accepts(s)' = Accepts(s)
  BY <1>4, <1>7 DEF Accepts
<1> QED
  BY <1>1, <1>8 DEF Kept, NoLogin, NoEnter, OneEnter, InNoRoom

(* The Update thread answers a request, which leaves the Pipeline. *)
LEMMA ResultKept ==
  ASSUME IInv, UpdateResult, NEW s \in Sessions, UNCHANGED toServer
  PROVE  Kept(s)
<1>0. QueueInv
  BY DEF IInv
<1>1. UNCHANGED <<contentQ, rooms, jobs, dbJob>>
  BY DEF UpdateResult
<1>2. CASE UNCHANGED results
  BY <1>1, <1>2, SameKept
<1>3. CASE results # <<>> /\ results' = Tail(results)
  <2>1. Pipeline # <<>> /\ Pipeline' = Tail(Pipeline) /\ Pipeline \in Seq(Entry)
    BY <1>0, <1>1, <1>3, PipelinePop, PipelineType
  <2>2. Accepts(s) = {} => Accepts(s)' = {}
    <3>1. PICK A : A = Accepted(s)
      OBVIOUS
    <3>2. Where(Pipeline, A) = {} => Where(Tail(Pipeline), A) = {}
      BY <2>1, WhereTail
    <3> QED
      BY <2>1, <3>1, <3>2 DEF Accepts
  <2>3. NoLogin(s) => NoLogin(s)'
    BY <1>1, <2>2 DEF NoLogin
  <2>4. (NoEnter(s) => NoEnter(s)') /\ (OneEnter(s) => OneEnter(s)')
    BY <1>1 DEF NoEnter, OneEnter, InNoRoom
  <2> QED
    BY <2>3, <2>4 DEF Kept
<1> QED
  BY <1>2, <1>3 DEF UpdateResult

(* What the handler of a message does to the rooms and to the jobs: only a *)
(* ROOM_ENTER adds to a room, and only its sender; only a request adds a   *)
(* job.                                                                    *)
LEMMA MessageEffects ==
  ASSUME IInv, UpdateMessage, contentQ # <<>>, NEW m, m = Head(contentQ)
  PROVE  /\ m \in Message /\ contentQ' = Tail(contentQ)
         /\ \A r \in RoomNos : rooms'[r] \subseteq rooms[r] \cup {m.sid}
         /\ m.pkt.type # "enter" => \A r \in RoomNos : rooms'[r] \subseteq rooms[r]
         /\ \/ UNCHANGED jobs
            \/ /\ m.pkt.type \in JobTypes
               /\ jobs' = Append(jobs, [type |-> m.pkt.type, sid |-> m.sid])
<1>0. rooms \in [RoomNos -> SUBSET Sids] /\ InRoomIsMember /\ contentQ \in Seq(Message)
  BY DEF IInv, ContentInv, QueueInv
<1>1. m \in Message
  BY <1>0, TailEntries
<1>2. /\ contentQ' = Tail(contentQ)
      /\ \/ Handle_Join(m.sid)
         \/ Handle_Leave(m.sid)
         \/ Handle_Recv(m.sid, m.pkt)
  BY DEF UpdateMessage
<1>3. ASSUME UNCHANGED jobs, sent' = {}, \A r \in RoomNos : rooms'[r] \subseteq rooms[r]
      PROVE  /\ \A r \in RoomNos : rooms'[r] \subseteq rooms[r] \cup {m.sid}
      BY <1>3
<1>4. CASE Return
  <2>1. UNCHANGED <<jobs, rooms>>
    BY <1>4 DEF Return, SendPacket
  <2> QED
    BY <1>1, <1>2, <1>3, <2>1
<1>5. CASE Handle_Join(m.sid)
  <2>1. UNCHANGED <<jobs, rooms>>
    BY <1>5 DEF Handle_Join, SendPacket
  <2> QED
    BY <1>1, <1>2, <1>3, <2>1
<1>6. CASE Handle_Leave(m.sid)
  <2>1. UNCHANGED jobs
    BY <1>6 DEF Handle_Leave, SendPacket, Return
  <2>2. \A r \in RoomNos : rooms'[r] \subseteq rooms[r]
    BY <1>0, <1>6 DEF Handle_Leave, Return, RoomWithout
  <2> QED
    BY <1>1, <1>2, <1>3, <2>1, <2>2
<1>7. CASE m.pkt.type \in JobTypes /\ PushJob(m.sid, m.pkt.type) /\ ~Return
  <2>1. /\ jobs' = Append(jobs, [type |-> m.pkt.type, sid |-> m.sid])
        /\ rooms' = rooms
    BY <1>7 DEF PushJob, SendPacket
  <2> QED
    BY <1>1, <1>2, <1>7, <2>1
<1>8. CASE m.pkt.type = "enter" /\ HandleRoomEnter(m.sid, m.pkt.no) /\ ~Return
  <2>1. PICK r \in RoomNos : /\ rooms' = [rooms EXCEPT ![r] = @ \cup {m.sid}]
                             /\ UNCHANGED jobs
    BY <1>8 DEF HandleRoomEnter, MayEnter, SendPacket
  <2>2. \A k \in RoomNos : rooms'[k] \subseteq rooms[k] \cup {m.sid}
    BY <1>0, <2>1
  <2> QED
    BY <1>1, <1>2, <1>8, <2>1, <2>2
<1>9. CASE m.pkt.type = "leave" /\ HandleRoomLeave(m.sid) /\ ~Return
  <2>1. PICK r \in RoomNos : r = players[m.sid].roomNo
    BY <1>0, <1>9 DEF HandleRoomLeave, IsInRoom, InRoomIsMember
  <2>2. rooms' = [rooms EXCEPT ![r] = @ \ {m.sid}] /\ UNCHANGED jobs
    BY <1>9, <2>1 DEF HandleRoomLeave, RoomWithout, SendPacket
  <2>3. \A k \in RoomNos : rooms'[k] \subseteq rooms[k]
    BY <1>0, <2>2
  <2> QED
    BY <1>1, <1>2, <2>2, <2>3
<1>10. CASE m.pkt.type = "chat" /\ HandleChat(m.sid) /\ ~Return
  <2>1. PICK r \in RoomNos : r = players[m.sid].roomNo
    BY <1>0, <1>10 DEF HandleChat, IsInRoom, InRoomIsMember
  <2>2. UNCHANGED <<rooms, jobs>>
    BY <1>10, <2>1 DEF HandleChat, SendPacket
  <2> QED
    BY <1>1, <1>2, <2>2
<1> QED
  BY <1>2, <1>4, <1>5, <1>6, <1>7, <1>8, <1>9, <1>10 DEF Handle_Recv

(* The Update thread handles a message. *)
LEMMA MessageKept ==
  ASSUME IInv, UpdateMessage, NEW s \in Sessions, UNCHANGED toServer
  PROVE  Kept(s)
<1>0. QueueInv /\ contentQ \in Seq(Message)
  BY DEF IInv, QueueInv
<1>1. UNCHANGED <<results, dbJob>>
  BY DEF UpdateMessage
<1>3. CASE contentQ = <<>>
  <2>1. UNCHANGED <<contentQ, rooms, jobs>>
    BY <1>3 DEF UpdateMessage, Return
  <2> QED
    BY <1>1, <2>1, SameKept
<1>4. CASE contentQ # <<>>
  <2>1. PICK m : m = Head(contentQ)
    OBVIOUS
  <2>2. /\ m \in Message /\ contentQ' = Tail(contentQ)
        /\ \A r \in RoomNos : rooms'[r] \subseteq rooms[r] \cup {m.sid}
        /\ m.pkt.type # "enter" => \A r \in RoomNos : rooms'[r] \subseteq rooms[r]
        /\ \/ UNCHANGED jobs
           \/ /\ m.pkt.type \in JobTypes
              /\ jobs' = Append(jobs, [type |-> m.pkt.type, sid |-> m.sid])
    BY <1>4, <2>1, MessageEffects
  <2>3. PICK w : w = toServer[s] /\ w = toServer'[s]
    OBVIOUS
  <2>4. ASSUME NEW T
        PROVE  /\ Absent(s, w, contentQ, T) => Absent(s, w, contentQ', T) /\ m \notin Received(s, T)
               /\ AtMostOne(s, w, contentQ, T) => AtMostOne(s, w, contentQ', T)
               /\ AtMostOne(s, w, contentQ, T) /\ m \in Received(s, T) => Absent(s, w, contentQ', T)
    BY <1>0, <1>4, <2>1, <2>2, MessageTaken
  <2>5. \A T : m \in Received(s, T) <=> m.sid = s /\ m.pkt.type \in T
    BY <2>2 DEF Received
  <2>6. m \notin Received(s, {"enter"}) /\ InNoRoom(s) => InNoRoom(s)'
    BY <2>2, <2>5 DEF InNoRoom
  <2>7. m \notin Received(s, {"login"}) => Accepts(s)' = Accepts(s)
    <3>1. CASE UNCHANGED jobs
      BY <1>1, <3>1 DEF Accepts, Pipeline
    <3>2. CASE /\ m.pkt.type \in JobTypes
               /\ jobs' = Append(jobs, [type |-> m.pkt.type, sid |-> m.sid])
      <4>1. PICK x : x = [type |-> m.pkt.type, sid |-> m.sid]
        OBVIOUS
      <4>2. x \in Job /\ x.sid = m.sid /\ x.type = m.pkt.type
        BY <2>2, <3>2, <4>1 DEF Job, Message
      <4>3. Pipeline' = Append(Pipeline, x) /\ Pipeline \in Seq(Entry) /\ x \in Entry
        BY <1>0, <1>1, <3>2, <4>1, <4>2, PipelinePush, PipelineType DEF Entry
      <4>4. m \notin Received(s, {"login"}) => x \notin Accepted(s)
        BY <2>5, <4>2 DEF Accepted
      <4>5. PICK A : A = Accepted(s)
        OBVIOUS
      <4>6. x \notin A => Where(Append(Pipeline, x), A) = Where(Pipeline, A)
        BY <4>3, WhereAppend
      <4> QED
        BY <4>3, <4>4, <4>5, <4>6 DEF Accepts
    <3> QED
      BY <2>2, <3>1, <3>2
  <2>8. NoLogin(s) => NoLogin(s)'
    BY <2>3, <2>4, <2>7 DEF NoLogin
  <2>9. NoEnter(s) => NoEnter(s)'
    BY <2>3, <2>4, <2>6 DEF NoEnter
  <2>10. OneEnter(s) => OneEnter(s)'
    BY <2>3, <2>4, <2>6 DEF OneEnter
  <2> QED
    BY <2>8, <2>9, <2>10 DEF Kept
<1> QED
  BY <1>3, <1>4
-----------------------------------------------------------------------------
(* The rooms *)

(* Taking a session out of the room its player is in leaves it in none,    *)
(* unless it is of early.                                                  *)
LEMMA OutOfRoom ==
  ASSUME IInv, OnlyEarlyStray, NEW sid \in DOMAIN players,
         rooms' = IF players[sid].state = "IN_ROOM"
                    THEN RoomWithout(sid, players[sid].roomNo) ELSE rooms
  PROVE  \A r \in RoomNos : \A s \in rooms'[r] \ early : s \in rooms[r] /\ s # sid
<1>0. rooms \in [RoomNos -> SUBSET Sids] /\ InRoomIsMember
  BY DEF IInv, ContentInv
<1>1. CASE players[sid].state = "IN_ROOM"
  <2>1. PICK k \in RoomNos : k = players[sid].roomNo
    BY <1>0, <1>1 DEF InRoomIsMember
  <2>2. rooms' = [rooms EXCEPT ![k] = @ \ {sid}]
    BY <1>1, <2>1 DEF RoomWithout
  <2>3. \A r \in RoomNos : sid \in rooms[r] \ early => r = k
    BY <2>1 DEF OnlyEarlyStray
  <2> QED
    BY <1>0, <2>2, <2>3
<1>2. CASE players[sid].state # "IN_ROOM"
  BY <1>2 DEF OnlyEarlyStray
<1> QED
  BY <1>1, <1>2

(* A message keeps OnlyEarlyStray: when a session's ROOM_ENTER is handled it   *)
(* is in no room.                                                          *)
LEMMA MessageRooms ==
  ASSUME IInv, BotInv, UpdateMessage, UNCHANGED early
  PROVE  OnlyEarlyStray'
<1>0. /\ OnlyEarlyStray /\ rooms \in [RoomNos -> SUBSET Sids] /\ InRoomIsMember
      /\ contentQ \in Seq(Message) /\ players \in [DOMAIN players -> Player]
  BY DEF IInv, ContentInv, QueueInv, BotInv
<1>1. CASE UNCHANGED <<players, rooms>>
  BY <1>0, <1>1 DEF OnlyEarlyStray
<1>2. ASSUME ~UNCHANGED <<players, rooms>>
      PROVE  OnlyEarlyStray'
  <2>1. ~Return /\ contentQ # <<>>
    BY <1>2 DEF UpdateMessage, Return
  <2>2. PICK m : m = Head(contentQ)
    OBVIOUS
  <2>3. m \in Message
    BY <1>0, <2>1, <2>2, TailEntries
  <2>4. PICK sid \in Sessions : sid = m.sid
    BY <2>3, SessionsAssumption DEF Message
  <2>5. \/ Handle_Join(sid)
        \/ Handle_Leave(sid)
        \/ m.pkt.type = "enter" /\ HandleRoomEnter(sid, m.pkt.no)
        \/ HandleRoomLeave(sid)
    BY <1>2, <2>1, <2>2, <2>4 DEF UpdateMessage, Handle_Recv, PushJob, HandleChat, Return
  <2>6. CASE Handle_Join(sid)
    BY <1>0, <2>6 DEF Handle_Join, OnlyEarlyStray
  <2>7. CASE Handle_Leave(sid)
    <3>1. /\ sid \in DOMAIN players
          /\ rooms' = IF players[sid].state = "IN_ROOM"
                        THEN RoomWithout(sid, players[sid].roomNo) ELSE rooms
          /\ players' = [s \in DOMAIN players \ {sid} |-> players[s]]
      BY <2>1, <2>7 DEF Handle_Leave
    <3>2. \A r \in RoomNos : \A s \in rooms'[r] \ early : s \in rooms[r] /\ s # sid
      BY <1>0, <3>1, OutOfRoom
    <3> QED
      BY <1>0, <3>1, <3>2 DEF OnlyEarlyStray
  <2>8. CASE HandleRoomLeave(sid)
    <3>1. /\ sid \in DOMAIN players /\ players[sid].state = "IN_ROOM"
          /\ rooms' = RoomWithout(sid, players[sid].roomNo)
          /\ players' = [players EXCEPT ![sid] = [state |-> "LOGGED_IN",
                                                  roomNo |-> INVALID_ROOM_NO]]
      BY <2>1, <2>8 DEF HandleRoomLeave, IsInRoom
    <3>2. \A r \in RoomNos : \A s \in rooms'[r] \ early : s \in rooms[r] /\ s # sid
      BY <1>0, <3>1, OutOfRoom
    <3>3. DOMAIN players' = DOMAIN players /\ \A s \in DOMAIN players : s # sid => players'[s] = players[s]
      BY <3>1
    <3> QED
      BY <1>0, <3>2, <3>3 DEF OnlyEarlyStray
  <2>9. CASE m.pkt.type = "enter" /\ HandleRoomEnter(sid, m.pkt.no)
    <3>1. m \in Received(sid, {"enter"})
      BY <2>3, <2>4, <2>9 DEF Received
    <3>2. OneEnter(sid)
      BY DEF BotInv, SessionInv
    <3>3. InNoRoom(sid)
      <4>1. PICK w : w = toServer[sid]
        OBVIOUS
      <4>2. ~Absent(sid, w, contentQ, {"enter"})
        BY <1>0, <2>1, <2>2, <3>1, MessageTaken
      <4> QED
        BY <3>2, <4>1, <4>2 DEF OneEnter
    <3>4. PICK k \in RoomNos : /\ sid \in DOMAIN players
                               /\ rooms' = [rooms EXCEPT ![k] = @ \cup {sid}]
                               /\ \/ players[sid].state = "IN_ROOM"
                                  \/ players' = [players EXCEPT
                                       ![sid] = [state |-> "IN_ROOM", roomNo |-> k]]
      BY <2>1, <2>9 DEF HandleRoomEnter, MayEnter
    <3>5. players[sid].state # "IN_ROOM"
      BY <1>0, <3>3, <3>4 DEF InRoomIsMember, InNoRoom
    <3>6. /\ DOMAIN players' = DOMAIN players
          /\ \A s \in DOMAIN players : s # sid => players'[s] = players[s]
          /\ players'[sid].state = "IN_ROOM" /\ players'[sid].roomNo = k
      BY <3>4, <3>5
    <3>7. \A r \in RoomNos : \A s \in rooms'[r] : (s \in rooms[r] /\ s # sid) \/ (s = sid /\ r = k)
      BY <1>0, <3>3, <3>4 DEF InNoRoom
    <3> QED
      BY <1>0, <3>4, <3>6, <3>7 DEF OnlyEarlyStray
  <2> QED
    BY <2>5, <2>6, <2>7, <2>8, <2>9
<1> QED
  BY <1>1, <1>2

(* An answer keeps OnlyEarlyStray: who waits for a login is in no room, or *)
(* is of early.                                                            *)
LEMMA ResultRooms ==
  ASSUME IInv, BotInv, UpdateResult, UNCHANGED early
  PROVE  OnlyEarlyStray'
<1>0. /\ OnlyEarlyStray /\ QueueInv /\ results \in Seq(Result) /\ rooms' = rooms
      /\ UNCHANGED <<dbJob, jobs>>
  BY DEF IInv, QueueInv, BotInv, UpdateResult
<1>1. CASE UNCHANGED players
  BY <1>0, <1>1 DEF OnlyEarlyStray
<1>2. ASSUME ~UNCHANGED players
      PROVE  OnlyEarlyStray'
  <2>1. PICK r : r = Head(results)
    OBVIOUS
  <2>2. /\ results # <<>> /\ results' = Tail(results) /\ r.sid \in DOMAIN players
        /\ r.type = "login"
        /\ players' = [players EXCEPT ![r.sid].state = "LOGGED_IN"]
    BY <1>2, <2>1 DEF UpdateResult, Handle_DbResult, SetNickname
  <2>3. r \in Result
    BY <1>0, <2>1, <2>2, TailEntries
  <2>4. PICK s \in Sessions : s = r.sid
    BY <2>3, SessionsAssumption DEF Result
  <2>5. Pipeline # <<>> /\ Pipeline[1] = r /\ Pipeline \in Seq(Entry)
    BY <1>0, <2>1, <2>2, PipelinePop, PipelineType
  <2>6. 1 \in Accepts(s)
    BY <2>2, <2>3, <2>4, <2>5, TailEntries DEF Accepts, Where, Accepted, Entry
  <2>7. s \in early \/ InNoRoom(s)
    BY <2>6 DEF BotInv, SessionInv, NoLogin, NoEnter
  <2>8. DOMAIN players' = DOMAIN players /\ \A x \in DOMAIN players : x # s => players'[x] = players[x]
    BY <2>2, <2>4
  <2> QED
    BY <1>0, <2>7, <2>8 DEF OnlyEarlyStray, InNoRoom
<1> QED
  BY <1>1, <1>2
-----------------------------------------------------------------------------
(* The clients' steps *)

Places == {"connect", "signup", "signupDrain", "login", "loginDrain", "enter", "enterDrain",
           "chat", "chatDrain", "close", "failed", "exit", "normalDrain", "tamper", "select"}

(* A client moves to place a and touches its own connection s only. *)
LEMMA ClientMoves ==
  ASSUME BotInv, NEW c \in Clients, at[c] \notin {"connect", "exit"}, NEW s, s = Sid(c),
         NEW a \in Places, at' = [at EXCEPT ![c] = a], UNCHANGED <<cycle, players, rooms>>,
         early' \in {early, early \cup {s}}, toServer' \in [Sessions -> Seq(WirePacket)],
         \A x \in Sessions : x # s => Kept(x),
         OneEnter(s)', s \in early' \/ NoLogin(s)' \/ NoEnter(s)', PhaseOf(c, s)'
  PROVE  BotInv'
<1>0. ClientTypes /\ SessionInv /\ UnusedInv /\ PhaseInv /\ OnlyEarlyStray
  BY DEF BotInv
<1>1. s \in Sessions /\ s[1] = c /\ s[2] = cycle[c] /\ cycle[c] \in Nat
  BY <1>0, CurrentSession DEF Sid, ClientTypes
<1>2. ClientTypes'
  <2>1. at' \in [Clients -> Places] /\ at' [c] = a
    BY <1>0 DEF ClientTypes, Places
  <2>2. cycle[c] > 0 /\ \A d \in Clients : d # c => at'[d] = at[d]
    BY <1>0 DEF ClientTypes
  <2> QED
    BY <1>0, <2>1, <2>2 DEF ClientTypes, Places
<1>3. SessionInv'
  BY <1>0 DEF SessionInv, Kept
<1>4. UnusedInv'
  <2> SUFFICES ASSUME NEW x \in Sessions, x[2] > cycle[x[1]]
               PROVE  NoEnter(x)'
    BY DEF UnusedInv
  <2>1. x # s
    BY <1>1
  <2>2. NoEnter(x)
    BY <1>0 DEF UnusedInv
  <2> QED
    BY <2>1, <2>2 DEF Kept
<1>5. ASSUME NEW d \in Clients
      PROVE  PhaseOf(d, Sid(d))'
  <2>1. CASE d = c
    BY <2>1 DEF PhaseOf, Sid
  <2>2. CASE d # c
    <3>1. at'[d] = at[d]
      BY <1>0, <2>2 DEF ClientTypes
    <3>2. CASE at[d] \notin Before
      BY <3>1, <3>2 DEF PhaseOf
    <3>3. CASE at[d] \in Before
      <4>1. PICK x : x = Sid(d)
        OBVIOUS
      <4>2. x \in Sessions /\ x # s
        BY <1>0, <1>1, <2>2, <3>3, <4>1, CurrentSession DEF Before, Sid
      <4>3. PhaseOf(d, x) /\ Kept(x)
        BY <1>0, <4>1, <4>2 DEF PhaseInv
      <4>4. PhaseOf(d, x)'
        BY <3>1, <4>3 DEF PhaseOf, Kept
      <4>5. Sid(d)' = x
        BY <4>1 DEF Sid
      <4> QED
        BY <4>4, <4>5 DEF PhaseOf
    <3> QED
      BY <3>2, <3>3
  <2> QED
    BY <2>1, <2>2
<1>6. OnlyEarlyStray'
  BY <1>0 DEF OnlyEarlyStray
<1> QED
  BY <1>2, <1>3, <1>4, <1>5, <1>6 DEF BotInv, PhaseInv

(* ... and keeps its own connection too. *)
LEMMA ClientGoesOn ==
  ASSUME BotInv, NEW c \in Clients, at[c] \notin {"connect", "exit"}, NEW s, s = Sid(c),
         NEW a \in Places, at[c] \in Before \/ a \notin Before, at' = [at EXCEPT ![c] = a],
         UNCHANGED <<cycle, players, rooms>>, early' \in {early, early \cup {s}},
         toServer' \in [Sessions -> Seq(WirePacket)], \A x \in Sessions : Kept(x)
  PROVE  BotInv'
<1>1. s \in Sessions
  BY CurrentSession DEF BotInv
<1>2. OneEnter(s)' /\ (s \in early' \/ NoLogin(s)' \/ NoEnter(s)')
  BY <1>1 DEF BotInv, SessionInv, Kept
<1>3. at'[c] = a
  BY DEF BotInv, ClientTypes
<1>4. PhaseOf(c, s)'
  BY <1>1, <1>3 DEF PhaseOf, BotInv, PhaseInv, Kept
<1> QED
  BY <1>2, <1>4, ClientMoves

(* SendAll: nothing changes for the other sessions; a packet that is no    *)
(* login and no enter, or that is lost, keeps the client's own.            *)
LEMMA SendSession ==
  ASSUME BotInv, NEW c \in Clients, at[c] \notin {"connect", "exit"}, NEW s, s = Sid(c),
         NEW p \in WirePacket, NEW next, NEW failed,
         Send(c, p, next, failed), UNCHANGED vars
  PROVE  /\ s \in Sessions /\ UNCHANGED <<players, rooms, contentQ, jobs, dbJob, results>>
         /\ toServer' \in [Sessions -> Seq(WirePacket)]
         /\ \A x \in Sessions : x # s => Kept(x)
         /\ p.type # "login" /\ p.type # "enter" => Kept(s)
         /\ \/ Kept(s) /\ \E a \in {next, failed} : at' = [at EXCEPT ![c] = a]
            \/ toServer'[s] = Append(toServer[s], p) /\ at' = [at EXCEPT ![c] = next]
<1>0. s \in Sessions /\ toServer \in [Sessions -> Seq(WirePacket)]
  BY CurrentSession DEF BotInv, ClientTypes
<1>1. UNCHANGED <<players, rooms, net, contentQ, jobs, dbJob, results>>
  BY DEF vars
<1>2. CASE Left(s)
  <2>1. toServer' = toServer /\ \E a \in {next, failed} : at' = [at EXCEPT ![c] = a]
    BY <1>2 DEF Send
  <2>2. \A x \in Sessions : Kept(x)
    BY <1>1, <2>1, SameKept
  <2> QED
    BY <1>0, <1>1, <1>2, <2>1, <2>2
<1>3. CASE ~Left(s)
  <2>1. PICK w : w = toServer[s]
    OBVIOUS
  <2>2. toServer' = [toServer EXCEPT ![s] = Append(w, p)] /\ at' = [at EXCEPT ![c] = next]
    BY <1>3, <2>1 DEF Send
  <2>3. w \in Seq(WirePacket) /\ Append(w, p) \in Seq(WirePacket)
    BY <1>0, <2>1, AppendEntries
  <2>4. toServer' \in [Sessions -> Seq(WirePacket)] /\ toServer'[s] = Append(w, p)
    BY <1>0, <2>2, <2>3
  <2>5. ASSUME NEW x \in Sessions, x # s
        PROVE  Kept(x)
    <3>1. toServer'[x] = toServer[x]
      BY <1>0, <2>2, <2>5
    <3> QED
      BY <1>1, <3>1, SameKept
  <2>6. ASSUME p.type # "login", p.type # "enter"
        PROVE  Kept(s)
    <3>1. ASSUME NEW T \in {{"login"}, {"enter"}}
          PROVE  /\ Absent(s, w, contentQ, T) => Absent(s, Append(w, p), contentQ, T)
                 /\ AtMostOne(s, w, contentQ, T) => AtMostOne(s, Append(w, p), contentQ, T)
      <4>1. p.type \notin T
        BY <2>6, <3>1
      <4> QED
        BY <2>3, <4>1, WireGrows
    <3>2. \A T \in {{"login"}, {"enter"}} :
            /\ Absent(s, toServer[s], contentQ, T) => Absent(s, toServer'[s], contentQ', T)
            /\ AtMostOne(s, toServer[s], contentQ, T) => AtMostOne(s, toServer'[s], contentQ', T)
      BY <1>1, <2>1, <2>4, <3>1
    <3> QED
      BY <1>1, <3>2, QueueKept
  <2> QED
    BY <1>0, <1>1, <2>1, <2>2, <2>4, <2>5, <2>6
<1> QED
  BY <1>2, <1>3

(* DrainRecv, whether or not the answer came in time. *)
LEMMA DrainSession ==
  ASSUME BotInv, NEW c \in Clients, NEW next, NEW closed,
         Drain(c, next, closed), UNCHANGED <<vars, toServer>>
  PROVE  /\ UNCHANGED <<players, rooms>> /\ toServer' \in [Sessions -> Seq(WirePacket)]
         /\ \A x \in Sessions : Kept(x)
         /\ \E a \in {next, closed} : at' = [at EXCEPT ![c] = a]
<1>1. UNCHANGED <<players, rooms, contentQ, jobs, dbJob, results, toServer>>
  BY DEF vars
<1>2. \E a \in {next, closed} : at' = [at EXCEPT ![c] = a]
  BY DEF Drain
<1>3. \A x \in Sessions : Kept(x)
  BY <1>1, SameKept
<1>4. toServer' \in [Sessions -> Seq(WirePacket)]
  BY <1>1 DEF BotInv, ClientTypes
<1> QED
  BY <1>1, <1>2, <1>3, <1>4

(* The packets of the clients. *)
LEMMA PacketKinds ==
  /\ \A type \in JobTypes \cup {"leave", "chat"} :
       Pkt(type) \in WirePacket /\ Pkt(type).type = type
  /\ Tampered \in WirePacket /\ Tampered.type = "tampered"
  /\ \A r \in RoomNos \cup {1} : Enter(r) \in WirePacket /\ Enter(r).type = "enter"
BY RoomCountAssumption DEF Pkt, Tampered, Enter, WirePacket, Packets, PacketTypes, JobTypes,
                           INVALID_ROOM_NO, RoomNos

(* connect: the session is new to everybody. *)
LEMMA ConnectInv ==
  ASSUME BotInv, NEW c \in Clients, Connect(c)
  PROVE  BotInv'
<1>0. ClientTypes /\ SessionInv /\ UnusedInv /\ PhaseInv /\ OnlyEarlyStray
  BY DEF BotInv
<1>1. UNCHANGED <<players, rooms, contentQ, jobs, dbJob, results, toServer, early>>
  BY DEF Connect, vars
<1>2. PICK s : s = <<c, cycle[c] + 1>>
  OBVIOUS
<1>3. PICK a \in {"signup", "login"} : at' = [at EXCEPT ![c] = a]
  BY DEF Connect
<1>4. cycle' = [cycle EXCEPT ![c] = cycle[c] + 1] /\ cycle[c] < Cycles
  BY DEF Connect
<1>5. /\ cycle[c] \in Nat /\ cycle[c] + 1 \in 1 .. Cycles
  BY <1>0, <1>4, ClientAssumption DEF ClientTypes
<1>6. s \in Sessions /\ s[1] = c /\ s[2] = cycle[c] + 1 /\ s[2] > cycle[c]
  BY <1>2, <1>5 DEF Sessions
<1>7. \A x \in Sessions : Kept(x)
  BY <1>1, SameKept
<1>8. /\ cycle' \in [Clients -> 0 .. Cycles] /\ cycle'[c] = cycle[c] + 1
      /\ \A d \in Clients : d # c => cycle'[d] = cycle[d] /\ at'[d] = at[d]
      /\ at'[c] = a
  BY <1>0, <1>3, <1>4, <1>5 DEF ClientTypes
<1>9. ClientTypes'
  <2>1. at' \in [Clients -> Places]
    BY <1>0, <1>3 DEF ClientTypes, Places
  <2>2. cycle'[c] > 0
    BY <1>5, <1>8
  <2> QED
    BY <1>0, <1>1, <1>8, <2>1, <2>2 DEF ClientTypes, Places
<1>10. SessionInv'
  BY <1>0, <1>1, <1>7 DEF SessionInv, Kept
<1>11. UnusedInv'
  <2> SUFFICES ASSUME NEW x \in Sessions, x[2] > cycle'[x[1]]
               PROVE  NoEnter(x)'
    BY DEF UnusedInv
  <2>1. x[2] > cycle[x[1]]
    <3>1. x[1] \in Clients /\ x[2] \in Nat
      BY DEF Sessions
    <3>2. CASE x[1] = c
      BY <1>5, <1>8, <3>1, <3>2
    <3>3. CASE x[1] # c
      BY <1>8, <3>1, <3>3
    <3> QED
      BY <3>2, <3>3
  <2> QED
    BY <1>0, <1>7, <2>1 DEF UnusedInv, Kept
<1>12. ASSUME NEW d \in Clients
       PROVE  PhaseOf(d, Sid(d))'
  <2>1. CASE d = c
    <3>1. NoEnter(s)
      BY <1>0, <1>6 DEF UnusedInv
    <3>2. NoEnter(s)'
      BY <1>6, <1>7, <3>1 DEF Kept
    <3>3. Sid(c)' = s
      BY <1>2, <1>8 DEF Sid
    <3> QED
      BY <2>1, <3>2, <3>3 DEF PhaseOf
  <2>2. CASE d # c
    <3>1. at'[d] = at[d] /\ Sid(d)' = Sid(d)
      BY <1>8, <2>2 DEF Sid
    <3>2. CASE at[d] \notin Before
      BY <3>1, <3>2 DEF PhaseOf
    <3>3. CASE at[d] \in Before
      <4>1. PICK x : x = Sid(d)
        OBVIOUS
      <4>2. x \in Sessions
        BY <1>0, <3>3, <4>1, CurrentSession DEF Before
      <4>3. PhaseOf(d, x) /\ Kept(x)
        BY <1>0, <1>7, <4>1, <4>2 DEF PhaseInv
      <4>4. PhaseOf(d, x)'
        BY <3>1, <4>3 DEF PhaseOf, Kept
      <4> QED
        BY <3>1, <4>1, <4>4 DEF PhaseOf
    <3> QED
      BY <3>2, <3>3
  <2> QED
    BY <2>1, <2>2
<1>13. OnlyEarlyStray'
  BY <1>0, <1>1 DEF OnlyEarlyStray
<1> QED
  BY <1>9, <1>10, <1>11, <1>12, <1>13 DEF BotInv, PhaseInv

(* SIGNUP_REQ and LOGIN_REQ: there is no enter when they are sent. *)
LEMMA RequestInv ==
  ASSUME BotInv, NEW c \in Clients, SignUp(c) \/ Login(c)
  PROVE  BotInv'
<1>1. PICK type \in JobTypes, next \in {"signupDrain", "loginDrain"} :
        /\ at[c] \in {"signup", "login"} /\ SendStep /\ UNCHANGED early
        /\ Send(c, Pkt(type), next, Failed(c, next))
  BY DEF SignUp, Login, JobTypes
<1>2. PICK s, p, f : s = Sid(c) /\ p = Pkt(type) /\ f = Failed(c, next)
  OBVIOUS
<1>3. /\ next \in Places /\ f \in Places /\ p \in WirePacket /\ p.type = type
      /\ at[c] \notin {"connect", "exit"} /\ UNCHANGED <<vars, cycle>>
  BY <1>1, <1>2, PacketKinds DEF Failed, Places, SendStep
<1>4. /\ s \in Sessions /\ UNCHANGED <<players, rooms, contentQ, jobs, dbJob, results>>
      /\ toServer' \in [Sessions -> Seq(WirePacket)]
      /\ \A x \in Sessions : x # s => Kept(x)
      /\ \/ Kept(s) /\ \E a \in {next, f} : at' = [at EXCEPT ![c] = a]
         \/ toServer'[s] = Append(toServer[s], p) /\ at' = [at EXCEPT ![c] = next]
  <2>1. Send(c, p, next, f)
    BY <1>1, <1>2
  <2> QED
    BY <1>2, <1>3, <2>1, SendSession
<1>5. NoEnter(s) /\ at[c] \in Before
  BY <1>1, <1>2 DEF BotInv, PhaseInv, PhaseOf, Before
<1>6. CASE Kept(s) /\ \E a \in {next, f} : at' = [at EXCEPT ![c] = a]
  BY <1>1, <1>2, <1>3, <1>4, <1>5, <1>6, ClientGoesOn
<1>7. CASE toServer'[s] = Append(toServer[s], p) /\ at' = [at EXCEPT ![c] = next]
  <2>1. PICK w : w = toServer[s]
    OBVIOUS
  <2>2. w \in Seq(WirePacket) /\ toServer'[s] = Append(w, p)
    BY <1>4, <1>7, <2>1 DEF BotInv, ClientTypes
  <2>3. p.type \notin {"enter"}
    BY <1>3 DEF JobTypes
  <2>4. Absent(s, Append(w, p), contentQ, {"enter"})
    BY <1>3, <1>5, <2>1, <2>2, <2>3, WireGrows DEF NoEnter
  <2>5. NoEnter(s)'
    BY <1>4, <1>5, <2>2, <2>4 DEF NoEnter, InNoRoom
  <2>6. OneEnter(s)' /\ PhaseOf(c, s)'
    BY <2>5, NoneIsOneNext DEF PhaseOf
  <2> QED
    BY <1>1, <1>2, <1>3, <1>4, <1>7, <2>5, <2>6, ClientMoves
<1> QED
  BY <1>4, <1>6, <1>7

(* ROOM_ENTER: there is no other enter, and no login unless the session is *)
(* of early from now on.                                                   *)
LEMMA RoomEnterInv ==
  ASSUME BotInv, NEW c \in Clients, RoomEnter(c)
  PROVE  BotInv'
<1>1. PICK r \in RoomNos \cup {1} :
        /\ at[c] = "enter" /\ SendStep
        /\ Send(c, Enter(r), "enterDrain", Failed(c, "enterDrain"))
        /\ early' = IF LoginUnderWay(Sid(c)) THEN early \cup {Sid(c)} ELSE early
  BY DEF RoomEnter
<1>2. PICK s, p, f : s = Sid(c) /\ p = Enter(r) /\ f = Failed(c, "enterDrain")
  OBVIOUS
<1>3. /\ "enterDrain" \in Places \ Before /\ f \in Places \ Before
      /\ p \in WirePacket /\ p.type = "enter"
      /\ at[c] \notin {"connect", "exit"} /\ UNCHANGED <<vars, cycle>>
      /\ early' \in {early, early \cup {s}}
  BY <1>1, <1>2, PacketKinds DEF Failed, Places, Before, SendStep
<1>4. /\ s \in Sessions /\ UNCHANGED <<players, rooms, contentQ, jobs, dbJob, results>>
      /\ toServer' \in [Sessions -> Seq(WirePacket)]
      /\ \A x \in Sessions : x # s => Kept(x)
      /\ \/ Kept(s) /\ \E a \in {"enterDrain", f} : at' = [at EXCEPT ![c] = a]
         \/ toServer'[s] = Append(toServer[s], p) /\ at' = [at EXCEPT ![c] = "enterDrain"]
  <2>1. Send(c, p, "enterDrain", f)
    BY <1>1, <1>2
  <2> QED
    BY <1>2, <1>3, <2>1, SendSession
<1>5. NoEnter(s) /\ at \in [Clients -> Places]
  BY <1>1, <1>2 DEF BotInv, PhaseInv, PhaseOf, Before, ClientTypes, Places
<1>6. CASE Kept(s) /\ \E a \in {"enterDrain", f} : at' = [at EXCEPT ![c] = a]
  BY <1>2, <1>3, <1>4, <1>6, ClientGoesOn
<1>7. CASE toServer'[s] = Append(toServer[s], p) /\ at' = [at EXCEPT ![c] = "enterDrain"]
  <2>1. PICK w : w = toServer[s]
    OBVIOUS
  <2>2. w \in Seq(WirePacket) /\ toServer'[s] = Append(w, p)
    BY <1>4, <1>7, <2>1 DEF BotInv, ClientTypes
  <2>3. p.type \notin {"login"}
    BY <1>3
  <2>4. AtMostOne(s, Append(w, p), contentQ, {"enter"}) /\ InNoRoom(s)
    BY <1>3, <1>5, <2>1, <2>2, WireGrows DEF NoEnter
  <2>5. OneEnter(s)'
    BY <1>4, <2>2, <2>4 DEF OneEnter, InNoRoom
  <2>6. s \in early' \/ NoLogin(s)'
    <3>1. CASE LoginUnderWay(s)
      BY <1>1, <1>2, <3>1
    <3>2. CASE ~LoginUnderWay(s)
      <4>1. Absent(s, w, contentQ, {"login"})
        BY <2>1, <3>2 DEF LoginUnderWay, Absent, Where, Typed, Received
      <4>2. Accepts(s) = {}
        BY <3>2 DEF LoginUnderWay, Positions, Accepts, Where, Accepted
      <4>3. Absent(s, Append(w, p), contentQ, {"login"})
        BY <1>3, <2>2, <2>3, <4>1, WireGrows
      <4> QED
        BY <1>4, <2>2, <4>2, <4>3 DEF NoLogin, Accepts, Pipeline
    <3> QED
      BY <3>1, <3>2
  <2>7. PhaseOf(c, s)'
    BY <1>3, <1>5, <1>7 DEF PhaseOf
  <2> QED
    BY <1>2, <1>3, <1>4, <1>7, <2>5, <2>6, <2>7, ClientMoves
<1> QED
  BY <1>4, <1>6, <1>7

(* Everything else a client sends. *)
LEMMA OtherSendInv ==
  ASSUME BotInv, NEW c \in Clients,
         Chat(c) \/ RoomLeave(c) \/ TamperNormal(c) \/ TamperSend(c)
  PROVE  BotInv'
<1>1. PICK p \in {Pkt("chat"), Pkt("leave"), Tampered},
           next \in {"chatDrain", "close", "normalDrain", "select"},
           f \in {"failed", "chatDrain", "close", "normalDrain", "select"} :
        /\ at[c] \in {"chat", "tamper"} /\ SendStep /\ UNCHANGED early
        /\ Send(c, p, next, f)
  BY DEF Chat, RoomLeave, TamperNormal, TamperSend
<1>2. PICK s : s = Sid(c)
  OBVIOUS
<1>3. /\ next \in Places \ Before /\ f \in Places \ Before
      /\ p \in WirePacket /\ p.type # "login" /\ p.type # "enter"
      /\ at[c] \notin {"connect", "exit"} /\ UNCHANGED <<vars, cycle>>
  <2>1. p \in WirePacket /\ p.type \in {"chat", "leave", "tampered"}
    BY PacketKinds
  <2> QED
    BY <1>1, <2>1 DEF Places, Before, SendStep
<1>4. /\ s \in Sessions /\ UNCHANGED <<players, rooms>>
      /\ toServer' \in [Sessions -> Seq(WirePacket)]
      /\ \A x \in Sessions : Kept(x)
      /\ \E a \in {next, f} : at' = [at EXCEPT ![c] = a]
  BY <1>1, <1>2, <1>3, SendSession
<1> QED
  BY <1>1, <1>2, <1>3, <1>4, ClientGoesOn

(* Every DrainRecv. *)
LEMMA DrainInv ==
  ASSUME BotInv, NEW c \in Clients,
         \/ SignUpDrain(c) \/ LoginDrain(c) \/ RoomEnterDrain(c)
         \/ ChatDrain(c) \/ ObserverDrain(c) \/ TamperNormalDrain(c)
  PROVE  BotInv'
<1>1. PICK next \in {"login", "enter", "chat", "tamper"},
           closed \in {"login", "enter", "chat", "failed", "tamper"} :
        /\ Drain(c, next, closed) /\ DrainStep
        /\ \/ at[c] \in {"signupDrain", "loginDrain"}
           \/ /\ at[c] \in {"enterDrain", "chatDrain", "chat", "normalDrain"}
              /\ next \notin Before /\ closed \notin Before
  BY DEF SignUpDrain, LoginDrain, RoomEnterDrain, ChatDrain, ObserverDrain, TamperNormalDrain,
         Before
<1>2. PICK s : s = Sid(c)
  OBVIOUS
<1>3. /\ next \in Places /\ closed \in Places
      /\ at[c] \in Before \/ (next \notin Before /\ closed \notin Before)
      /\ at[c] \notin {"connect", "exit"} /\ UNCHANGED <<vars, toServer, cycle, early>>
  BY <1>1 DEF Places, Before, DrainStep
<1>4. /\ UNCHANGED <<players, rooms>> /\ toServer' \in [Sessions -> Seq(WirePacket)]
      /\ \A x \in Sessions : Kept(x)
      /\ \E a \in {next, closed} : at' = [at EXCEPT ![c] = a]
  BY <1>1, <1>3, DrainSession
<1> QED
  BY <1>2, <1>3, <1>4, ClientGoesOn

(* The end of a connection. *)
LEMMA EndInv ==
  ASSUME BotInv, NEW c \in Clients, EndSession(c) \/ TamperVerdict(c)
  PROVE  BotInv'
<1>1. PICK s : s = Sid(c)
  OBVIOUS
<1>2. PICK a \in {"connect", "exit"} :
        /\ at[c] \in {"close", "failed", "select"} /\ at' = [at EXCEPT ![c] = a]
        /\ UNCHANGED <<vars, cycle, early>>
        /\ toServer' \in {toServer, [toServer EXCEPT ![s] = <<>>]}
  BY <1>1 DEF EndSession, TamperVerdict
<1>3. /\ toServer \in [Sessions -> Seq(WirePacket)]
      /\ s \in Sessions /\ at[c] \notin {"connect", "exit"} /\ a \in Places \ Before
  BY <1>1, <1>2, CurrentSession DEF BotInv, ClientTypes, Places, Before
<1>4. /\ toServer' \in [Sessions -> Seq(WirePacket)]
      /\ \A x \in Sessions : toServer'[x] \in {<<>>, toServer[x]}
  <2>1. <<>> \in Seq(WirePacket)
    OBVIOUS
  <2>2. CASE toServer' = toServer
    BY <1>3, <2>2
  <2>3. CASE toServer' = [toServer EXCEPT ![s] = <<>>]
    BY <1>3, <2>1, <2>3
  <2> QED
    BY <1>2, <2>2, <2>3
<1>5. UNCHANGED <<players, rooms, contentQ, jobs, dbJob, results>>
  BY <1>2 DEF vars
<1>6. ASSUME NEW x \in Sessions
      PROVE  Kept(x)
  <2>1. CASE toServer'[x] = toServer[x]
    BY <1>5, <2>1, SameKept
  <2>2. CASE toServer'[x] = <<>>
    <3>1. \A T : /\ Absent(x, toServer[x], contentQ, T) => Absent(x, <<>>, contentQ, T)
                 /\ AtMostOne(x, toServer[x], contentQ, T) => AtMostOne(x, <<>>, contentQ, T)
      BY Fewer
    <3> QED
      BY <1>5, <2>2, <3>1, QueueKept
  <2> QED
    BY <1>4, <2>1, <2>2
<1> QED
  BY <1>1, <1>2, <1>3, <1>4, <1>5, <1>6, ClientGoesOn

(* A bot that ends, and the steps of RunAuto. *)
LEMMA AutoInv ==
  ASSUME BotInv, (\E c \in Clients : BotExits(c)) \/ PressQ \/ WaitBots \/ UNCHANGED allVars
  PROVE  BotInv'
<1>0. ClientTypes /\ SessionInv /\ UnusedInv /\ PhaseInv /\ OnlyEarlyStray
  BY DEF BotInv
<1>1. UNCHANGED <<players, rooms, contentQ, jobs, dbJob, results, cycle, toServer, early>>
  BY DEF BotExits, PressQ, WaitBots, allVars, vars, clientVars, wireVars
<1>2. at' = at \/ \E c \in Clients : at' = [at EXCEPT ![c] = "exit"]
  BY DEF BotExits, PressQ, WaitBots, allVars, clientVars
<1>3. /\ at' \in [Clients -> Places]
      /\ \A d \in Clients : at'[d] \in {"exit", at[d]} /\ (at'[d] \in Before => at'[d] = at[d])
  BY <1>0, <1>2 DEF ClientTypes, Places, Before
<1>4. \A x \in Sessions : Kept(x)
  BY <1>1, SameKept
<1>5. ClientTypes'
  BY <1>0, <1>1, <1>3 DEF ClientTypes, Places
<1>6. SessionInv' /\ UnusedInv' /\ OnlyEarlyStray'
  BY <1>0, <1>1, <1>4 DEF SessionInv, UnusedInv, OnlyEarlyStray, Kept
<1>7. ASSUME NEW d \in Clients, at'[d] \in Before
      PROVE  PhaseOf(d, Sid(d))'
  <2>1. PICK x : x = Sid(d)
    OBVIOUS
  <2>2. x \in Sessions /\ at'[d] = at[d] /\ Sid(d)' = x
    BY <1>0, <1>1, <1>3, <1>7, <2>1, CurrentSession DEF Before, Sid
  <2>3. PhaseOf(d, x) /\ Kept(x)
    BY <1>0, <1>4, <2>1, <2>2 DEF PhaseInv
  <2>4. PhaseOf(d, x)'
    BY <2>2, <2>3 DEF PhaseOf, Kept
  <2> QED
    BY <2>2, <2>4 DEF PhaseOf
<1>8. PhaseInv'
  BY <1>7 DEF PhaseInv, PhaseOf
<1> QED
  BY <1>5, <1>6, <1>8 DEF BotInv
-----------------------------------------------------------------------------
(* The clients and the server together *)

WireTyped == toServer \in [Sessions -> Seq(WirePacket)]

(* Only the packets of the clients are on the wires. *)
LEMMA NextWire == WireTyped /\ [ClientNext]_allVars => WireTyped'
<1> SUFFICES ASSUME WireTyped, [ClientNext]_allVars PROVE WireTyped'
  OBVIOUS
<1>1. toServer \in [Sessions -> Seq(WirePacket)] /\ <<>> \in Seq(WirePacket)
  BY DEF WireTyped
<1>2. ASSUME NEW c, NEW p \in WirePacket, NEW next, NEW failed, Send(c, p, next, failed)
      PROVE  WireTyped'
  <2>1. CASE toServer' = toServer
    BY <1>1, <2>1 DEF WireTyped
  <2>2. CASE toServer' = [toServer EXCEPT ![Sid(c)] = Append(@, p)]
    <3>1. PICK s : s = Sid(c)
      OBVIOUS
    <3>2. s \in Sessions => Append(toServer[s], p) \in Seq(WirePacket)
      BY <1>1, AppendEntries
    <3> QED
      BY <1>1, <2>2, <3>1, <3>2 DEF WireTyped
  <2> QED
    BY <1>2, <2>1, <2>2 DEF Send
<1>3. ASSUME NEW c \in Clients, BotThread(c) \/ RunTamper(c)
      PROVE  WireTyped'
  <2>1. CASE UNCHANGED toServer
    BY <1>1, <2>1 DEF WireTyped
  <2>2. CASE EndSession(c)
    BY <1>1, <2>2 DEF EndSession, WireTyped
  <2>3. \/ UNCHANGED toServer
        \/ EndSession(c)
        \/ \E p \in WirePacket : \E next, failed : Send(c, p, next, failed)
    <3>1. CASE SignUp(c)
      BY <3>1, PacketKinds DEF SignUp, JobTypes
    <3>2. CASE Login(c)
      BY <3>2, PacketKinds DEF Login, JobTypes
    <3>3. CASE RoomEnter(c)
      BY <3>3, PacketKinds DEF RoomEnter
    <3>4. CASE Chat(c)
      BY <3>4, PacketKinds DEF Chat
    <3>5. CASE RoomLeave(c)
      BY <3>5, PacketKinds DEF RoomLeave
    <3>6. CASE TamperNormal(c) \/ TamperSend(c)
      BY <3>6, PacketKinds DEF TamperNormal, TamperSend
    <3>7. CASE \/ SignUpDrain(c) \/ LoginDrain(c) \/ RoomEnterDrain(c) \/ ChatDrain(c)
               \/ ObserverDrain(c) \/ TamperNormalDrain(c)
      BY <3>7 DEF SignUpDrain, LoginDrain, RoomEnterDrain, ChatDrain, ObserverDrain,
                  TamperNormalDrain, DrainStep
    <3>8. CASE Connect(c) \/ BotExits(c) \/ TamperVerdict(c)
      BY <3>8 DEF Connect, BotExits, TamperVerdict, wireVars
    <3> QED
      BY <1>3, <3>1, <3>2, <3>3, <3>4, <3>5, <3>6, <3>7, <3>8 DEF BotThread, RunTamper
  <2> QED
    BY <1>2, <2>1, <2>2, <2>3
<1>4. ASSUME NEW sid \in Sessions, ServerRecv(sid)
      PROVE  WireTyped'
  <2>1. toServer[sid] # <<>> /\ Tail(toServer[sid]) \in Seq(WirePacket)
    BY <1>1, <1>4, TailEntries DEF ServerRecv
  <2> QED
    BY <1>1, <1>4, <2>1 DEF ServerRecv, WireTyped
<1>5. CASE \/ UNCHANGED allVars \/ PressQ \/ WaitBots \/ ServerUpdate \/ ServerDb
           \/ \E sid \in Sessions : ServerAccept(sid) \/ ServerClose(sid)
  BY <1>1, <1>5 DEF allVars, wireVars, PressQ, WaitBots, ServerUpdate, ServerDb, ServerAccept,
                    ServerClose, WireTyped
<1> QED
  BY <1>3, <1>4, <1>5 DEF ClientNext, ServerNet

(* What the composition does to the content is a step of the content. *)
LEMMA ContentStep == WireTyped /\ [ClientNext]_allVars => [Next]_vars
<1> SUFFICES ASSUME WireTyped, [ClientNext]_allVars PROVE [Next]_vars
  OBVIOUS
<1>1. ASSUME NEW c \in Clients, BotThread(c) \/ RunTamper(c)
      PROVE  UNCHANGED vars
  <2>1. CASE SendStep \/ DrainStep
    BY <2>1 DEF SendStep, DrainStep
  <2>2. CASE Connect(c) \/ EndSession(c) \/ BotExits(c) \/ TamperVerdict(c)
    BY <2>2 DEF Connect, EndSession, BotExits, TamperVerdict
  <2> QED
    BY <1>1, <2>1, <2>2 DEF BotThread, RunTamper, SignUp, SignUpDrain, Login, LoginDrain, RoomEnter,
       RoomEnterDrain, Chat, ChatDrain, ObserverDrain, RoomLeave, TamperNormal, TamperNormalDrain,
       TamperSend
<1>2. CASE UNCHANGED allVars \/ PressQ \/ WaitBots
  BY <1>2 DEF allVars, PressQ, WaitBots
<1>3. CASE ServerUpdate \/ ServerDb
  BY <1>3 DEF ServerUpdate, ServerDb, Next
<1>4. ASSUME NEW sid \in Sessions, ServerAccept(sid) \/ ServerRecv(sid) \/ ServerClose(sid)
      PROVE  NetworkStep
  <2>1. sid \in Sids
    BY SessionsAssumption
  <2>2. CASE ServerAccept(sid) \/ ServerClose(sid)
    BY <2>1, <2>2 DEF ServerAccept, ServerClose, NetworkStep
  <2>3. CASE ServerRecv(sid)
    <3>1. PICK p : p = Head(toServer[sid])
      OBVIOUS
    <3>2. p \in WirePacket
      BY <2>3, <3>1, TailEntries DEF WireTyped, ServerRecv
    <3>3. OnClientLeave(sid) \/ (p # Tampered /\ OnRecv(sid, p))
      BY <2>3, <3>1 DEF ServerRecv
    <3> QED
      BY <2>1, <3>2, <3>3 DEF NetworkStep, WirePacket
  <2> QED
    BY <1>4, <2>2, <2>3
<1> QED
  BY <1>1, <1>2, <1>3, <1>4 DEF ClientNext, ServerNet, Next

(* The wires are empty at first. *)
LEMMA InitWire == ClientInit => WireTyped
<1>1. <<>> \in Seq(WirePacket)
  OBVIOUS
<1> QED
  BY <1>1 DEF ClientInit, WireTyped

(* The server under these clients is the content of CChatServer: whatever  *)
(* is proved of CChatServer holds in the load test.                        *)
THEOREM Composition == ClientSpec => Spec
<1>1. ClientInit => Init
  BY DEF ClientInit
<1> QED
  BY <1>1, InitWire, NextWire, ContentStep, PTL DEF ClientSpec, Spec
-----------------------------------------------------------------------------
(* RunAuto's counters *)

(* The bots that have a connection.                                        *)
Open == {c \in AutoBots : at[c] \notin {"connect", "exit"}}

(* The places of RunTamper are not a bot's, and a wait that did not time   *)
(* out ends when the bots of its batch have.                               *)
CountInv ==
  /\ at \in [Clients -> Places]
  /\ \A c \in AutoBots : at[c] \notin {"normalDrain", "tamper", "select"}
  /\ conn \in Nat /\ disc \in Nat /\ conn = disc + Cardinality(Open)
  /\ off \in Nat
  /\ ~timedOut => \A c \in AutoBots : c <= off => at[c] = "exit"
  /\ main = "final" => off >= NBots

(* A bot that has ended stays so; conn, disc and the bots with a           *)
(* connection change together.                                             *)
LEMMA CountStep ==
  ASSUME CountInv, NEW c \in Clients, NEW a \in Places, at' = [at EXCEPT ![c] = a],
         at[c] # "exit", UNCHANGED <<off, main, timedOut>>,
         c \in AutoBots => a \notin {"normalDrain", "tamper", "select"},
         conn' = IF c \in AutoBots /\ at[c] = "connect" /\ a \notin {"connect", "exit"}
                   THEN conn + 1 ELSE conn,
         disc' = IF c \in AutoBots /\ at[c] # "connect" /\ a \in {"connect", "exit"}
                   THEN disc + 1 ELSE disc
  PROVE  CountInv'
<1>1. at' \in [Clients -> Places] /\ at'[c] = a /\ \A d \in Clients : d # c => at'[d] = at[d]
  BY DEF CountInv
<1>2. AutoBots \subseteq Clients /\ IsFiniteSet(AutoBots)
  <2>1. IsFiniteSet(1 .. NBots)
    BY ClientAssumption, FS_Interval
  <2> QED
    BY <2>1 DEF AutoBots, Clients
<1>3. IsFiniteSet(Open) /\ Cardinality(Open) \in Nat
  <2>1. Open \subseteq AutoBots
    BY DEF Open
  <2> QED
    BY <1>2, <2>1, FS_Subset, FS_CardinalityType
<1>4. c \in AutoBots => (c \in Open <=> at[c] # "connect")
  BY DEF Open
<1>5. conn' \in Nat /\ disc' \in Nat /\ conn' = disc' + Cardinality(Open')
  <2>0. conn \in Nat /\ disc \in Nat /\ conn = disc + Cardinality(Open)
    BY DEF CountInv
  <2>1. CASE c \in AutoBots /\ at[c] = "connect" /\ a \notin {"connect", "exit"}
    <3>1. Open' = Open \cup {c} /\ c \notin Open
      BY <1>1, <1>2, <2>1 DEF Open
    <3>2. Cardinality(Open') = Cardinality(Open) + 1
      BY <1>3, <3>1, FS_AddElement
    <3>3. conn' = conn + 1 /\ disc' = disc
      BY <2>1
    <3> QED
      BY <1>3, <2>0, <3>2, <3>3
  <2>2. CASE c \in AutoBots /\ at[c] # "connect" /\ a \in {"connect", "exit"}
    <3>1. Open' = Open \ {c} /\ c \in Open
      BY <1>1, <1>2, <2>2 DEF Open
    <3>2. Cardinality(Open') = Cardinality(Open) - 1
      BY <1>3, <3>1, FS_RemoveElement
    <3>3. conn' = conn /\ disc' = disc + 1
      BY <2>2
    <3> QED
      BY <1>3, <2>0, <3>2, <3>3
  <2>3. CASE ~ \/ c \in AutoBots /\ at[c] = "connect" /\ a \notin {"connect", "exit"}
               \/ c \in AutoBots /\ at[c] # "connect" /\ a \in {"connect", "exit"}
    <3>1. Open' = Open
      BY <1>1, <1>2, <2>3 DEF Open
    <3>2. conn' = conn /\ disc' = disc
      BY <2>3
    <3> QED
      BY <2>0, <3>1, <3>2
  <2> QED
    BY <2>1, <2>2, <2>3
<1>6. ~timedOut' => \A d \in AutoBots : d <= off' => at'[d] = "exit"
  BY <1>1, <1>2 DEF CountInv
<1>7. \A d \in AutoBots : at'[d] \notin {"normalDrain", "tamper", "select"}
  BY <1>1, <1>2 DEF CountInv
<1> QED
  BY <1>1, <1>5, <1>6, <1>7 DEF CountInv

(* Every step keeps CountInv. *)
LEMMA NextCount == CountInv /\ [ClientNext]_allVars => CountInv'
<1> SUFFICES ASSUME CountInv, [ClientNext]_allVars PROVE CountInv'
  OBVIOUS
<1>0. at \in [Clients -> Places] /\ TamperClients \cap AutoBots = {}
  BY ClientAssumption DEF CountInv, AutoBots
<1>1. ASSUME NEW c \in Clients, BotThread(c) \/ RunTamper(c)
      PROVE  CountInv'
  <2>1. CASE Connect(c)
    <3>1. PICK a \in {"signup", "login"} : at' = [at EXCEPT ![c] = a]
      BY <2>1 DEF Connect
    <3>2. /\ at[c] = "connect" /\ conn' = (IF c \in AutoBots THEN conn + 1 ELSE conn)
          /\ disc' = disc /\ UNCHANGED <<off, main, timedOut>> /\ a \in Places
      BY <2>1 DEF Connect, autoVars, Places
    <3> QED
      BY <3>1, <3>2, CountStep
  <2>2. CASE EndSession(c)
    <3>1. /\ at' = [at EXCEPT ![c] = "connect"] /\ at[c] \in {"close", "failed"} /\ c \in AutoBots
          /\ conn' = conn /\ disc' = disc + 1 /\ UNCHANGED <<off, main, timedOut>>
          /\ "connect" \in Places
      BY <2>2 DEF EndSession, autoVars, Places
    <3> QED
      BY <3>1, CountStep
  <2>3. CASE BotExits(c)
    <3>1. /\ at' = [at EXCEPT ![c] = "exit"] /\ at[c] = "connect"
          /\ conn' = conn /\ disc' = disc /\ UNCHANGED <<off, main, timedOut>>
          /\ "exit" \in Places
      BY <2>3 DEF BotExits, autoVars, Places
    <3> QED
      BY <3>1, CountStep
  <2>4. CASE TamperVerdict(c)
    <3>1. /\ at' = [at EXCEPT ![c] = "exit"] /\ at[c] = "select" /\ c \notin AutoBots
          /\ conn' = conn /\ disc' = disc /\ UNCHANGED <<off, main, timedOut>>
          /\ "exit" \in Places
      BY <2>4 DEF TamperVerdict, autoVars, Places, CountInv
    <3> QED
      BY <3>1, CountStep
  <2>5. ASSUME NEW a \in Places \ {"connect", "exit"}, at' = [at EXCEPT ![c] = a],
               at[c] \notin {"connect", "exit"}, SendStep \/ DrainStep,
               c \in AutoBots => a \notin {"normalDrain", "tamper", "select"}
        PROVE  CountInv'
    <3>1. conn' = conn /\ disc' = disc /\ UNCHANGED <<off, main, timedOut>>
      BY <2>5 DEF SendStep, DrainStep, autoVars
    <3> QED
      BY <2>5, <3>1, CountStep
  <2>6. ASSUME NEW p, NEW next, NEW failed, Send(c, p, next, failed)
        PROVE  \E a \in {next, failed} : at' = [at EXCEPT ![c] = a]
    BY <2>6 DEF Send
  <2>7. ASSUME NEW next, NEW closed, Drain(c, next, closed)
        PROVE  \E a \in {next, closed} : at' = [at EXCEPT ![c] = a]
    BY <2>7 DEF Drain
  <2>8. CASE SignUp(c) \/ Login(c) \/ RoomEnter(c)
    <3>1. PICK next \in {"signupDrain", "loginDrain", "enterDrain"} :
            \E p : Send(c, p, next, Failed(c, next))
      BY <2>8 DEF SignUp, Login, RoomEnter
    <3>2. PICK a \in {next, "failed"} : at' = [at EXCEPT ![c] = a]
      BY <2>6, <3>1 DEF Failed
    <3>3. /\ a \in Places \ {"connect", "exit"} /\ a \notin {"normalDrain", "tamper", "select"}
          /\ at[c] \notin {"connect", "exit"} /\ SendStep
      BY <2>8 DEF SignUp, Login, RoomEnter, Places
    <3> QED
      BY <2>5, <3>2, <3>3
  <2>9. CASE Chat(c) \/ RoomLeave(c)
    <3>1. PICK next \in {"chatDrain", "close"}, failed \in {"failed", "chatDrain", "close"} :
            \E p : Send(c, p, next, failed)
      BY <2>9 DEF Chat, RoomLeave
    <3>2. PICK a \in {"failed", "chatDrain", "close"} : at' = [at EXCEPT ![c] = a]
      BY <2>6, <3>1
    <3>3. /\ a \in Places \ {"connect", "exit"} /\ a \notin {"normalDrain", "tamper", "select"}
          /\ at[c] \notin {"connect", "exit"} /\ SendStep
      BY <2>9 DEF Chat, RoomLeave, Places
    <3> QED
      BY <2>5, <3>2, <3>3
  <2>10. CASE TamperNormal(c) \/ TamperSend(c)
    <3>1. PICK next \in {"normalDrain", "select"} : \E p : Send(c, p, next, next)
      BY <2>10 DEF TamperNormal, TamperSend
    <3>2. at' = [at EXCEPT ![c] = next]
      BY <2>6, <3>1
    <3>3. /\ next \in Places \ {"connect", "exit"} /\ c \notin AutoBots
          /\ at[c] \notin {"connect", "exit"} /\ SendStep
      BY <1>0, <2>10 DEF TamperNormal, TamperSend, Places, CountInv
    <3> QED
      BY <2>5, <3>2, <3>3
  <2>11. CASE SignUpDrain(c) \/ LoginDrain(c) \/ RoomEnterDrain(c) \/ ChatDrain(c) \/ ObserverDrain(c)
    <3>1. PICK next \in {"login", "enter", "chat"}, closed \in {"login", "enter", "chat", "failed"} :
            Drain(c, next, closed)
      BY <2>11 DEF SignUpDrain, LoginDrain, RoomEnterDrain, ChatDrain, ObserverDrain
    <3>2. PICK a \in {"login", "enter", "chat", "failed"} : at' = [at EXCEPT ![c] = a]
      BY <2>7, <3>1
    <3>3. /\ a \in Places \ {"connect", "exit"} /\ a \notin {"normalDrain", "tamper", "select"}
          /\ at[c] \notin {"connect", "exit"} /\ DrainStep
      BY <2>11 DEF SignUpDrain, LoginDrain, RoomEnterDrain, ChatDrain, ObserverDrain, Places
    <3> QED
      BY <2>5, <3>2, <3>3
  <2>12. CASE TamperNormalDrain(c)
    <3>1. at' = [at EXCEPT ![c] = "tamper"]
      BY <2>7, <2>12 DEF TamperNormalDrain
    <3>2. /\ "tamper" \in Places \ {"connect", "exit"} /\ c \notin AutoBots
          /\ at[c] \notin {"connect", "exit"} /\ DrainStep
      BY <2>12 DEF TamperNormalDrain, Places, CountInv
    <3> QED
      BY <2>5, <3>1, <3>2
  <2> QED
    BY <1>1, <2>1, <2>2, <2>3, <2>4, <2>8, <2>9, <2>10, <2>11, <2>12 DEF BotThread, RunTamper
<1>2. CASE PressQ
  BY <1>2 DEF PressQ, clientVars, CountInv, Open
<1>3. CASE WaitBots
  <2>1. UNCHANGED <<at, conn, disc>> /\ off' = off + BatchSize
    BY <1>3 DEF WaitBots, clientVars
  <2>2. /\ off \in Nat /\ BatchSize \in Nat /\ off' \in Nat /\ NBots \in Nat
    BY <2>1, ClientAssumption DEF CountInv
  <2>3. main' = "final" => off' >= NBots
    BY <1>3, <2>1, <2>2 DEF WaitBots
  <2>4. ~timedOut' => ~timedOut /\ \A c \in Batch : at[c] = "exit"
    BY <1>3 DEF WaitBots
  <2>5. \A c \in AutoBots : c <= off' => c <= off \/ c \in Batch
    BY <2>1, <2>2 DEF AutoBots, Batch
  <2>6. ~timedOut' => \A c \in AutoBots : c <= off' => at'[c] = "exit"
    BY <2>1, <2>4, <2>5 DEF CountInv
  <2> QED
    BY <2>1, <2>2, <2>3, <2>6 DEF CountInv, Open
<1>4. CASE UNCHANGED allVars \/ ServerNet \/ ServerUpdate \/ ServerDb
  <2>1. UNCHANGED <<clientVars, autoVars>>
    BY <1>4 DEF allVars, ServerNet, ServerAccept, ServerRecv, ServerClose, ServerUpdate, ServerDb
  <2> QED
    BY <2>1 DEF clientVars, autoVars, CountInv, Open
<1> QED
  BY <1>1, <1>2, <1>3, <1>4 DEF ClientNext

(* RunAuto starts with nothing counted. *)
LEMMA InitCount == ClientInit => CountInv
<1> SUFFICES ASSUME ClientInit PROVE CountInv
  OBVIOUS
<1>1. /\ at = [c \in Clients |-> "connect"] /\ conn = 0 /\ disc = 0 /\ off = 0
      /\ main = "run" /\ timedOut = FALSE
  BY DEF ClientInit
<1>2. \A c \in AutoBots : c \in Clients /\ ~(c <= 0)
  BY ClientAssumption DEF AutoBots, Clients
<1>3. Open = {}
  BY <1>1, <1>2 DEF Open
<1>4. Cardinality(Open) = 0
  BY <1>3, FS_EmptySet
<1> QED
  BY <1>1, <1>2, <1>4 DEF CountInv, Places

(* The final line of RunAuto: if no wait timed out, every connection that  *)
(* was counted when made was counted when closed, however it ended, for    *)
(* any number of bots and batches.                                         *)
THEOREM FinalCount == ClientSpec => []FinalBalanced
<1>1. CountInv => FinalBalanced
  <2> SUFFICES ASSUME CountInv, main = "final", ~timedOut PROVE conn = disc
    BY DEF FinalBalanced
  <2>1. \A c \in AutoBots : at[c] = "exit"
    BY ClientAssumption DEF CountInv, AutoBots
  <2>2. Open = {}
    BY <2>1 DEF Open
  <2>3. Cardinality(Open) = 0
    BY <2>2, FS_EmptySet
  <2> QED
    BY <2>3 DEF CountInv
<1> QED
  BY <1>1, InitCount, NextCount, PTL DEF ClientSpec
-----------------------------------------------------------------------------
(* The load test, whatever times out *)

(* Every step keeps the invariant of the clients and the rooms. *)
LEMMA NextBot == IInv /\ BotInv /\ [ClientNext]_allVars => IInv' /\ BotInv'
<1> SUFFICES ASSUME IInv, BotInv, [ClientNext]_allVars PROVE IInv' /\ BotInv'
  OBVIOUS
<1>0. ClientTypes /\ SessionInv /\ UnusedInv /\ PhaseInv /\ OnlyEarlyStray /\ WireTyped
  BY DEF BotInv, ClientTypes, WireTyped
<1>1. IInv'
  BY <1>0, ContentStep, NextIInv
<1>2. ASSUME NEW c \in Clients, BotThread(c) \/ RunTamper(c)
      PROVE  BotInv'
  BY <1>2, ConnectInv, RequestInv, RoomEnterInv, OtherSendInv, DrainInv, EndInv, AutoInv
     DEF BotThread, RunTamper
<1>3. CASE PressQ \/ WaitBots \/ UNCHANGED allVars
  BY <1>1, <1>3, AutoInv
<1>4. CASE ServerNet
  <2>1. /\ UNCHANGED <<at, cycle, early, players, rooms>>
        /\ toServer' \in [Sessions -> Seq(WirePacket)]
        /\ \A s \in Sessions : Kept(s)
    BY <1>4, NetKept DEF ServerNet
  <2>2. SessionInv' /\ UnusedInv' /\ PhaseInv'
    BY <1>0, <2>1, KeptAll
  <2>3. ClientTypes' /\ OnlyEarlyStray'
    BY <1>0, <2>1 DEF ClientTypes, OnlyEarlyStray
  <2> QED
    BY <1>1, <2>2, <2>3 DEF BotInv
<1>5. CASE ServerDb
  <2>1. WorkerStep /\ UNCHANGED <<at, cycle, early, toServer, players, rooms>>
    BY <1>5 DEF ServerDb, clientVars, wireVars, WorkerStep, PopJob, ProcessJob, DrainStart,
                DrainEnd, contentVars
  <2>2. \A s \in Sessions : Kept(s)
    BY <1>1, <2>1, WorkerKept
  <2>3. SessionInv' /\ UnusedInv' /\ PhaseInv'
    BY <1>0, <2>1, <2>2, KeptAll
  <2>4. ClientTypes' /\ OnlyEarlyStray'
    BY <1>0, <2>1 DEF ClientTypes, OnlyEarlyStray
  <2> QED
    BY <1>1, <2>3, <2>4 DEF BotInv
<1>6. CASE ServerUpdate
  <2>1. UNCHANGED <<at, cycle, early, toServer>> /\ UpdateStep
    BY <1>6 DEF ServerUpdate, clientVars
  <2>2. (\A s \in Sessions : Kept(s)) /\ OnlyEarlyStray'
    <3>1. CASE UpdateTest
      <4>1. UNCHANGED <<contentQ, results, dbJob, jobs, rooms, players>>
        BY <3>1 DEF UpdateTest, dbVars
      <4> QED
        BY <1>0, <2>1, <4>1, SameKept DEF OnlyEarlyStray
    <3>2. CASE UpdateMessage
      BY <2>1, <3>2, MessageKept, MessageRooms
    <3>3. CASE UpdateResult
      BY <2>1, <3>3, ResultKept, ResultRooms
    <3> QED
      BY <2>1, <3>1, <3>2, <3>3 DEF UpdateStep
  <2>3. SessionInv' /\ UnusedInv' /\ PhaseInv'
    BY <1>0, <2>1, <2>2, KeptAll
  <2>4. ClientTypes'
    BY <1>0, <2>1 DEF ClientTypes
  <2> QED
    BY <1>1, <2>2, <2>3, <2>4 DEF BotInv
<1> QED
  BY <1>1, <1>2, <1>3, <1>4, <1>5, <1>6 DEF ClientNext

(* At first nothing is under way. *)
LEMMA InitBot == ClientInit => IInv /\ BotInv
<1> SUFFICES ASSUME ClientInit PROVE IInv /\ BotInv
  OBVIOUS
<1>1. IInv
  BY InitIInv DEF ClientInit
<1>2. /\ at = [c \in Clients |-> "connect"] /\ cycle = [c \in Clients |-> 0]
      /\ toServer = [s \in Sessions |-> <<>>]
      /\ contentQ = <<>> /\ rooms = [r \in RoomNos |-> {}]
  BY DEF ClientInit, Init
<1>3. ClientTypes
  <2>1. <<>> \in Seq(WirePacket) /\ 0 \in 0 .. Cycles
    BY ClientAssumption
  <2> QED
    BY <1>2, <2>1 DEF ClientTypes
<1>4. \A s \in Sessions : NoEnter(s)
  BY <1>2, WhereEmpty DEF NoEnter, Absent, InNoRoom
<1>5. \A s \in Sessions : OneEnter(s)
  BY <1>2, WhereEmpty DEF OneEnter, Absent, AtMostOne, InNoRoom, Single
<1>6. SessionInv /\ UnusedInv
  BY <1>4, <1>5 DEF SessionInv, UnusedInv
<1>7. PhaseInv /\ OnlyEarlyStray
  BY <1>2 DEF PhaseInv, PhaseOf, Before, OnlyEarlyStray
<1> QED
  BY <1>1, <1>3, <1>6, <1>7 DEF BotInv

(* The rooms of the server under load are exact but for the sessions whose *)
(* ROOM_ENTER was sent before their login was answered: a client enters    *)
(* once, and only the answer to a login can take a player out of           *)
(* PS_IN_ROOM behind its room's back.  CChatServer alone breaks this, by a *)
(* second ROOM_ENTER too.  For any number of clients, connections and      *)
(* timeouts.                                                               *)
THEOREM OnlyEarlySessionsStray == ClientSpec => []OnlyEarlyStray
<1>1. BotInv => OnlyEarlyStray
  BY DEF BotInv
<1> QED
  BY <1>1, InitBot, NextBot, PTL DEF ClientSpec
=============================================================================
