------------------------- MODULE CChatServerProofs -------------------------
(***************************************************************************)
(* Proofs about CChatServer, for any sessions, rooms, limits and bounds:   *)
(* types, room membership, the player map, the sessions it sends to, the   *)
(* jobs accepted before a stop and the order of the answers.               *)
(***************************************************************************)
EXTENDS CChatServer, FiniteSetTheorems, SequenceTheorems, TLAPS

(* The players and the rooms; a room is finite, so that its limit counts. *)
ContentInv ==
  /\ DOMAIN players \subseteq Sids
  /\ players \in [DOMAIN players -> Player]
  /\ rooms \in [RoomNos -> SUBSET Sids]
  /\ \A r \in RoomNos : IsFiniteSet(rooms[r]) /\ Cardinality(rooms[r]) <= MAX_LIMIT_PERSON
  /\ InRoomIsMember

(* The queues and the history. *)
QueueInv ==
  /\ contentQ \in Seq(Message)
  /\ jobs \in Seq(Job)
  /\ dbJob \in Seq(Job) /\ Len(dbJob) <= 1
  /\ results \in Seq(Result)
  /\ asked \in [Sids -> Seq(JobTypes)]
  /\ answered \in [Sids -> Seq(JobTypes)]

(* The rest of the types: where the threads are. *)
ThreadInv ==
  /\ net \in [Sids -> {"new", "joined", "left", "refused"}]
  /\ packets \in 0 .. MaxPackets
  /\ isRun \in BOOLEAN
  /\ update \in {"test", "message", "results", "exit"}
  /\ dbIsRun \in BOOLEAN
  /\ dbThread \in {"none", "loop", "drain", "exit"}
  /\ heard \in SUBSET Sids

(* The order of a session's messages in contentQ, and what they tell of    *)
(* net: JOIN comes at most once and before LEAVE, and who left with its    *)
(* JOIN still waiting has its LEAVE waiting too.                           *)
MessageOrder ==
  \A i, j \in 1 .. Len(contentQ) :
    contentQ[i].sid = contentQ[j].sid =>
      /\ contentQ[i].type = "join" /\ contentQ[j].type \in {"join", "leave"} => i <= j
      /\ contentQ[i].type = "leave" /\ contentQ[j].type = "leave" => i = j

MessageNet ==
  /\ \A i \in 1 .. Len(contentQ) :
       /\ contentQ[i].type \in {"join", "recv"} =>
            net[contentQ[i].sid] \in {"joined", "left"}
       /\ contentQ[i].type = "leave" => net[contentQ[i].sid] \in {"left", "refused"}
  /\ \A sid \in Sids :
       net[sid] = "left" /\ Waiting("join", sid) => Waiting("leave", sid)

MapInv == MessageOrder /\ MessageNet /\ PlayerMapExact

(* The sessions of the rooms, of the jobs and of the results were heard.   *)
AllHeard(q, sids) == \A i \in 1 .. Len(q) : q[i].sid \in sids

HeardInv ==
  /\ SendsOnlyToHeard
  /\ \A r \in RoomNos : rooms[r] \subseteq heard
  /\ AllHeard(jobs, heard) /\ AllHeard(dbJob, heard) /\ AllHeard(results, heard)

(* The database worker is stopped only when the Update thread has ended.   *)
StopInv ==
  /\ dbThread \in {"drain", "exit"} => ~dbIsRun
  /\ dbThread # "none" /\ ~dbIsRun => update = "exit"
  /\ StopLosesNoJob

IInv == ContentInv /\ QueueInv /\ ThreadInv /\ MapInv /\ HeardInv /\ StopInv
-----------------------------------------------------------------------------
(* The queues *)

(* What a queue holds after a push. *)
LEMMA AppendEntries ==
  ASSUME NEW S, NEW q \in Seq(S), NEW x \in S
  PROVE  /\ Append(q, x) \in Seq(S) /\ Len(Append(q, x)) = Len(q) + 1 /\ Len(q) \in Nat
         /\ \A i \in 1 .. Len(q) : Append(q, x)[i] = q[i]
         /\ Append(q, x)[Len(q) + 1] = x
         /\ \A i \in 1 .. Len(Append(q, x)) : i \in 1 .. Len(q) \/ i = Len(q) + 1
<1>1. /\ Append(q, x) \in Seq(S) /\ Len(Append(q, x)) = Len(q) + 1 /\ Len(q) \in Nat
      /\ \A i \in 1 .. Len(q) : Append(q, x)[i] = q[i]
      /\ Append(q, x)[Len(q) + 1] = x
  BY AppendProperties
<1> QED
  BY <1>1

(* What a queue holds after a pop. *)
LEMMA TailEntries ==
  ASSUME NEW S, NEW q \in Seq(S), q # <<>>
  PROVE  /\ Tail(q) \in Seq(S) /\ Head(q) \in S
         /\ 1 \in 1 .. Len(q) /\ Head(q) = q[1] /\ Len(q) \in Nat
         /\ \A i \in 1 .. Len(Tail(q)) : i + 1 \in 1 .. Len(q) /\ Tail(q)[i] = q[i + 1]
         /\ \A i \in 1 .. Len(q) : i = 1 \/ i - 1 \in 1 .. Len(Tail(q))
BY HeadTailProperties

(* Every entry of a queue is of its kind. *)
LEMMA Entries ==
  ASSUME NEW S, NEW q \in Seq(S)
  PROVE  \A i \in 1 .. Len(q) : q[i] \in S
OBVIOUS
-----------------------------------------------------------------------------
(* The player map *)

(* A message pushed by a network thread, with what it needs of net.        *)
LEMMA PushMap ==
  ASSUME QueueInv, ThreadInv, MapInv, NEW m \in Message,
         contentQ' = Append(contentQ, m), players' = players,
         \/ /\ m.type = "join" /\ net[m.sid] = "new"
            /\ net' = [net EXCEPT ![m.sid] = "joined"]
         \/ /\ m.type = "leave" /\ net[m.sid] = "joined"
            /\ net' = [net EXCEPT ![m.sid] = "left"]
         \/ /\ m.type = "leave" /\ net[m.sid] = "new"
            /\ net' = [net EXCEPT ![m.sid] = "refused"]
         \/ m.type = "recv" /\ net[m.sid] \in {"joined", "left"} /\ net' = net
  PROVE  MapInv'
<1>1. /\ Len(contentQ') = Len(contentQ) + 1 /\ Len(contentQ) \in Nat
      /\ \A i \in 1 .. Len(contentQ) : contentQ'[i] = contentQ[i]
      /\ contentQ'[Len(contentQ) + 1] = m
      /\ \A i \in 1 .. Len(contentQ') : i \in 1 .. Len(contentQ) \/ i = Len(contentQ) + 1
  BY AppendEntries DEF QueueInv
<1>2. m.type \in {"join", "leave", "recv"} /\ m.sid \in Sids
  BY DEF Message
<1>3. \A i \in 1 .. Len(contentQ) :
        /\ contentQ[i].type \in {"join", "leave", "recv"} /\ contentQ[i].sid \in Sids
        /\ contentQ[i].type \in {"join", "recv"} => net[contentQ[i].sid] \in {"joined", "left"}
        /\ contentQ[i].type = "leave" => net[contentQ[i].sid] \in {"left", "refused"}
  <2>1. \A i \in 1 .. Len(contentQ) : contentQ[i] \in Message
    BY Entries DEF QueueInv
  <2> QED
    BY <2>1 DEF MapInv, MessageNet, Message
<1>4. \A i \in 1 .. Len(contentQ) : contentQ[i].sid = m.sid =>
        /\ m.type # "join"
        /\ m.type = "leave" => contentQ[i].type # "leave"
  BY <1>3
<1>5. net \in [Sids -> {"new", "joined", "left", "refused"}]
  BY DEF ThreadInv
<1>6. MessageOrder'
  <2> SUFFICES ASSUME NEW i \in 1 .. Len(contentQ'), NEW j \in 1 .. Len(contentQ'),
                      contentQ'[i].sid = contentQ'[j].sid
               PROVE  /\ contentQ'[i].type = "join" /\ contentQ'[j].type \in {"join", "leave"}
                           => i <= j
                      /\ contentQ'[i].type = "leave" /\ contentQ'[j].type = "leave" => i = j
    BY DEF MessageOrder
  <2>1. CASE i \in 1 .. Len(contentQ) /\ j \in 1 .. Len(contentQ)
    BY <1>1, <2>1 DEF MapInv, MessageOrder
  <2>2. CASE i \in 1 .. Len(contentQ) /\ j = Len(contentQ) + 1
    <3>1. i <= j
      BY <1>1, <2>2
    <3> QED
      BY <1>1, <1>4, <2>2, <3>1
  <2>3. CASE i = Len(contentQ) + 1 /\ j \in 1 .. Len(contentQ)
    BY <1>1, <1>4, <2>3
  <2>4. CASE i = Len(contentQ) + 1 /\ j = Len(contentQ) + 1
    BY <1>1, <2>4
  <2> QED
    BY <1>1, <2>1, <2>2, <2>3, <2>4
<1>7. \A sid \in Sids :
        /\ Waiting("join", sid)' <=> Waiting("join", sid) \/ (m.type = "join" /\ m.sid = sid)
        /\ Waiting("leave", sid)' <=> Waiting("leave", sid) \/ (m.type = "leave" /\ m.sid = sid)
  <2>1. Len(contentQ) + 1 \in 1 .. Len(contentQ')
    BY <1>1
  <2>2. \A i \in 1 .. Len(contentQ) : i \in 1 .. Len(contentQ')
    BY <1>1
  <2> QED
    BY <1>1, <2>1, <2>2 DEF Waiting
<1>8. \A sid \in Sids : Waiting("join", sid) => net[sid] \in {"joined", "left"}
  BY <1>3 DEF Waiting
<1>9. MessageNet'
  <2>1. \A i \in 1 .. Len(contentQ') :
          /\ contentQ'[i].type \in {"join", "recv"} =>
               net'[contentQ'[i].sid] \in {"joined", "left"}
          /\ contentQ'[i].type = "leave" => net'[contentQ'[i].sid] \in {"left", "refused"}
    <3> SUFFICES ASSUME NEW i \in 1 .. Len(contentQ')
                 PROVE  /\ contentQ'[i].type \in {"join", "recv"} =>
                             net'[contentQ'[i].sid] \in {"joined", "left"}
                        /\ contentQ'[i].type = "leave" =>
                             net'[contentQ'[i].sid] \in {"left", "refused"}
      OBVIOUS
    <3>1. CASE i \in 1 .. Len(contentQ)
      BY <1>1, <1>2, <1>3, <1>4, <1>5, <3>1
    <3>2. CASE i = Len(contentQ) + 1
      BY <1>1, <1>2, <1>5, <3>2
    <3> QED
      BY <1>1, <3>1, <3>2
  <2>2. \A sid \in Sids :
          net'[sid] = "left" /\ Waiting("join", sid)' => Waiting("leave", sid)'
    BY <1>2, <1>5, <1>7 DEF MapInv, MessageNet
  <2> QED
    BY <2>1, <2>2 DEF MessageNet
<1>10. PlayerMapExact'
  <2> SUFFICES ASSUME NEW sid \in Sids
               PROVE  sid \in DOMAIN players' <=>
                        /\ net'[sid] \in {"joined", "left"}
                        /\ ~Waiting("join", sid)'
                        /\ net'[sid] = "left" => Waiting("leave", sid)'
    BY DEF PlayerMapExact
  <2>1. sid \in DOMAIN players <=>
          /\ net[sid] \in {"joined", "left"}
          /\ ~Waiting("join", sid)
          /\ net[sid] = "left" => Waiting("leave", sid)
    BY DEF MapInv, PlayerMapExact
  <2>2. CASE sid # m.sid
    <3>1. net'[sid] = net[sid]
      BY <1>2, <1>5, <2>2
    <3> QED
      BY <1>7, <2>1, <2>2, <3>1
  <2>3. CASE sid = m.sid
    BY <1>2, <1>5, <1>7, <1>8, <2>1, <2>3
  <2> QED
    BY <2>2, <2>3
<1> QED
  BY <1>6, <1>9, <1>10 DEF MapInv

(* The Update thread takes a message: JOIN makes the player, LEAVE deletes *)
(* it, a packet does neither.                                              *)
LEMMA PopMap ==
  ASSUME QueueInv, ThreadInv, MapInv, contentQ # <<>>, NEW m, m = Head(contentQ),
         contentQ' = Tail(contentQ), net' = net,
         \/ m.type = "join" /\ DOMAIN players' = DOMAIN players \cup {m.sid}
         \/ m.type = "leave" /\ DOMAIN players' = DOMAIN players \ {m.sid}
         \/ m.type = "recv" /\ DOMAIN players' = DOMAIN players
  PROVE  MapInv'
<1>1. /\ 1 \in 1 .. Len(contentQ) /\ m = contentQ[1] /\ Len(contentQ) \in Nat
      /\ m \in Message /\ Len(contentQ') \in Nat
      /\ \A i \in 1 .. Len(contentQ') :
           i + 1 \in 1 .. Len(contentQ) /\ contentQ'[i] = contentQ[i + 1]
      /\ \A i \in 1 .. Len(contentQ) : i = 1 \/ i - 1 \in 1 .. Len(contentQ')
  BY TailEntries DEF QueueInv
<1>2. m.sid \in Sids
  BY <1>1 DEF Message
<1>3. MessageOrder'
  BY <1>1 DEF MapInv, MessageOrder
<1>4. \A sid \in Sids :
        /\ Waiting("join", sid) <=> Waiting("join", sid)' \/ (m.type = "join" /\ m.sid = sid)
        /\ Waiting("leave", sid) <=> Waiting("leave", sid)' \/ (m.type = "leave" /\ m.sid = sid)
  <2>1. \A i \in 1 .. Len(contentQ) :
          i = 1 \/ (i - 1 \in 1 .. Len(contentQ') /\ contentQ'[i - 1] = contentQ[i])
    BY <1>1
  <2>2. \A sid \in Sids, k \in {"join", "leave"} :
          Waiting(k, sid) => Waiting(k, sid)' \/ (m.type = k /\ m.sid = sid)
    BY <1>1, <2>1 DEF Waiting
  <2>3. \A sid \in Sids, k \in {"join", "leave"} :
          Waiting(k, sid)' \/ (m.type = k /\ m.sid = sid) => Waiting(k, sid)
    BY <1>1 DEF Waiting
  <2> QED
    BY <2>2, <2>3
<1>5. /\ m.type \in {"join", "leave"} => ~Waiting("join", m.sid)'
      /\ m.type = "leave" => ~Waiting("leave", m.sid)'
  <2>1. \A i \in 1 .. Len(contentQ') : contentQ[i + 1].sid = m.sid =>
          /\ contentQ[i + 1].type = "join" /\ m.type \in {"join", "leave"} => i + 1 <= 1
          /\ contentQ[i + 1].type = "leave" /\ m.type = "leave" => i + 1 = 1
    BY <1>1 DEF MapInv, MessageOrder
  <2> QED
    BY <1>1, <2>1 DEF Waiting
<1>6. /\ m.type \in {"join", "recv"} => net[m.sid] \in {"joined", "left"}
      /\ m.type = "leave" => net[m.sid] \in {"left", "refused"}
  BY <1>1 DEF MapInv, MessageNet
<1>7. MessageNet'
  <2>1. \A i \in 1 .. Len(contentQ') :
          /\ contentQ'[i].type \in {"join", "recv"} =>
               net'[contentQ'[i].sid] \in {"joined", "left"}
          /\ contentQ'[i].type = "leave" => net'[contentQ'[i].sid] \in {"left", "refused"}
    BY <1>1 DEF MapInv, MessageNet
  <2>2. \A sid \in Sids :
          net'[sid] = "left" /\ Waiting("join", sid)' => Waiting("leave", sid)'
    BY <1>4, <1>5 DEF MapInv, MessageNet
  <2> QED
    BY <2>1, <2>2 DEF MessageNet
<1>8. PlayerMapExact'
  <2> SUFFICES ASSUME NEW sid \in Sids
               PROVE  sid \in DOMAIN players' <=>
                        /\ net'[sid] \in {"joined", "left"}
                        /\ ~Waiting("join", sid)'
                        /\ net'[sid] = "left" => Waiting("leave", sid)'
    BY DEF PlayerMapExact
  <2>1. /\ sid \in DOMAIN players <=>
             /\ net[sid] \in {"joined", "left"}
             /\ ~Waiting("join", sid)
             /\ net[sid] = "left" => Waiting("leave", sid)
        /\ net[sid] = "left" /\ Waiting("join", sid) => Waiting("leave", sid)
    BY DEF MapInv, PlayerMapExact, MessageNet
  <2> QED
    BY <1>4, <1>5, <1>6, <2>1
<1> QED
  BY <1>3, <1>7, <1>8 DEF MapInv

(* A step that leaves contentQ, net and the set of players alone. *)
LEMMA SameMap ==
  ASSUME MapInv, UNCHANGED <<contentQ, net>>, DOMAIN players' = DOMAIN players
  PROVE  MapInv'
BY DEF MapInv, MessageOrder, MessageNet, PlayerMapExact, Waiting
-----------------------------------------------------------------------------
(* The handlers of the Update thread *)

(* CRoom::EnterRoom and LeaveRoom keep a room finite and within its limit. *)
LEMMA RoomSize ==
  ASSUME NEW room, IsFiniteSet(room), Cardinality(room) <= MAX_LIMIT_PERSON, NEW sid
  PROVE  /\ IsFiniteSet(room \ {sid}) /\ Cardinality(room \ {sid}) <= MAX_LIMIT_PERSON
         /\ Cardinality(room) < MAX_LIMIT_PERSON /\ sid \notin room =>
              IsFiniteSet(room \cup {sid}) /\ Cardinality(room \cup {sid}) <= MAX_LIMIT_PERSON
<1>1. Cardinality(room) \in Nat /\ MAX_LIMIT_PERSON \in Nat
  BY FS_CardinalityType, LimitAssumption
<1>2. /\ IsFiniteSet(room \ {sid})
      /\ Cardinality(room \ {sid}) =
           IF sid \in room THEN Cardinality(room) - 1 ELSE Cardinality(room)
  BY FS_RemoveElement
<1>3. /\ IsFiniteSet(room \cup {sid})
      /\ Cardinality(room \cup {sid}) =
           IF sid \in room THEN Cardinality(room) ELSE Cardinality(room) + 1
  BY FS_AddElement
<1> QED
  BY <1>1, <1>2, <1>3

(* Handle_Join: the player is in no room. *)
LEMMA JoinContent ==
  ASSUME ContentInv, NEW sid \in Sids, Handle_Join(sid)
  PROVE  ContentInv' /\ DOMAIN players' = DOMAIN players \cup {sid}
<1>1. /\ rooms' = rooms /\ DOMAIN players' = DOMAIN players \cup {sid}
      /\ players' = [s \in DOMAIN players \cup {sid} |->
                       IF s \in DOMAIN players THEN players[s] ELSE CPlayer]
  BY DEF Handle_Join
<1>2. CPlayer \in Player /\ CPlayer.state # "IN_ROOM"
  BY DEF CPlayer, Player
<1>3. DOMAIN players' \subseteq Sids /\ players' \in [DOMAIN players' -> Player]
  BY <1>1, <1>2 DEF ContentInv
<1>4. InRoomIsMember'
  BY <1>1, <1>2 DEF ContentInv, InRoomIsMember
<1> QED
  BY <1>1, <1>3, <1>4 DEF ContentInv

(* A session taken out of its room: its player must not be in a room then. *)
LEMMA LeaveRoomContent ==
  ASSUME ContentInv, NEW sid \in Sids, NEW r \in RoomNos, rooms' = RoomWithout(sid, r),
         DOMAIN players' \subseteq Sids, players' \in [DOMAIN players' -> Player],
         \A s \in DOMAIN players' :
           \/ s # sid /\ s \in DOMAIN players /\ players'[s] = players[s]
           \/ s = sid /\ players'[s].state # "IN_ROOM"
  PROVE  ContentInv'
<1>1. rooms \in [RoomNos -> SUBSET Sids]
  BY DEF ContentInv
<1>2. /\ rooms' \in [RoomNos -> SUBSET Sids]
      /\ rooms'[r] = rooms[r] \ {sid}
      /\ \A k \in RoomNos : k # r => rooms'[k] = rooms[k]
  BY <1>1 DEF RoomWithout
<1>3. \A k \in RoomNos : IsFiniteSet(rooms'[k]) /\ Cardinality(rooms'[k]) <= MAX_LIMIT_PERSON
  <2>1. \A k \in RoomNos : IsFiniteSet(rooms[k]) /\ Cardinality(rooms[k]) <= MAX_LIMIT_PERSON
    BY DEF ContentInv
  <2>2. IsFiniteSet(rooms[r] \ {sid}) /\ Cardinality(rooms[r] \ {sid}) <= MAX_LIMIT_PERSON
    BY <2>1, RoomSize
  <2> QED
    BY <1>2, <2>1, <2>2
<1>4. InRoomIsMember'
  BY <1>2 DEF ContentInv, InRoomIsMember
<1> QED
  BY <1>2, <1>3, <1>4 DEF ContentInv

(* Handle_Leave: the player leaves its room, if it is in one. *)
LEMMA LeaveContent ==
  ASSUME ContentInv, NEW sid \in Sids, Handle_Leave(sid)
  PROVE  ContentInv' /\ DOMAIN players' = DOMAIN players \ {sid}
<1>1. CASE sid \notin DOMAIN players /\ Return
  BY <1>1 DEF Return, ContentInv, InRoomIsMember
<1>2. CASE /\ sid \in DOMAIN players
           /\ rooms' = IF players[sid].state = "IN_ROOM"
                         THEN RoomWithout(sid, players[sid].roomNo) ELSE rooms
           /\ players' = [s \in DOMAIN players \ {sid} |-> players[s]]
  <2>1. /\ DOMAIN players' = DOMAIN players \ {sid}
        /\ \A s \in DOMAIN players' : s # sid /\ s \in DOMAIN players /\ players'[s] = players[s]
    BY <1>2
  <2>2. DOMAIN players' \subseteq Sids /\ players' \in [DOMAIN players' -> Player]
    BY <1>2 DEF ContentInv
  <2>3. CASE players[sid].state = "IN_ROOM"
    <3>1. PICK r \in RoomNos : r = players[sid].roomNo
      BY <1>2, <2>3 DEF ContentInv, InRoomIsMember
    <3>2. rooms' = RoomWithout(sid, r)
      BY <1>2, <2>3, <3>1
    <3> QED
      BY <2>1, <2>2, <3>2, LeaveRoomContent
  <2>4. CASE players[sid].state # "IN_ROOM"
    <3>1. InRoomIsMember'
      BY <1>2, <2>1, <2>4 DEF ContentInv, InRoomIsMember
    <3> QED
      BY <1>2, <2>1, <2>2, <2>4, <3>1 DEF ContentInv
  <2> QED
    BY <2>3, <2>4
<1> QED
  BY <1>1, <1>2 DEF Handle_Leave

(* HandleRoomEnter: the room takes the session in, and the player follows  *)
(* if it is in no room; if it is in one it stays a member of that one.     *)
LEMMA EnterContent ==
  ASSUME ContentInv, NEW sid \in Sids, NEW r, HandleRoomEnter(sid, r)
  PROVE  ContentInv' /\ DOMAIN players' = DOMAIN players
<1>1. CASE Return
  BY <1>1 DEF Return, ContentInv, InRoomIsMember
<1>2. CASE /\ sid \in DOMAIN players
           /\ MayEnter(sid, r)
           /\ rooms' = [rooms EXCEPT ![r] = @ \cup {sid}]
           /\ \/ UNCHANGED players
              \/ players' = [players EXCEPT ![sid] = [state |-> "IN_ROOM", roomNo |-> r]]
  <2>1. /\ r \in RoomNos /\ rooms \in [RoomNos -> SUBSET Sids]
        /\ Cardinality(rooms[r]) < MAX_LIMIT_PERSON /\ sid \notin rooms[r]
    BY <1>2 DEF MayEnter, ContentInv
  <2>2. /\ rooms' \in [RoomNos -> SUBSET Sids]
        /\ rooms'[r] = rooms[r] \cup {sid}
        /\ \A k \in RoomNos : k # r => rooms'[k] = rooms[k]
    BY <1>2, <2>1
  <2>3. \A k \in RoomNos : IsFiniteSet(rooms'[k]) /\ Cardinality(rooms'[k]) <= MAX_LIMIT_PERSON
    BY <2>1, <2>2, RoomSize DEF ContentInv
  <2>4. DOMAIN players' = DOMAIN players /\ players' \in [DOMAIN players' -> Player]
    <3>1. [state |-> "IN_ROOM", roomNo |-> r] \in Player
      BY <2>1 DEF Player
    <3> QED
      BY <1>2, <3>1 DEF ContentInv
  <2>5. \A s \in DOMAIN players :
          \/ players'[s] = players[s]
          \/ s = sid /\ players'[s] = [state |-> "IN_ROOM", roomNo |-> r]
    BY <1>2 DEF ContentInv
  <2>6. InRoomIsMember'
    <3> SUFFICES ASSUME NEW s \in DOMAIN players, players'[s].state = "IN_ROOM"
                 PROVE  players'[s].roomNo \in RoomNos /\ s \in rooms'[players'[s].roomNo]
      BY <2>4 DEF InRoomIsMember
    <3>1. CASE players'[s] = players[s]
      <4>1. players[s].roomNo \in RoomNos /\ s \in rooms[players[s].roomNo]
        BY <3>1 DEF ContentInv, InRoomIsMember
      <4> QED
        BY <2>2, <3>1, <4>1
    <3>2. CASE s = sid /\ players'[s] = [state |-> "IN_ROOM", roomNo |-> r]
      BY <2>1, <2>2, <3>2
    <3> QED
      BY <2>5, <3>1, <3>2
  <2> QED
    BY <2>2, <2>3, <2>4, <2>6 DEF ContentInv
<1> QED
  BY <1>1, <1>2 DEF HandleRoomEnter

(* HandleRoomLeave *)
LEMMA RoomLeaveContent ==
  ASSUME ContentInv, NEW sid \in Sids, HandleRoomLeave(sid)
  PROVE  ContentInv' /\ DOMAIN players' = DOMAIN players
<1>1. CASE Return
  BY <1>1 DEF Return, ContentInv, InRoomIsMember
<1>2. CASE /\ IsInRoom(sid)
           /\ rooms' = RoomWithout(sid, players[sid].roomNo)
           /\ players' = [players EXCEPT
                            ![sid] = [state |-> "LOGGED_IN", roomNo |-> INVALID_ROOM_NO]]
  <2>1. PICK r \in RoomNos : r = players[sid].roomNo
    BY <1>2 DEF IsInRoom, ContentInv, InRoomIsMember
  <2>2. rooms' = RoomWithout(sid, r)
    BY <1>2, <2>1
  <2>3. [state |-> "LOGGED_IN", roomNo |-> INVALID_ROOM_NO] \in Player
    BY DEF Player
  <2>4. /\ DOMAIN players' = DOMAIN players /\ DOMAIN players' \subseteq Sids
        /\ players' \in [DOMAIN players' -> Player]
    BY <1>2, <2>3 DEF ContentInv
  <2>5. \A s \in DOMAIN players' :
          \/ s # sid /\ s \in DOMAIN players /\ players'[s] = players[s]
          \/ s = sid /\ players'[s].state # "IN_ROOM"
    BY <1>2 DEF ContentInv
  <2> QED
    BY <2>2, <2>4, <2>5, LeaveRoomContent
<1> QED
  BY <1>1, <1>2 DEF HandleRoomLeave

(* Handle_Recv: no packet makes or deletes a player. *)
LEMMA RecvContent ==
  ASSUME ContentInv, NEW sid \in Sids, NEW pkt, Handle_Recv(sid, pkt)
  PROVE  ContentInv' /\ DOMAIN players' = DOMAIN players
<1>1. CASE UNCHANGED <<players, rooms>>
  BY <1>1 DEF ContentInv, InRoomIsMember
<1>2. CASE HandleRoomEnter(sid, pkt.no)
  BY <1>2, EnterContent
<1>3. CASE HandleRoomLeave(sid)
  BY <1>3, RoomLeaveContent
<1> QED
  BY <1>1, <1>2, <1>3 DEF Handle_Recv, PushJob, HandleChat, Return

(* Handle_DbResult: a login that comes late may take the state IN_ROOM     *)
(* away, never give it.                                                    *)
LEMMA ResultContent ==
  ASSUME ContentInv, NEW r \in Result, Handle_DbResult(r), rooms' = rooms
  PROVE  ContentInv' /\ DOMAIN players' = DOMAIN players
<1>1. CASE UNCHANGED players
  BY <1>1 DEF ContentInv, InRoomIsMember
<1>2. CASE r.sid \in DOMAIN players /\ players' = SetNickname(r.sid)
  <2>1. /\ DOMAIN players' = DOMAIN players
        /\ \A s \in DOMAIN players : players'[s] =
             IF s = r.sid THEN [players[s] EXCEPT !.state = "LOGGED_IN"] ELSE players[s]
        /\ players \in [DOMAIN players -> Player]
    BY <1>2 DEF SetNickname, ContentInv
  <2>2. \A s \in DOMAIN players : players[s] \in Player
    BY <2>1
  <2>3. [players[r.sid] EXCEPT !.state = "LOGGED_IN"] \in Player
    BY <1>2, <2>2 DEF Player
  <2>4. players' \in [DOMAIN players' -> Player]
    BY <1>2, <2>1, <2>3 DEF SetNickname
  <2>5. InRoomIsMember'
    BY <2>1, <2>2 DEF ContentInv, InRoomIsMember, Player
  <2> QED
    BY <2>1, <2>4, <2>5 DEF ContentInv
<1> QED
  BY <1>1, <1>2 DEF Handle_DbResult
-----------------------------------------------------------------------------
(* Who was heard, and what is queued *)

(* Handle_Join and Handle_Leave queue nothing and send nothing. *)
LEMMA EventHeard ==
  ASSUME ContentInv, QueueInv, HeardInv, NEW sid \in Sids,
         Handle_Join(sid) \/ Handle_Leave(sid),
         UNCHANGED <<dbJob, results, heard>>
  PROVE  HeardInv' /\ UNCHANGED <<jobs, asked>> /\ sent' = {}
<1>1. UNCHANGED <<jobs, asked>> /\ sent' = {}
  BY DEF Handle_Join, Handle_Leave, Return, SendPacket
<1>2. \A r \in RoomNos : rooms'[r] \subseteq rooms[r]
  BY DEF Handle_Join, Handle_Leave, Return, RoomWithout, ContentInv
<1> QED
  BY <1>1, <1>2 DEF HeardInv, SendsOnlyToHeard, AllHeard

(* The sessions of a queue stay heard when an entry is added or taken. *)
LEMMA HeardPush ==
  ASSUME NEW S, NEW q \in Seq(S), NEW x \in S, NEW H, AllHeard(q, H), x.sid \in H
  PROVE  AllHeard(Append(q, x), H)
BY AppendEntries DEF AllHeard

(* The sessions of a queue stay heard when its head is taken. *)
LEMMA HeardPop ==
  ASSUME NEW S, NEW q \in Seq(S), q # <<>>, NEW H, AllHeard(q, H)
  PROVE  AllHeard(Tail(q), H) /\ Head(q).sid \in H
BY TailEntries DEF AllHeard

(* Handle_Recv: what it sends and queues goes to the session heard now and *)
(* to sessions heard before.                                               *)
LEMMA RecvHeard ==
  ASSUME ContentInv, QueueInv, HeardInv, NEW sid \in Sids, NEW pkt, Handle_Recv(sid, pkt),
         heard' = heard \cup {sid}, UNCHANGED <<dbJob, results>>
  PROVE  /\ HeardInv'
         /\ jobs' \in Seq(Job) /\ asked' \in [Sids -> Seq(JobTypes)]
<1>0. /\ rooms \in [RoomNos -> SUBSET Sids] /\ \A r \in RoomNos : rooms[r] \subseteq heard'
      /\ AllHeard(jobs, heard') /\ AllHeard(dbJob', heard') /\ AllHeard(results', heard')
      /\ jobs \in Seq(Job) /\ asked \in [Sids -> Seq(JobTypes)] /\ sid \in heard'
  BY DEF ContentInv, QueueInv, HeardInv, AllHeard
<1>1. ASSUME UNCHANGED <<jobs, asked>>, sent' \subseteq heard',
             \A r \in RoomNos : rooms'[r] \subseteq heard'
      PROVE  HeardInv' /\ jobs' \in Seq(Job) /\ asked' \in [Sids -> Seq(JobTypes)]
  BY <1>0, <1>1 DEF HeardInv, SendsOnlyToHeard
<1>2. CASE Return
  BY <1>0, <1>1, <1>2 DEF Return, SendPacket
<1>3. ASSUME pkt.type \in JobTypes, PushJob(sid, pkt.type), ~Return
      PROVE  HeardInv' /\ jobs' \in Seq(Job) /\ asked' \in [Sids -> Seq(JobTypes)]
  <2>1. PICK j : j = [type |-> pkt.type, sid |-> sid]
    OBVIOUS
  <2>2. /\ jobs' = Append(jobs, j) /\ asked' = [asked EXCEPT ![sid] = Append(@, pkt.type)]
        /\ sent' = {} /\ UNCHANGED rooms
    BY <1>3, <2>1 DEF PushJob, SendPacket
  <2>3. j \in Job /\ j.sid = sid
    BY <1>3, <2>1 DEF Job
  <2>4. jobs' \in Seq(Job) /\ AllHeard(jobs', heard')
    BY <1>0, <2>2, <2>3, AppendEntries, HeardPush
  <2>5. asked' \in [Sids -> Seq(JobTypes)]
    <3>1. Append(asked[sid], pkt.type) \in Seq(JobTypes)
      BY <1>0, <1>3, AppendEntries
    <3> QED
      BY <1>0, <2>2, <3>1
  <2> QED
    BY <1>0, <2>2, <2>4, <2>5 DEF HeardInv, SendsOnlyToHeard
<1>4. ASSUME HandleRoomEnter(sid, pkt.no), ~Return
      PROVE  HeardInv' /\ jobs' \in Seq(Job) /\ asked' \in [Sids -> Seq(JobTypes)]
  <2>1. PICK r \in RoomNos : /\ r = pkt.no
                             /\ rooms' = [rooms EXCEPT ![r] = @ \cup {sid}]
                             /\ sent' = {} \/ sent' = rooms'[r]
    BY <1>4 DEF HandleRoomEnter, MayEnter, SendPacket
  <2>2. \A k \in RoomNos : rooms'[k] \subseteq heard'
    BY <1>0, <2>1
  <2>3. UNCHANGED <<jobs, asked>> /\ sent' \subseteq heard'
    BY <1>4, <2>1, <2>2 DEF HandleRoomEnter
  <2> QED
    BY <1>1, <2>2, <2>3
<1>5. ASSUME HandleRoomLeave(sid), ~Return
      PROVE  HeardInv' /\ jobs' \in Seq(Job) /\ asked' \in [Sids -> Seq(JobTypes)]
  <2>1. PICK r \in RoomNos : r = players[sid].roomNo
    BY <1>5 DEF HandleRoomLeave, IsInRoom, ContentInv, InRoomIsMember
  <2>2. rooms' = [rooms EXCEPT ![r] = @ \ {sid}] /\ sent' = rooms'[r] /\ UNCHANGED <<jobs, asked>>
    BY <1>5, <2>1 DEF HandleRoomLeave, RoomWithout, SendPacket
  <2>3. \A k \in RoomNos : rooms'[k] \subseteq heard'
    BY <1>0, <2>2
  <2>4. sent' \subseteq heard'
    BY <2>2, <2>3
  <2> QED
    BY <1>1, <2>2, <2>3, <2>4
<1>6. ASSUME HandleChat(sid), ~Return
      PROVE  HeardInv' /\ jobs' \in Seq(Job) /\ asked' \in [Sids -> Seq(JobTypes)]
  <2>1. PICK r \in RoomNos : r = players[sid].roomNo
    BY <1>6 DEF HandleChat, IsInRoom, ContentInv, InRoomIsMember
  <2>2. sent' = rooms[r] /\ UNCHANGED <<rooms, jobs, asked>>
    BY <1>6, <2>1 DEF HandleChat, SendPacket
  <2> QED
    BY <1>0, <1>1, <2>2
<1> QED
  BY <1>2, <1>3, <1>4, <1>5, <1>6 DEF Handle_Recv
-----------------------------------------------------------------------------
(* The steps *)

(* The network threads. *)
LEMMA NetworkInv ==
  ASSUME IInv, NetworkStep
  PROVE  IInv'
<1>1. PICK sid \in Sids, pkt \in Packets :
        \/ OnClientJoin(sid) /\ pkt = NoPacket
        \/ OnClientLeave(sid) /\ pkt = NoPacket
        \/ OnRecv(sid, pkt)
  <2>1. NoPacket \in Packets
    BY RoomCountAssumption DEF NoPacket, Packets, PacketTypes, JobTypes, INVALID_ROOM_NO
  <2> QED
    BY <2>1 DEF NetworkStep
<1>2. PICK type \in {"join", "leave", "recv"} :
        /\ Push(type, sid, pkt)
        /\ \/ /\ type = "join" /\ net[sid] = "new"
              /\ net' = [net EXCEPT ![sid] = "joined"]
           \/ /\ type = "leave" /\ net[sid] = "joined"
              /\ net' = [net EXCEPT ![sid] = "left"]
           \/ /\ type = "leave" /\ net[sid] = "new"
              /\ net' = [net EXCEPT ![sid] = "refused"]
           \/ type = "recv" /\ net[sid] \in {"joined", "left"} /\ net' = net
  BY <1>1 DEF OnClientJoin, OnClientLeave, OnRecv
<1>3. PICK m : m = [type |-> type, sid |-> sid, pkt |-> pkt]
  OBVIOUS
<1>4. m \in Message /\ m.type = type /\ m.sid = sid
  BY <1>3 DEF Message
<1>5. /\ contentQ' = Append(contentQ, m) /\ sent' = {}
      /\ UNCHANGED <<isRun, update, players, rooms, jobs, dbJob, results, dbIsRun, dbThread,
                     heard, asked, answered>>
  BY <1>2, <1>3 DEF Push, contentVars, dbVars, traceVars
<1>6. QueueInv'
  BY <1>4, <1>5, AppendEntries DEF IInv, QueueInv
<1>7. ThreadInv'
  <2>1. packets' \in 0 .. MaxPackets
    BY <1>1, BoundsAssumption DEF IInv, ThreadInv, OnClientJoin, OnClientLeave, OnRecv
  <2>2. net' \in [Sids -> {"new", "joined", "left", "refused"}]
    BY <1>2 DEF IInv, ThreadInv
  <2> QED
    BY <1>5, <2>1, <2>2 DEF IInv, ThreadInv
<1>8. MapInv'
  BY <1>2, <1>4, <1>5, PushMap DEF IInv
<1>9. ContentInv'
  BY <1>5 DEF IInv, ContentInv, InRoomIsMember
<1>10. HeardInv' /\ StopInv'
  BY <1>5 DEF IInv, HeardInv, SendsOnlyToHeard, StopInv, StopLosesNoJob
<1> QED
  BY <1>6, <1>7, <1>8, <1>9, <1>10 DEF IInv

(* UpdateMessage: the handler of the message, or nothing when there is     *)
(* none.  The database worker was not stopped yet.                         *)
LEMMA MessageInv ==
  ASSUME IInv, UpdateMessage
  PROVE  IInv'
<1>0. ContentInv /\ QueueInv /\ ThreadInv /\ MapInv /\ HeardInv /\ StopInv
  BY DEF IInv
<1>1. /\ update = "message" /\ update' = "results"
      /\ UNCHANGED <<net, packets, isRun, dbJob, results, dbIsRun, dbThread, answered>>
  BY DEF UpdateMessage, netVars
<1>2. StopInv'
  BY <1>0, <1>1 DEF StopInv, StopLosesNoJob, ThreadInv
<1>3. CASE contentQ = <<>> /\ Return /\ UNCHANGED <<contentQ, heard>>
  <2>1. UNCHANGED <<contentQ, heard, players, rooms, jobs, asked>> /\ sent' = {}
    BY <1>3 DEF Return, SendPacket
  <2>2. ContentInv' /\ QueueInv' /\ ThreadInv'
    BY <1>0, <1>1, <2>1 DEF ContentInv, InRoomIsMember, QueueInv, ThreadInv
  <2>3. MapInv'
    BY <1>0, <1>1, <2>1, SameMap
  <2>4. HeardInv'
    BY <1>0, <1>1, <2>1 DEF HeardInv, SendsOnlyToHeard
  <2> QED
    BY <1>2, <2>2, <2>3, <2>4 DEF IInv
<1>4. CASE contentQ # <<>>
  <2>1. PICK m : m = Head(contentQ)
    OBVIOUS
  <2>2. /\ contentQ' = Tail(contentQ)
        /\ \/ m.type = "join" /\ Handle_Join(m.sid) /\ UNCHANGED heard
           \/ m.type = "leave" /\ Handle_Leave(m.sid) /\ UNCHANGED heard
           \/ /\ m.type = "recv" /\ Handle_Recv(m.sid, m.pkt)
              /\ heard' = heard \cup {m.sid}
    BY <1>4, <2>1 DEF UpdateMessage
  <2>3. m \in Message /\ contentQ' \in Seq(Message)
    BY <1>0, <1>4, <2>1, <2>2, TailEntries DEF QueueInv
  <2>4. m.sid \in Sids
    BY <2>3 DEF Message
  <2>5. /\ ContentInv'
        /\ \/ m.type = "join" /\ DOMAIN players' = DOMAIN players \cup {m.sid}
           \/ m.type = "leave" /\ DOMAIN players' = DOMAIN players \ {m.sid}
           \/ m.type = "recv" /\ DOMAIN players' = DOMAIN players
    BY <1>0, <2>2, <2>4, JoinContent, LeaveContent, RecvContent
  <2>6. MapInv'
    BY <1>0, <1>1, <1>4, <2>1, <2>2, <2>5, PopMap
  <2>7. HeardInv' /\ jobs' \in Seq(Job) /\ asked' \in [Sids -> Seq(JobTypes)]
    <3>1. CASE m.type \in {"join", "leave"}
      <4>1. HeardInv' /\ UNCHANGED <<jobs, asked>>
        BY <1>0, <1>1, <2>2, <2>4, <3>1, EventHeard
      <4> QED
        BY <1>0, <4>1 DEF QueueInv
    <3>2. CASE m.type = "recv"
      BY <1>0, <1>1, <2>2, <2>4, <3>2, RecvHeard
    <3> QED
      BY <2>2, <3>1, <3>2
  <2>8. QueueInv'
    BY <1>0, <1>1, <2>3, <2>7 DEF QueueInv
  <2>9. ThreadInv'
    BY <1>0, <1>1, <2>2, <2>4 DEF ThreadInv
  <2> QED
    BY <1>2, <2>5, <2>6, <2>7, <2>8, <2>9 DEF IInv
<1> QED
  BY <1>3, <1>4 DEF UpdateMessage

(* UpdateResult: a result is taken and answered. *)
LEMMA ResultInv ==
  ASSUME IInv, UpdateResult
  PROVE  IInv'
<1>0. ContentInv /\ QueueInv /\ ThreadInv /\ MapInv /\ HeardInv /\ StopInv
  BY DEF IInv
<1>1. UNCHANGED <<net, packets, contentQ, isRun, rooms, jobs, dbJob, dbIsRun, dbThread, heard,
                  asked>>
  BY DEF UpdateResult, netVars
<1>2. update = "results" /\ update' \in {"results", "test"}
  BY DEF UpdateResult
<1>3. StopInv' /\ ThreadInv'
  BY <1>0, <1>1, <1>2 DEF StopInv, StopLosesNoJob, ThreadInv
<1>4. CASE UNCHANGED <<results, players, answered>> /\ sent' = {}
  <2>1. ContentInv' /\ QueueInv'
    BY <1>0, <1>1, <1>4 DEF ContentInv, InRoomIsMember, QueueInv
  <2>2. MapInv'
    BY <1>0, <1>1, <1>4, SameMap
  <2>3. HeardInv'
    BY <1>0, <1>1, <1>4 DEF HeardInv, SendsOnlyToHeard
  <2> QED
    BY <1>3, <2>1, <2>2, <2>3 DEF IInv
<1>5. CASE results # <<>> /\ results' = Tail(results) /\ Handle_DbResult(Head(results))
  <2>1. PICK r : r = Head(results)
    OBVIOUS
  <2>2. r \in Result /\ results' \in Seq(Result)
    BY <1>0, <1>5, <2>1, TailEntries DEF QueueInv
  <2>3. r.sid \in Sids /\ r.type \in JobTypes
    BY <2>2 DEF Result
  <2>4. AllHeard(results', heard) /\ r.sid \in heard
    BY <1>0, <1>5, <2>1, HeardPop DEF HeardInv, QueueInv
  <2>5. ContentInv' /\ DOMAIN players' = DOMAIN players
    BY <1>0, <1>1, <1>5, <2>1, <2>2, ResultContent
  <2>6. MapInv'
    BY <1>0, <1>1, <2>5, SameMap
  <2>7. sent' \in {{}, {r.sid}}
    BY <1>5, <2>1 DEF Handle_DbResult, SendPacket
  <2>8. HeardInv'
    BY <1>0, <1>1, <2>4, <2>7 DEF HeardInv, SendsOnlyToHeard
  <2>9. answered' \in [Sids -> Seq(JobTypes)]
    <3>1. answered \in [Sids -> Seq(JobTypes)]
      BY <1>0 DEF QueueInv
    <3>2. Append(answered[r.sid], r.type) \in Seq(JobTypes)
      BY <2>3, <3>1, AppendEntries
    <3>3. answered' = answered \/ answered' = [answered EXCEPT ![r.sid] = Append(@, r.type)]
      BY <1>5, <2>1 DEF Handle_DbResult
    <3> QED
      BY <3>1, <3>2, <3>3
  <2>10. QueueInv'
    BY <1>0, <1>1, <2>2, <2>9 DEF QueueInv
  <2> QED
    BY <1>3, <2>5, <2>6, <2>8, <2>10 DEF IInv
<1> QED
  BY <1>4, <1>5 DEF UpdateResult, SendPacket

(* The database worker. *)
LEMMA WorkerInv ==
  ASSUME IInv, WorkerStep
  PROVE  IInv'
<1>0. ContentInv /\ QueueInv /\ ThreadInv /\ MapInv /\ HeardInv /\ StopInv
  BY DEF IInv
<1>1. /\ UNCHANGED <<net, packets, contentQ, isRun, update, players, rooms, dbIsRun, heard, asked,
                     answered>>
      /\ sent' = {}
  BY DEF WorkerStep, PopJob, ProcessJob, DrainStart, DrainEnd, netVars, contentVars, traceVars,
         SendPacket
<1>2. ContentInv' /\ MapInv'
  BY <1>0, <1>1, SameMap DEF ContentInv, InRoomIsMember
<1>3. CASE PopJob
  <2>1. PICK j : j = Head(jobs)
    OBVIOUS
  <2>2. /\ jobs # <<>> /\ dbJob' = <<j>> /\ jobs' = Tail(jobs) /\ UNCHANGED <<results, dbThread>>
        /\ dbThread \in {"loop", "drain"}
    BY <1>3, <2>1 DEF PopJob
  <2>3. j \in Job /\ jobs' \in Seq(Job) /\ AllHeard(jobs', heard) /\ j.sid \in heard
    BY <1>0, <2>1, <2>2, TailEntries, HeardPop DEF QueueInv, HeardInv
  <2>4. dbJob' \in Seq(Job) /\ Len(dbJob') = 1 /\ dbJob'[1] = j
    BY <2>2, <2>3
  <2>5. QueueInv'
    BY <1>0, <1>1, <2>2, <2>3, <2>4 DEF QueueInv
  <2>6. HeardInv'
    BY <1>0, <1>1, <2>2, <2>3, <2>4 DEF HeardInv, SendsOnlyToHeard, AllHeard
  <2>7. ThreadInv' /\ StopInv'
    BY <1>0, <1>1, <2>2 DEF ThreadInv, StopInv, StopLosesNoJob
  <2> QED
    BY <1>2, <2>5, <2>6, <2>7 DEF IInv
<1>4. CASE ProcessJob
  <2>0. /\ dbJob # <<>> /\ dbJob \in Seq(Job) /\ Len(dbJob) \in Nat
        /\ 1 \in 1 .. Len(dbJob) /\ dbJob[1] \in Job /\ dbJob[1].sid \in heard
    BY <1>0, <1>4 DEF ProcessJob, QueueInv, HeardInv, AllHeard
  <2>1. PICK code \in {0, 1, 2} :
          results' = Append(results, [type |-> dbJob[1].type, sid |-> dbJob[1].sid,
                                      result |-> code])
    BY <1>4 DEF ProcessJob
  <2>2. PICK r : r = [type |-> dbJob[1].type, sid |-> dbJob[1].sid, result |-> code]
    OBVIOUS
  <2>3. r \in Result /\ r.sid \in heard
    BY <2>0, <2>2 DEF Job, Result
  <2>4. results' \in Seq(Result) /\ AllHeard(results', heard)
    BY <1>0, <2>1, <2>2, <2>3, AppendEntries, HeardPush DEF QueueInv, HeardInv
  <2>5. dbJob' = <<>> /\ UNCHANGED <<jobs, dbThread>>
    BY <1>4 DEF ProcessJob
  <2>6. QueueInv'
    BY <1>0, <1>1, <2>4, <2>5 DEF QueueInv
  <2>7. HeardInv'
    BY <1>0, <1>1, <2>4, <2>5 DEF HeardInv, SendsOnlyToHeard, AllHeard
  <2>8. ThreadInv' /\ StopInv'
    BY <1>0, <1>1, <2>5 DEF ThreadInv, StopInv, StopLosesNoJob
  <2> QED
    BY <1>2, <2>6, <2>7, <2>8 DEF IInv
<1>5. CASE DrainStart \/ DrainEnd
  <2>1. /\ UNCHANGED <<jobs, dbJob, results>>
        /\ \/ dbThread = "loop" /\ ~dbIsRun /\ dbThread' = "drain"
           \/ dbThread = "drain" /\ jobs = <<>> /\ dbJob = <<>> /\ dbThread' = "exit"
    BY <1>5 DEF DrainStart, DrainEnd
  <2>2. QueueInv' /\ HeardInv'
    BY <1>0, <1>1, <2>1 DEF QueueInv, HeardInv, SendsOnlyToHeard
  <2>3. ThreadInv' /\ StopInv'
    BY <1>0, <1>1, <2>1 DEF ThreadInv, StopInv, StopLosesNoJob
  <2> QED
    BY <1>2, <2>2, <2>3 DEF IInv
<1> QED
  BY <1>3, <1>4, <1>5 DEF WorkerStep

(* UpdateTest, StopContent and StopDB move the threads only. *)
LEMMA FlagsInv ==
  ASSUME IInv, UpdateTest \/ MainStep \/ UNCHANGED vars
  PROVE  IInv'
<1>0. ContentInv /\ QueueInv /\ ThreadInv /\ MapInv /\ HeardInv /\ StopInv
  BY DEF IInv
<1>1. /\ UNCHANGED <<net, packets, contentQ, players, rooms, jobs, dbJob, results, dbThread, heard,
                     asked, answered>>
      /\ sent' \in {{}, sent}
  BY DEF UpdateTest, MainStep, StopContent, StopDB, vars, netVars, dbVars, contentVars, traceVars,
         SendPacket
<1>2. ContentInv' /\ QueueInv' /\ MapInv'
  BY <1>0, <1>1, SameMap DEF ContentInv, InRoomIsMember, QueueInv
<1>3. HeardInv'
  BY <1>0, <1>1 DEF HeardInv, SendsOnlyToHeard
<1>4. \/ update = "test" /\ update' \in {"message", "exit"} /\ UNCHANGED <<isRun, dbIsRun>>
      \/ isRun' = FALSE /\ UNCHANGED <<update, dbIsRun>>
      \/ update = "exit" /\ dbIsRun' = FALSE /\ UNCHANGED <<update, isRun>>
      \/ UNCHANGED <<update, isRun, dbIsRun>>
  BY DEF UpdateTest, MainStep, StopContent, StopDB, vars, dbVars, contentVars
<1>5. ThreadInv'
  BY <1>0, <1>1, <1>4 DEF ThreadInv
<1>6. StopInv'
  <2>1. CASE update = "test" /\ UNCHANGED dbIsRun
    BY <1>0, <1>1, <2>1 DEF StopInv, StopLosesNoJob
  <2>2. CASE update = "exit" /\ dbIsRun' = FALSE /\ UNCHANGED update
    BY <1>0, <1>1, <2>2 DEF StopInv, StopLosesNoJob
  <2>3. CASE UNCHANGED <<update, dbIsRun>>
    BY <1>0, <1>1, <2>3 DEF StopInv, StopLosesNoJob
  <2> QED
    BY <1>4, <2>1, <2>2, <2>3
<1> QED
  BY <1>2, <1>3, <1>5, <1>6 DEF IInv

(* StartContent leaves empty rooms and queues. *)
LEMMA InitIInv == Init => IInv
<1> SUFFICES ASSUME Init PROVE IInv
  OBVIOUS
<1>1. ContentInv
  <2>1. IsFiniteSet({}) /\ Cardinality({}) = 0
    BY FS_EmptySet
  <2> QED
    BY <2>1, LimitAssumption DEF Init, ContentInv, InRoomIsMember
<1>2. QueueInv
  BY DEF Init, QueueInv
<1>3. ThreadInv /\ StopInv
  BY BoundsAssumption DEF Init, ThreadInv, StopInv, StopLosesNoJob
<1>4. MapInv
  BY DEF Init, MapInv, MessageOrder, MessageNet, PlayerMapExact, Waiting
<1>5. HeardInv
  BY DEF Init, HeardInv, SendsOnlyToHeard, AllHeard
<1> QED
  BY <1>1, <1>2, <1>3, <1>4, <1>5 DEF IInv

(* Every step of the network threads, the Update thread, the database      *)
(* worker and main keeps IInv.                                             *)
LEMMA NextIInv == IInv /\ [Next]_vars => IInv'
BY NetworkInv, MessageInv, ResultInv, WorkerInv, FlagsInv DEF Next, UpdateStep

(* CChatServer's variables keep their types, and no room ever holds more   *)
(* than MAX_LIMIT_PERSON sessions, for any number of rooms and sessions.   *)
THEOREM TypeCorrect == Spec => []TypeOK
<1>1. IInv => TypeOK
  BY DEF IInv, ContentInv, QueueInv, ThreadInv, HeardInv, SendsOnlyToHeard, TypeOK
<1> QED
  BY <1>1, InitIInv, NextIInv, PTL DEF Spec

(* The pointer GetRoom returns for a player in PS_IN_ROOM is a room the    *)
(* player is in: Handle_Leave, HandleRoomLeave and HandleChat need not     *)
(* test it, in whatever order logins, ROOM_ENTERs and leaves come.         *)
THEOREM Membership == Spec => []InRoomIsMember
<1>1. IInv => InRoomIsMember
  BY DEF IInv, ContentInv
<1> QED
  BY <1>1, InitIInv, NextIInv, PTL DEF Spec

(* A session has a player exactly from the handling of its JOIN to the     *)
(* handling of its LEAVE.                                                  *)
THEOREM PlayerMap == Spec => []PlayerMapExact
<1>1. IInv => PlayerMapExact
  BY DEF IInv, MapInv
<1> QED
  BY <1>1, InitIInv, NextIInv, PTL DEF Spec

(* SendPacket is called only for sessions whose packets were handled: what *)
(* CLanServer assumes of the content (HeardFrom) is a fact.                *)
THEOREM SendTargets == Spec => []SendsOnlyToHeard
<1>1. IInv => SendsOnlyToHeard
  BY DEF IInv, HeardInv
<1> QED
  BY <1>1, InitIInv, NextIInv, PTL DEF Spec

(* StopContent: when the database thread has returned, no accepted request *)
(* is left in its queue or in its hands.                                   *)
THEOREM Drained == Spec => []StopLosesNoJob
<1>1. IInv => StopLosesNoJob
  BY DEF IInv, StopInv
<1> QED
  BY <1>1, InitIInv, NextIInv, PTL DEF Spec
-----------------------------------------------------------------------------
(* The requests of one session in a queue *)

(* f gives where each of the requests s of a session is in a queue.        *)
Enumerates(f, s, sid, q) ==
  /\ f \in [1 .. Len(s) -> Positions(sid, q)]
  /\ \A k, m \in 1 .. Len(s) : k < m => f[k] < f[m]
  /\ \A i \in Positions(sid, q) : \E k \in 1 .. Len(s) : f[k] = i
  /\ \A k \in 1 .. Len(s) : s[k] = q[f[k]].type

IsOf(s, sid, q) == \E f : Enumerates(f, s, sid, q)

(* An increasing enumeration of a set counts the elements up to each.      *)
LEMMA RankOf ==
  ASSUME NEW n \in Nat, NEW P, NEW f \in [1 .. n -> P],
         \A i \in P : i \in Int,
         \A k, m \in 1 .. n : k < m => f[k] < f[m],
         \A i \in P : \E k \in 1 .. n : f[k] = i
  PROVE  /\ Cardinality(P) = n
         /\ \A k \in 1 .. n : Cardinality({j \in P : j <= f[k]}) = k
<1>1. \A k, m \in 1 .. n : f[k] <= f[m] => k <= m
  <2> SUFFICES ASSUME NEW k \in 1 .. n, NEW m \in 1 .. n, f[k] <= f[m]
               PROVE  k <= m
    OBVIOUS
  <2>1. k \in Int /\ m \in Int /\ f[k] \in Int /\ f[m] \in Int
    OBVIOUS
  <2>2. m < k => f[m] < f[k]
    OBVIOUS
  <2> QED
    BY <2>1, <2>2
<1>2. ASSUME NEW k \in 0 .. n, NEW T, T \in SUBSET P, 
             \A m \in 1 .. k : f[m] \in T,
             \A i \in T : \E m \in 1 .. k : f[m] = i
      PROVE  Cardinality(T) = k
  <2>1. IsFiniteSet(1 .. k) /\ Cardinality(1 .. k) = k
    BY FS_Interval
  <2> DEFINE g == [m \in 1 .. k |-> f[m]]
  <2>2. g \in [1 .. k -> T]
    BY <1>2
  <2>3. \A a, b \in 1 .. k : g[a] = g[b] => a = b
    <3> SUFFICES ASSUME NEW a \in 1 .. k, NEW b \in 1 .. k, g[a] = g[b]
                 PROVE  a = b
      OBVIOUS
    <3>1. a \in 1 .. n /\ b \in 1 .. n /\ f[a] = f[b] /\ f[a] \in Int
      OBVIOUS
    <3> QED
      BY <1>1, <3>1
  <2>4. \A i \in T : \E m \in 1 .. k : g[m] = i
    BY <1>2
  <2> HIDE DEF g
  <2>5. g \in Bijection(1 .. k, T)
    BY <2>2, <2>3, <2>4 DEF Bijection, Injection, Surjection, IsInjective
  <2>6. ExistsBijection(1 .. k, T)
    BY <2>5 DEF ExistsBijection
  <2> QED
    BY <2>1, <2>6, FS_Bijection
<1>3. Cardinality(P) = n
  BY <1>2
<1>4. ASSUME NEW k \in 1 .. n
      PROVE  Cardinality({j \in P : j <= f[k]}) = k
  <2>1. PICK T : T = {j \in P : j <= f[k]}
    OBVIOUS
  <2>2. \A m \in 1 .. k : f[m] \in T
    <3> SUFFICES ASSUME NEW m \in 1 .. k
                 PROVE  f[m] \in P /\ f[m] <= f[k]
      BY <2>1
    <3>1. m \in 1 .. n /\ (m = k \/ m < k) /\ f[m] \in Int /\ f[k] \in Int
      OBVIOUS
    <3> QED
      BY <3>1
  <2>3. \A i \in T : \E m \in 1 .. k : f[m] = i
    <3> SUFFICES ASSUME NEW i \in T
                 PROVE  \E m \in 1 .. k : f[m] = i
      OBVIOUS
    <3>1. PICK m \in 1 .. n : f[m] = i
      BY <2>1
    <3>2. m <= k
      BY <1>1, <2>1, <3>1
    <3> QED
      BY <3>1, <3>2
  <2> QED
    BY <1>2, <2>1, <2>2, <2>3
<1> QED
  BY <1>3, <1>4

(* Of gives that sequence. *)
LEMMA OfIs ==
  ASSUME NEW S, NEW s \in Seq(S), NEW sid, NEW q, IsOf(s, sid, q)
  PROVE  Of(sid, q) = s
<1>1. PICK P : P = Positions(sid, q)
  OBVIOUS
<1>2. PICK n : n = Len(s)
  OBVIOUS
<1>3. n \in Nat /\ s \in [1 .. n -> S]
  BY <1>2
<1>4. PICK f \in [1 .. n -> P] :
        /\ \A k, m \in 1 .. n : k < m => f[k] < f[m]
        /\ \A i \in P : \E k \in 1 .. n : f[k] = i
        /\ \A k \in 1 .. n : s[k] = q[f[k]].type
  BY <1>1, <1>2 DEF IsOf, Enumerates
<1>5. \A i \in P : i \in Int
  BY <1>1 DEF Positions
<1>6. /\ Cardinality(P) = n
      /\ \A k \in 1 .. n : Cardinality({j \in P : j <= f[k]}) = k
  BY <1>3, <1>4, <1>5, RankOf, SMTT(30)
<1>7. Of(sid, q) = [k \in 1 .. n |->
                      q[CHOOSE i \in P : Cardinality({j \in P : j <= i}) = k].type]
  BY <1>1, <1>6 DEF Of
<1>8. ASSUME NEW k \in 1 .. n
      PROVE  (CHOOSE i \in P : Cardinality({j \in P : j <= i}) = k) = f[k]
  <2>1. f[k] \in P /\ Cardinality({j \in P : j <= f[k]}) = k
    BY <1>4, <1>6
  <2>2. \A i \in P : Cardinality({j \in P : j <= i}) = k => i = f[k]
    BY <1>4, <1>6
  <2> QED
    BY <2>1, <2>2
<1>9. Of(sid, q) = [k \in 1 .. n |-> s[k]]
  <2>1. \A k \in 1 .. n :
          q[CHOOSE i \in P : Cardinality({j \in P : j <= i}) = k].type = s[k]
    BY <1>4, <1>8
  <2> QED
    BY <1>7, <2>1
<1> QED
  BY <1>3, <1>9

(* A request of sid, or of another session, comes last. *)
LEMMA IsOfAppend ==
  ASSUME NEW S, NEW q \in Seq(S), NEW x \in S, NEW sid, NEW T, NEW s \in Seq(T), x.type \in T,
         IsOf(s, sid, q)
  PROVE  IF x.sid = sid THEN IsOf(Append(s, x.type), sid, Append(q, x))
                        ELSE IsOf(s, sid, Append(q, x))
<1>1. PICK n, c : n = Len(q) /\ c = Append(q, x) /\ n \in Nat /\ c \in Seq(S)
  BY AppendEntries
<1>2. Len(c) = n + 1 /\ (\A i \in 1 .. n : c[i] = q[i]) /\ c[n + 1] = x
  BY <1>1, AppendProperties
<1>3. PICK P : P = Positions(sid, q)
  OBVIOUS
<1>4. PICK l \in Nat : l = Len(s)
  OBVIOUS
<1>5. PICK f \in [1 .. l -> P] :
        /\ \A k, m \in 1 .. l : k < m => f[k] < f[m]
        /\ \A i \in P : \E k \in 1 .. l : f[k] = i
        /\ \A k \in 1 .. l : s[k] = q[f[k]].type
  BY <1>3, <1>4 DEF IsOf, Enumerates
<1>6. \A i : i \in P <=> i \in 1 .. n /\ q[i].sid = sid
  BY <1>1, <1>3 DEF Positions
<1>7. \A i : i \in Positions(sid, c) <=> i \in P \/ (i = n + 1 /\ x.sid = sid)
  BY <1>1, <1>2, <1>6 DEF Positions
<1>8. CASE x.sid # sid
  <2>1. Positions(sid, c) = P
    BY <1>7, <1>8
  <2>2. \A k \in 1 .. l : s[k] = c[f[k]].type
    BY <1>2, <1>5, <1>6
  <2>3. IsOf(s, sid, c)
    <3>1. Enumerates(f, s, sid, c)
      BY <1>4, <1>5, <2>1, <2>2 DEF Enumerates
    <3> QED
      BY <3>1 DEF IsOf
  <2> QED
    BY <1>1, <1>8, <2>3
<1>9. CASE x.sid = sid
  <2>1. PICK t \in Seq(T) : t = Append(s, x.type)
    BY AppendProperties
  <2>2. Len(t) = l + 1 /\ (\A k \in 1 .. l : t[k] = s[k]) /\ t[l + 1] = x.type
    BY <1>4, <2>1, AppendProperties
  <2> DEFINE g == [k \in 1 .. l + 1 |-> IF k = l + 1 THEN n + 1 ELSE f[k]]
  <2>3. \A k \in 1 .. l : g[k] = f[k] /\ f[k] \in P /\ f[k] \in 1 .. n
    <3> SUFFICES ASSUME NEW k \in 1 .. l
                 PROVE  g[k] = f[k] /\ f[k] \in P /\ f[k] \in 1 .. n
      OBVIOUS
    <3>1. k \in 1 .. l + 1 /\ k # l + 1
      BY <1>4
    <3>2. f[k] \in P
      OBVIOUS
    <3> QED
      BY <1>6, <3>1, <3>2
  <2>4. g[l + 1] = n + 1
    OBVIOUS
  <2>5. \A k \in 1 .. l + 1 : k \in 1 .. l \/ k = l + 1
    OBVIOUS
  <2>6. g \in [1 .. Len(t) -> Positions(sid, c)]
    BY <1>7, <1>9, <2>2, <2>3, <2>4, <2>5
  <2> HIDE DEF g
  <2>7. \A k, m \in 1 .. l + 1 : k < m => g[k] < g[m]
    <3> SUFFICES ASSUME NEW k \in 1 .. l + 1, NEW m \in 1 .. l + 1, k < m
                 PROVE  g[k] < g[m]
      OBVIOUS
    <3>1. k \in 1 .. l
      OBVIOUS
    <3>2. CASE m \in 1 .. l
      BY <1>5, <2>3, <3>1, <3>2
    <3>3. CASE m = l + 1
      <4>1. g[k] \in 1 .. n /\ g[m] = n + 1
        BY <2>3, <2>4, <3>1, <3>3
      <4> QED
        BY <1>1, <4>1
    <3> QED
      BY <2>5, <3>2, <3>3
  <2>8. \A i \in Positions(sid, c) : \E k \in 1 .. l + 1 : g[k] = i
    <3> SUFFICES ASSUME NEW i \in Positions(sid, c)
                 PROVE  \E k \in 1 .. l + 1 : g[k] = i
      OBVIOUS
    <3>1. CASE i \in P
      <4>1. PICK k \in 1 .. l : f[k] = i
        BY <1>5, <3>1
      <4> QED
        BY <2>3, <4>1
    <3>2. CASE i = n + 1
      BY <2>4, <3>2
    <3> QED
      BY <1>7, <3>1, <3>2
  <2>9. \A k \in 1 .. l + 1 : t[k] = c[g[k]].type
    <3> SUFFICES ASSUME NEW k \in 1 .. l + 1
                 PROVE  t[k] = c[g[k]].type
      OBVIOUS
    <3>1. CASE k \in 1 .. l
      <4>1. t[k] = q[f[k]].type
        BY <1>5, <2>2, <3>1
      <4> QED
        BY <1>2, <2>3, <3>1, <4>1
    <3>2. CASE k = l + 1
      BY <1>2, <2>2, <2>4, <3>2
    <3> QED
      BY <2>5, <3>1, <3>2
  <2>10. IsOf(t, sid, c)
    <3>1. Enumerates(g, t, sid, c)
      BY <2>2, <2>6, <2>7, <2>8, <2>9 DEF Enumerates
    <3> QED
      BY <3>1 DEF IsOf
  <2> QED
    BY <1>1, <1>9, <2>1, <2>10
<1> QED
  BY <1>8, <1>9

(* The first entry of the queue goes: it was the oldest of its session. *)
LEMMA IsOfTail ==
  ASSUME NEW S, NEW q \in Seq(S), q # <<>>, NEW sid, NEW T, NEW s \in Seq(T), IsOf(s, sid, q)
  PROVE  IF q[1].sid = sid THEN /\ s # <<>> /\ s[1] = q[1].type
                                /\ IsOf(Tail(s), sid, Tail(q))
                           ELSE IsOf(s, sid, Tail(q))
<1>1. PICK n, c : n = Len(q) /\ c = Tail(q) /\ n \in Nat /\ n >= 1 /\ c \in Seq(S)
  <2>1. Len(q) \in Nat /\ Len(q) >= 1 /\ Tail(q) \in Seq(S)
    BY TailEntries
  <2> QED
    BY <2>1
<1>2. Len(c) = n - 1 /\ \A i \in 1 .. n - 1 : c[i] = q[i + 1]
  BY <1>1, HeadTailProperties
<1>3. PICK P : P = Positions(sid, q)
  OBVIOUS
<1>4. PICK l \in Nat : l = Len(s)
  OBVIOUS
<1>5. PICK f \in [1 .. l -> P] :
        /\ \A k, m \in 1 .. l : k < m => f[k] < f[m]
        /\ \A i \in P : \E k \in 1 .. l : f[k] = i
        /\ \A k \in 1 .. l : s[k] = q[f[k]].type
  BY <1>3, <1>4 DEF IsOf, Enumerates
<1>6. \A i : i \in P <=> i \in 1 .. n /\ q[i].sid = sid
  BY <1>1, <1>3 DEF Positions
<1>7. \A i : i \in Positions(sid, c) <=> i \in 1 .. n - 1 /\ i + 1 \in P
  BY <1>1, <1>2, <1>6 DEF Positions
<1>8. CASE q[1].sid # sid
  <2> DEFINE g == [k \in 1 .. l |-> f[k] - 1]
  <2>1. \A k \in 1 .. l : /\ g[k] = f[k] - 1 /\ f[k] \in P /\ f[k] \in 1 .. n /\ f[k] # 1
                          /\ g[k] \in 1 .. n - 1 /\ g[k] + 1 = f[k]
    <3> SUFFICES ASSUME NEW k \in 1 .. l
                 PROVE  /\ g[k] = f[k] - 1 /\ f[k] \in P /\ f[k] \in 1 .. n /\ f[k] # 1
                        /\ g[k] \in 1 .. n - 1 /\ g[k] + 1 = f[k]
      OBVIOUS
    <3>1. g[k] = f[k] - 1 /\ f[k] \in P
      OBVIOUS
    <3>2. f[k] \in 1 .. n /\ f[k] # 1
      BY <1>6, <1>8, <3>1
    <3> QED
      BY <1>1, <3>1, <3>2
  <2>2. g \in [1 .. l -> Positions(sid, c)]
    BY <1>7, <2>1
  <2> HIDE DEF g
  <2>3. \A k, m \in 1 .. l : k < m => g[k] < g[m]
    BY <1>5, <2>1
  <2>4. \A i \in Positions(sid, c) : \E k \in 1 .. l : g[k] = i
    <3> SUFFICES ASSUME NEW i \in Positions(sid, c)
                 PROVE  \E k \in 1 .. l : g[k] = i
      OBVIOUS
    <3>1. PICK k \in 1 .. l : f[k] = i + 1
      BY <1>5, <1>7
    <3>2. i \in Int /\ g[k] + 1 = i + 1 /\ g[k] \in Int
      BY <1>7, <2>1, <3>1
    <3> QED
      BY <3>2
  <2>5. \A k \in 1 .. l : s[k] = c[g[k]].type
    BY <1>2, <1>5, <2>1, ZenonT(30)
  <2>6. IsOf(s, sid, c)
    <3>1. Enumerates(g, s, sid, c)
      BY <1>4, <2>2, <2>3, <2>4, <2>5 DEF Enumerates
    <3> QED
      BY <3>1 DEF IsOf
  <2> QED
    BY <1>1, <1>8, <2>6
<1>9. CASE q[1].sid = sid
  <2>1. 1 \in P
    BY <1>1, <1>6, <1>9
  <2>2. PICK a \in 1 .. l : f[a] = 1
    BY <1>5, <2>1
  <2>3. a = 1 /\ l >= 1
    <3>1. 1 \in 1 .. l /\ f[1] \in 1 .. n
      BY <1>6, <2>2
    <3>2. 1 < a => f[1] < f[a]
      BY <1>5, <2>2, <3>1
    <3> QED
      BY <2>2, <3>1, <3>2
  <2>4. s # <<>> /\ s[1] = q[1].type
    BY <1>4, <1>5, <2>2, <2>3
  <2>5. PICK t \in Seq(T) : t = Tail(s)
    BY <2>4, HeadTailProperties
  <2>6. Len(t) = l - 1 /\ \A k \in 1 .. l - 1 : t[k] = s[k + 1]
    BY <1>4, <2>4, <2>5, HeadTailProperties
  <2> DEFINE g == [k \in 1 .. l - 1 |-> f[k + 1] - 1]
  <2>7. \A k \in 1 .. l - 1 : k + 1 \in 1 .. l /\ 1 \in 1 .. l /\ 1 < k + 1
    BY <2>3
  <2>8. \A k \in 1 .. l - 1 : /\ g[k] = f[k + 1] - 1 /\ f[k + 1] \in P /\ f[k + 1] \in 1 .. n
                              /\ 1 < f[k + 1]
    BY <1>5, <1>6, <2>2, <2>3, <2>7
  <2>9. \A k \in 1 .. l - 1 : g[k] \in 1 .. n - 1 /\ g[k] + 1 = f[k + 1]
    <3> SUFFICES ASSUME NEW k \in 1 .. l - 1
                 PROVE  g[k] \in 1 .. n - 1 /\ g[k] + 1 = f[k + 1]
      OBVIOUS
    <3>1. PICK a1 : a1 = f[k + 1]
      OBVIOUS
    <3>2. g[k] = a1 - 1 /\ a1 \in 1 .. n /\ 1 < a1
      BY <2>8, <3>1
    <3> HIDE DEF g
    <3> QED
      BY <1>1, <3>1, <3>2
  <2>10. g \in [1 .. Len(t) -> Positions(sid, c)]
    BY <1>7, <2>6, <2>8, <2>9
  <2> HIDE DEF g
  <2>11. \A k, m \in 1 .. l - 1 : k < m => g[k] < g[m]
    <3> SUFFICES ASSUME NEW k \in 1 .. l - 1, NEW m \in 1 .. l - 1, k < m
                 PROVE  g[k] < g[m]
      OBVIOUS
    <3>1. k + 1 < m + 1 /\ k + 1 \in 1 .. l /\ m + 1 \in 1 .. l
      BY <2>7
    <3>2. f[k + 1] < f[m + 1]
      BY <1>5, <3>1
    <3> QED
      BY <2>8, <2>9, <3>2
  <2>12. \A i \in Positions(sid, c) : \E k \in 1 .. l - 1 : g[k] = i
    <3> SUFFICES ASSUME NEW i \in Positions(sid, c)
                 PROVE  \E k \in 1 .. l - 1 : g[k] = i
      OBVIOUS
    <3>1. PICK k \in 1 .. l : f[k] = i + 1
      BY <1>5, <1>7
    <3>2. i \in 1 .. n - 1
      BY <1>7
    <3>3. k # 1
      BY <2>2, <2>3, <3>1, <3>2
    <3>4. k - 1 \in 1 .. l - 1 /\ (k - 1) + 1 = k
      BY <3>3
    <3>5. g[k - 1] = f[k] - 1
      BY <2>8, <3>4
    <3> QED
      BY <3>1, <3>2, <3>4, <3>5
  <2>13. \A k \in 1 .. l - 1 : t[k] = c[g[k]].type
    <3> SUFFICES ASSUME NEW k \in 1 .. l - 1
                 PROVE  t[k] = c[g[k]].type
      OBVIOUS
    <3>1. t[k] = q[f[k + 1]].type
      BY <1>5, <2>6, <2>7
    <3> QED
      BY <1>2, <2>9, <3>1
  <2>14. IsOf(t, sid, c)
    <3>1. Enumerates(g, t, sid, c)
      BY <2>6, <2>10, <2>11, <2>12, <2>13 DEF Enumerates
    <3> QED
      BY <3>1 DEF IsOf
  <2> QED
    BY <1>1, <1>9, <2>4, <2>5, <2>14
<1> QED
  BY <1>8, <1>9

(* Only who asked and what matter. *)
LEMMA IsOfSame ==
  ASSUME NEW q, NEW c, NEW s, NEW sid, IsOf(s, sid, q), Len(c) = Len(q),
         \A i \in 1 .. Len(q) : c[i].sid = q[i].sid /\ c[i].type = q[i].type
  PROVE  IsOf(s, sid, c)
<1>1. PICK P, n : P = Positions(sid, q) /\ n = Len(s)
  OBVIOUS
<1>2. Positions(sid, c) = P /\ \A i \in P : c[i].type = q[i].type
  BY <1>1 DEF Positions
<1>3. PICK f \in [1 .. n -> P] :
        /\ \A k, m \in 1 .. n : k < m => f[k] < f[m]
        /\ \A i \in P : \E k \in 1 .. n : f[k] = i
        /\ \A k \in 1 .. n : s[k] = q[f[k]].type
  BY <1>1 DEF IsOf, Enumerates
<1>4. \A k \in 1 .. n : s[k] = c[f[k]].type
  BY <1>2, <1>3
<1>5. Enumerates(f, s, sid, c)
  BY <1>1, <1>2, <1>3, <1>4 DEF Enumerates
<1> QED
  BY <1>5 DEF IsOf

(* Requests a made and answers b given differ by what the queue q holds.   *)
Balanced(a, b, sid, q) == \E s \in Seq(JobTypes) : IsOf(s, sid, q) /\ a = b \o s

(* A request pushed is one more asked. *)
LEMMA BalancedAppend ==
  ASSUME NEW S, NEW q \in Seq(S), NEW x \in S, x.type \in JobTypes, NEW sid,
         NEW a, NEW b \in Seq(JobTypes), Balanced(a, b, sid, q)
  PROVE  IF x.sid = sid THEN Balanced(Append(a, x.type), b, sid, Append(q, x))
                        ELSE Balanced(a, b, sid, Append(q, x))
<1>1. PICK s \in Seq(JobTypes) : IsOf(s, sid, q) /\ a = b \o s
  BY DEF Balanced
<1>2. PICK y, c : y = x.type /\ c = Append(q, x)
  OBVIOUS
<1>3. CASE x.sid = sid
  <2>1. IsOf(Append(s, y), sid, c)
    BY <1>1, <1>2, <1>3, IsOfAppend
  <2>2. /\ Append(s, y) \in Seq(JobTypes) /\ <<y>> \in Seq(JobTypes)
        /\ Append(s, y) = s \o <<y>> /\ Append(a, y) = a \o <<y>>
    <3>1. y \in JobTypes /\ a \in Seq(JobTypes)
      BY <1>1, <1>2, ConcatProperties
    <3> QED
      BY <3>1, AppendIsConcat, AppendProperties
  <2>3. Append(a, y) = b \o Append(s, y)
    BY <1>1, <2>2, ConcatAssociative
  <2>4. Balanced(Append(a, y), b, sid, c)
    BY <2>1, <2>2, <2>3 DEF Balanced
  <2> QED
    BY <1>2, <1>3, <2>4
<1>4. CASE x.sid # sid
  <2>1. IsOf(s, sid, c)
    BY <1>1, <1>2, <1>4, IsOfAppend
  <2>2. Balanced(a, b, sid, c)
    BY <1>1, <2>1 DEF Balanced
  <2> QED
    BY <1>2, <1>4, <2>2
<1> QED
  BY <1>3, <1>4

(* A result taken is one more answered; there was one to answer. *)
LEMMA BalancedTail ==
  ASSUME NEW S, NEW q \in Seq(S), q # <<>>, NEW sid,
         NEW a, NEW b \in Seq(JobTypes), Balanced(a, b, sid, q)
  PROVE  IF q[1].sid = sid THEN a # b /\ Balanced(a, Append(b, q[1].type), sid, Tail(q))
                           ELSE Balanced(a, b, sid, Tail(q))
<1>1. PICK s \in Seq(JobTypes) : IsOf(s, sid, q) /\ a = b \o s
  BY DEF Balanced
<1>2. PICK y, c : y = q[1].type /\ c = Tail(q)
  OBVIOUS
<1>3. CASE q[1].sid = sid
  <2>1. s # <<>> /\ s[1] = y /\ IsOf(Tail(s), sid, c)
    BY <1>1, <1>2, <1>3, IsOfTail
  <2>2. PICK t \in Seq(JobTypes) : t = Tail(s)
    BY <2>1, TailEntries
  <2>3. y \in JobTypes /\ <<y>> \in Seq(JobTypes)
    BY <2>1, TailEntries
  <2>4. s = <<y>> \o t
    <3>1. SubSeq(s, 1, Len(s)) = s /\ Tail(s) = SubSeq(s, 2, Len(s))
      BY <2>1, SubSeqFull, TailIsSubSeq
    <3>2. 1 \in 1 .. Len(s) /\ Len(s) \in 1 .. Len(s)
      BY <2>1
    <3>3. SubSeq(s, 1, Len(s)) = <<s[1]>> \o SubSeq(s, 1 + 1, Len(s))
      BY <3>2, SubSeqRecursiveFirst
    <3> QED
      BY <2>1, <2>2, <3>1, <3>3
  <2>5. Append(b, y) = b \o <<y>>
    BY <2>3, AppendIsConcat
  <2>6. a = Append(b, y) \o t
    BY <1>1, <2>2, <2>3, <2>4, <2>5, ConcatAssociative
  <2>7. a # b
    BY <1>1, <2>1, ConcatEqualIffEmpty
  <2>8. Balanced(a, Append(b, y), sid, c)
    BY <2>1, <2>2, <2>6 DEF Balanced
  <2> QED
    BY <1>2, <1>3, <2>7, <2>8
<1>4. CASE q[1].sid # sid
  <2>1. IsOf(s, sid, c)
    BY <1>1, <1>2, <1>4, IsOfTail
  <2>2. Balanced(a, b, sid, c)
    BY <1>1, <2>1 DEF Balanced
  <2> QED
    BY <1>2, <1>4, <2>2
<1> QED
  BY <1>3, <1>4

-----------------------------------------------------------------------------
(* Pipeline: the requests accepted and not answered. *)

Entry == Job \cup Result

(* It is one queue. *)
LEMMA PipelineType ==
  ASSUME QueueInv
  PROVE  /\ jobs \in Seq(Entry) /\ dbJob \in Seq(Entry) /\ results \in Seq(Entry)
         /\ results \o dbJob \in Seq(Entry) /\ Pipeline \in Seq(Entry)
<1>1. jobs \in Seq(Entry) /\ dbJob \in Seq(Entry) /\ results \in Seq(Entry)
  <2> HIDE DEF Job, Result
  <2>1. Job \subseteq Entry /\ Result \subseteq Entry
    BY DEF Entry
  <2> QED
    BY <2>1 DEF QueueInv
<1> QED
  BY <1>1, ConcatProperties DEF Pipeline

(* PushJob adds its request at the end. *)
LEMMA PipelinePush ==
  ASSUME QueueInv, NEW x \in Job, jobs' = Append(jobs, x), UNCHANGED <<results, dbJob>>
  PROVE  Pipeline' = Append(Pipeline, x)
<1>1. PICK r : r = results \o dbJob
  OBVIOUS
<1>2. r \in Seq(Entry) /\ jobs \in Seq(Entry) /\ x \in Entry /\ r \o jobs \in Seq(Entry)
  BY <1>1, PipelineType DEF Entry, Pipeline
<1>3. Append(jobs, x) = jobs \o <<x>> /\ Append(r \o jobs, x) = (r \o jobs) \o <<x>>
  BY <1>2, AppendIsConcat
<1>4. <<x>> \in Seq(Entry)
  BY <1>2
<1>5. r \o (jobs \o <<x>>) = (r \o jobs) \o <<x>>
  BY <1>2, <1>4, ConcatAssociative
<1> QED
  BY <1>1, <1>3, <1>5 DEF Pipeline

(* The tail of a concatenation. *)
LEMMA ConcatTail ==
  ASSUME NEW S, NEW s \in Seq(S), NEW t \in Seq(S), s # <<>>
  PROVE  s \o t # <<>> /\ (s \o t)[1] = s[1] /\ Tail(s \o t) = Tail(s) \o t
<1>1. Len(s) \in Nat /\ Len(t) \in Nat /\ Len(s) >= 1
  OBVIOUS
<1>2. PICK c \in Seq(S) : c = s \o t
  BY ConcatProperties
<1>3. Len(c) = Len(s) + Len(t)
      /\ \A i \in 1 .. Len(s) + Len(t) : c[i] = IF i <= Len(s) THEN s[i] ELSE t[i - Len(s)]
  BY <1>2, ConcatProperties
<1>4. c # <<>> /\ c[1] = s[1]
  BY <1>1, <1>3
<1>5. PICK u \in Seq(S) : u = Tail(s)
  BY HeadTailProperties
<1>6. Len(u) = Len(s) - 1 /\ \A i \in 1 .. Len(s) - 1 : u[i] = s[i + 1]
  BY <1>5, HeadTailProperties
<1>7. PICK v \in Seq(S) : v = u \o t
  BY ConcatProperties
<1>8. Len(v) = Len(u) + Len(t)
      /\ \A i \in 1 .. Len(u) + Len(t) : v[i] = IF i <= Len(u) THEN u[i] ELSE t[i - Len(u)]
  BY <1>7, ConcatProperties
<1>9. PICK w \in Seq(S) : w = Tail(c)
  BY <1>4, HeadTailProperties
<1>10. Len(w) = Len(c) - 1 /\ \A i \in 1 .. Len(c) - 1 : w[i] = c[i + 1]
  BY <1>4, <1>9, HeadTailProperties
<1>11. Len(w) = Len(v)
  BY <1>1, <1>3, <1>6, <1>8, <1>10
<1>12. ASSUME NEW i \in 1 .. Len(w)
       PROVE  w[i] = v[i]
  <2>1. w[i] = c[i + 1] /\ i + 1 \in 1 .. Len(s) + Len(t) /\ i \in 1 .. Len(u) + Len(t)
    BY <1>1, <1>3, <1>6, <1>10
  <2>2. CASE i <= Len(s) - 1
    <3>1. w[i] = s[i + 1]
      BY <1>1, <1>3, <2>1, <2>2
    <3>2. v[i] = u[i] /\ i \in 1 .. Len(s) - 1
      BY <1>1, <1>6, <1>8, <2>1, <2>2
    <3> QED
      BY <1>6, <3>1, <3>2
  <2>3. CASE ~(i <= Len(s) - 1)
    <3>1. w[i] = t[(i + 1) - Len(s)]
      BY <1>1, <1>3, <2>1, <2>3
    <3>2. v[i] = t[i - (Len(s) - 1)]
      BY <1>1, <1>6, <1>8, <2>1, <2>3
    <3>3. i - (Len(s) - 1) = (i + 1) - Len(s)
      BY <1>1
    <3> QED
      BY <3>1, <3>2, <3>3
  <2> QED
    BY <2>2, <2>3
<1>13. w = v
  BY <1>11, <1>12, SeqEqual
<1> QED
  BY <1>2, <1>4, <1>5, <1>7, <1>9, <1>13

(* The Update thread takes the oldest request that has its result. *)
LEMMA PipelinePop ==
  ASSUME QueueInv, results # <<>>, results' = Tail(results), UNCHANGED <<dbJob, jobs>>
  PROVE  Pipeline # <<>> /\ Pipeline[1] = Head(results) /\ Pipeline' = Tail(Pipeline)
<1>1. PICK r : r = results \o dbJob
  OBVIOUS
<1>2. results \in Seq(Entry) /\ dbJob \in Seq(Entry) /\ r \in Seq(Entry) /\ jobs \in Seq(Entry)
  BY <1>1, PipelineType
<1>3. r # <<>> /\ r[1] = results[1] /\ Tail(r) = Tail(results) \o dbJob
  BY <1>1, <1>2, ConcatTail
<1>4. r \o jobs # <<>> /\ (r \o jobs)[1] = r[1] /\ Tail(r \o jobs) = Tail(r) \o jobs
  BY <1>2, <1>3, ConcatTail
<1>5. results[1] = Head(results)
  BY <1>2, TailEntries
<1> QED
  BY <1>1, <1>3, <1>4, <1>5 DEF Pipeline

(* The worker changes neither who asked nor what, nor the order. *)
LEMMA PipelineWorker ==
  ASSUME QueueInv, WorkerStep
  PROVE  /\ Len(Pipeline') = Len(Pipeline)
         /\ \A i \in 1 .. Len(Pipeline) : /\ Pipeline'[i].sid = Pipeline[i].sid
                                          /\ Pipeline'[i].type = Pipeline[i].type
<1>0. /\ jobs \in Seq(Entry) /\ dbJob \in Seq(Entry) /\ results \in Seq(Entry)
      /\ Len(jobs) \in Nat /\ Len(results) \in Nat
  BY PipelineType
<1>1. CASE PopJob
  <2>1. PICK j : j = Head(jobs)
    OBVIOUS
  <2>2. jobs # <<>> /\ dbJob = <<>> /\ dbJob' = <<j>> /\ jobs' = Tail(jobs) /\ results' = results
    BY <1>1, <2>1 DEF PopJob
  <2>3. j \in Entry /\ j = jobs[1] /\ <<j>> \in Seq(Entry) /\ Tail(jobs) \in Seq(Entry)
    BY <1>0, <2>1, <2>2, TailEntries
  <2>4. jobs = <<j>> \o Tail(jobs)
    <3>1. SubSeq(jobs, 1, Len(jobs)) = jobs /\ Tail(jobs) = SubSeq(jobs, 2, Len(jobs))
      BY <1>0, <2>2, SubSeqFull, TailIsSubSeq
    <3>2. 1 \in 1 .. Len(jobs) /\ Len(jobs) \in 1 .. Len(jobs)
      BY <1>0, <2>2
    <3>3. SubSeq(jobs, 1, Len(jobs)) = <<jobs[1]>> \o SubSeq(jobs, 1 + 1, Len(jobs))
      BY <1>0, <3>2, SubSeqRecursiveFirst
    <3> QED
      BY <2>3, <3>1, <3>3
  <2>5. results \o <<>> = results
    BY <1>0, ConcatEmptySeq
  <2>6. results \o (<<j>> \o Tail(jobs)) = (results \o <<j>>) \o Tail(jobs)
    BY <1>0, <2>3, ConcatAssociative
  <2>7. Pipeline' = Pipeline
    BY <2>2, <2>4, <2>5, <2>6 DEF Pipeline
  <2> QED
    BY <2>7
<1>2. CASE ProcessJob
  <2>1. PICK d, code :
          /\ d = dbJob[1] /\ code \in {0, 1, 2}
          /\ results' = Append(results, [type |-> d.type, sid |-> d.sid, result |-> code])
    BY <1>2 DEF ProcessJob
  <2>2. PICK r : r = [type |-> d.type, sid |-> d.sid, result |-> code]
    OBVIOUS
  <2>3. dbJob # <<>> /\ dbJob' = <<>> /\ jobs' = jobs
    BY <1>2 DEF ProcessJob
  <2>4. d \in Job /\ dbJob = <<d>> /\ d \in Entry
    <3>1. dbJob \in Seq(Job) /\ Len(dbJob) = 1
      <4>1. dbJob \in Seq(Job) /\ Len(dbJob) <= 1
        BY DEF QueueInv
      <4>2. Len(dbJob) \in Nat \ {0}
        BY <2>3, <4>1, EmptySeq
      <4>3. PICK l : l = Len(dbJob)
        OBVIOUS
      <4>4. l = 1
        BY ONLY <4>1, <4>2, <4>3
      <4> QED
        BY <4>1, <4>3, <4>4
    <3>2. d \in Job
      <4>1. 1 \in 1 .. Len(dbJob)
        BY <3>1
      <4>2. dbJob[1] \in Job
        BY ONLY <3>1, <4>1, ElementOfSeq
      <4> QED
        BY <2>1, <4>2
    <3>3. <<d>> \in Seq(Job) /\ Len(<<d>>) = 1 /\ <<d>>[1] = d
      BY <3>2
    <3>4. dbJob = <<d>>
      BY <2>1, <3>1, <3>3, SeqEqual
    <3> QED
      BY <3>2, <3>4 DEF Entry
  <2>5. r \in Entry /\ r.sid = d.sid /\ r.type = d.type
    BY <2>1, <2>2, <2>4 DEF Entry, Job, Result
  <2>6. Append(results, r) = results \o <<r>> /\ Append(results, r) \o <<>> = Append(results, r)
    BY <1>0, <2>5, AppendIsConcat, AppendProperties, ConcatEmptySeq
  <2>7. Pipeline' = Append(results, r) \o jobs /\ Pipeline = Append(results, d) \o jobs
    <3>1. Append(results, d) = results \o <<d>>
      BY <1>0, <2>4, AppendIsConcat
    <3> QED
      BY <2>1, <2>2, <2>3, <2>4, <2>6, <3>1 DEF Pipeline
  <2>8. /\ Append(results, r) \in Seq(Entry) /\ Append(results, d) \in Seq(Entry)
        /\ Len(Append(results, r)) = Len(results) + 1 /\ Len(Append(results, d)) = Len(results) + 1
        /\ \A i \in 1 .. Len(results) + 1 :
             /\ Append(results, r)[i].sid = Append(results, d)[i].sid
             /\ Append(results, r)[i].type = Append(results, d)[i].type
    <3>1. \A i \in 1 .. Len(results) + 1 : i \in 1 .. Len(results) \/ i = Len(results) + 1
      BY <1>0
    <3> QED
      BY <1>0, <2>4, <2>5, <3>1, AppendProperties
  <2>9. PICK p, q : p = Append(results, r) /\ q = Append(results, d)
    OBVIOUS
  <2>10. PICK n \in Nat : n = Len(results) + 1
    BY <1>0
  <2>11. /\ p \in Seq(Entry) /\ q \in Seq(Entry) /\ Len(p) = n /\ Len(q) = n
         /\ \A i \in 1 .. n : p[i].sid = q[i].sid /\ p[i].type = q[i].type
    BY <2>8, <2>9, <2>10
  <2>12. /\ Len(p \o jobs) = n + Len(jobs) /\ Len(q \o jobs) = n + Len(jobs)
         /\ \A i \in 1 .. n + Len(jobs) : (p \o jobs)[i] = IF i <= n THEN p[i] ELSE jobs[i - n]
         /\ \A i \in 1 .. n + Len(jobs) : (q \o jobs)[i] = IF i <= n THEN q[i] ELSE jobs[i - n]
    <3>1. ASSUME NEW u \in Seq(Entry), Len(u) = n
          PROVE  /\ Len(u \o jobs) = n + Len(jobs)
                 /\ \A i \in 1 .. n + Len(jobs) :
                      (u \o jobs)[i] = IF i <= n THEN u[i] ELSE jobs[i - n]
      BY <1>0, <3>1, ConcatProperties
    <3> QED
      BY <2>11, <3>1
  <2>13. ASSUME NEW i \in 1 .. n + Len(jobs)
         PROVE  (p \o jobs)[i].sid = (q \o jobs)[i].sid /\ (p \o jobs)[i].type = (q \o jobs)[i].type
    <3>1. CASE i <= n
      BY <1>0, <2>11, <2>12, <3>1
    <3>2. CASE ~(i <= n)
      BY <2>12, <3>2
    <3> QED
      BY <3>1, <3>2
  <2> QED
    BY <2>7, <2>9, <2>12, <2>13
<1>3. CASE DrainStart \/ DrainEnd
  BY <1>3 DEF DrainStart, DrainEnd, Pipeline
<1> QED
  BY <1>1, <1>2, <1>3 DEF WorkerStep
-----------------------------------------------------------------------------
(* The answers match the requests *)

(* Before its JOIN is handled nothing was asked for a session. *)
Fresh(sid) == net[sid] = "new" \/ Waiting("join", sid)

AnswerInv ==
  /\ \A sid \in Sids : sid \in DOMAIN players \/ Fresh(sid) =>
       Balanced(asked[sid], answered[sid], sid, Pipeline)
  /\ \A sid \in Sids : Fresh(sid) => asked[sid] = answered[sid]

(* A fresh session has no player. *)
LEMMA FreshNoPlayer ==
  ASSUME MapInv
  PROVE  \A sid \in Sids : Fresh(sid) => sid \notin DOMAIN players
BY DEF MapInv, PlayerMapExact, Fresh

(* No session becomes fresh, and one that gets a player was. *)
OnlyFreshJoin ==
  \A sid \in Sids : /\ Fresh(sid)' => Fresh(sid)
                    /\ sid \in DOMAIN players' => sid \in DOMAIN players \/ Fresh(sid)

(* A step that leaves who asked what, and the order, alone. *)
LEMMA SameAnswers ==
  ASSUME AnswerInv, OnlyFreshJoin, UNCHANGED <<asked, answered>>, Len(Pipeline') = Len(Pipeline),
         \A i \in 1 .. Len(Pipeline) : /\ Pipeline'[i].sid = Pipeline[i].sid
                                       /\ Pipeline'[i].type = Pipeline[i].type
  PROVE  AnswerInv'
<1>1. PICK p, q : p = Pipeline /\ q = Pipeline'
  OBVIOUS
<1>2. Len(q) = Len(p) /\ \A i \in 1 .. Len(p) : q[i].sid = p[i].sid /\ q[i].type = p[i].type
  BY <1>1
<1>3. ASSUME NEW sid \in Sids, NEW a, NEW b, Balanced(a, b, sid, p)
      PROVE  Balanced(a, b, sid, q)
  <2>1. PICK s \in Seq(JobTypes) : IsOf(s, sid, p) /\ a = b \o s
    BY <1>3 DEF Balanced
  <2>2. IsOf(s, sid, q)
    BY <1>2, <2>1, IsOfSame
  <2> QED
    BY <2>1, <2>2 DEF Balanced
<1>4. \A sid \in Sids : (sid \in DOMAIN players \/ Fresh(sid))' =>
        Balanced(asked'[sid], answered'[sid], sid, Pipeline')
  BY <1>1, <1>3 DEF AnswerInv, OnlyFreshJoin
<1>5. \A sid \in Sids : Fresh(sid)' => asked'[sid] = answered'[sid]
  BY DEF AnswerInv, OnlyFreshJoin
<1> QED
  BY <1>4, <1>5 DEF AnswerInv

(* PushJob: one more asked, one more in the pipeline. *)
LEMMA AskAnswers ==
  ASSUME AnswerInv, OnlyFreshJoin, QueueInv, MapInv, NEW x \in Job, x.sid \in DOMAIN players,
         x.sid \in Sids,
         jobs' = Append(jobs, x), asked' = [asked EXCEPT ![x.sid] = Append(@, x.type)],
         UNCHANGED <<results, dbJob, answered>>
  PROVE  AnswerInv'
<1>1. PICK p, q : p = Pipeline /\ q = Pipeline'
  OBVIOUS
<1>2. p \in Seq(Entry) /\ x \in Entry /\ q = Append(p, x)
  BY <1>1, PipelineType, PipelinePush DEF Entry
<1>3. x.type \in JobTypes
  BY DEF Job
<1>4. asked \in [Sids -> Seq(JobTypes)] /\ answered \in [Sids -> Seq(JobTypes)]
  BY DEF QueueInv
<1>5. ~Fresh(x.sid)
  BY FreshNoPlayer
<1>6. ASSUME NEW sid \in Sids, (sid \in DOMAIN players \/ Fresh(sid))'
      PROVE  Balanced(asked'[sid], answered'[sid], sid, q)
  <2>1. PICK a, b : a = asked[sid] /\ b = answered[sid]
    OBVIOUS
  <2>2. Balanced(a, b, sid, p) /\ b \in Seq(JobTypes)
    BY <1>1, <1>4, <1>6, <2>1 DEF AnswerInv, OnlyFreshJoin
  <2>3. IF x.sid = sid THEN Balanced(Append(a, x.type), b, sid, q) ELSE Balanced(a, b, sid, q)
    BY <1>2, <1>3, <2>2, BalancedAppend
  <2>4. CASE x.sid = sid
    <3>1. asked'[sid] = Append(a, x.type) /\ answered'[sid] = b
      BY <1>4, <2>1, <2>4
    <3> QED
      BY <2>3, <2>4, <3>1
  <2>5. CASE x.sid # sid
    <3>1. asked'[sid] = a /\ answered'[sid] = b
      BY <1>4, <2>1, <2>5
    <3> QED
      BY <2>3, <2>5, <3>1
  <2> QED
    BY <2>4, <2>5
<1>7. \A sid \in Sids : Fresh(sid)' => asked'[sid] = answered'[sid]
  BY <1>4, <1>5 DEF AnswerInv, OnlyFreshJoin
<1> QED
  BY <1>1, <1>6, <1>7 DEF AnswerInv

(* UpdateResult: a result of a session that has left is not answered. *)
LEMMA ReplyAnswers ==
  ASSUME AnswerInv, OnlyFreshJoin, QueueInv, MapInv, NEW r \in Result, r = Head(results),
         r.sid \in Sids, DOMAIN players' = DOMAIN players,
         results # <<>>, results' = Tail(results), UNCHANGED <<jobs, dbJob, asked>>,
         answered' = IF r.sid \in DOMAIN players
                       THEN [answered EXCEPT ![r.sid] = Append(@, r.type)] ELSE answered
  PROVE  AnswerInv'
<1>1. PICK p, q : p = Pipeline /\ q = Pipeline'
  OBVIOUS
<1>2. p \in Seq(Entry) /\ p # <<>> /\ p[1] = r /\ q = Tail(p)
  BY <1>1, PipelineType, PipelinePop
<1>3. asked \in [Sids -> Seq(JobTypes)] /\ answered \in [Sids -> Seq(JobTypes)]
  BY DEF QueueInv
<1>4. ASSUME NEW sid \in Sids, sid \in DOMAIN players \/ Fresh(sid)
      PROVE  IF r.sid = sid THEN /\ asked[sid] # answered[sid]
                                 /\ Balanced(asked[sid], Append(answered[sid], r.type), sid, q)
                            ELSE Balanced(asked[sid], answered[sid], sid, q)
  <2>1. PICK a, b : a = asked[sid] /\ b = answered[sid]
    OBVIOUS
  <2>2. Balanced(a, b, sid, p) /\ b \in Seq(JobTypes)
    BY <1>1, <1>3, <1>4, <2>1 DEF AnswerInv
  <2>3. IF r.sid = sid THEN a # b /\ Balanced(a, Append(b, r.type), sid, q)
                       ELSE Balanced(a, b, sid, q)
    BY <1>2, <2>2, BalancedTail
  <2> QED
    BY <2>1, <2>3
<1>5. ~Fresh(r.sid)
  BY <1>4 DEF AnswerInv
<1>6. ASSUME NEW sid \in Sids, (sid \in DOMAIN players \/ Fresh(sid))'
      PROVE  Balanced(asked'[sid], answered'[sid], sid, q)
  <2>1. sid \in DOMAIN players \/ Fresh(sid)
    BY <1>6 DEF OnlyFreshJoin
  <2>2. CASE r.sid = sid
    <3>1. sid \in DOMAIN players
      BY <1>5, <2>1, <2>2
    <3>2. answered'[sid] = Append(answered[sid], r.type)
      BY <1>3, <2>2, <3>1
    <3> QED
      BY <1>4, <2>1, <2>2, <3>2
  <2>3. CASE r.sid # sid
    <3>1. answered'[sid] = answered[sid]
      BY <1>3, <2>3
    <3> QED
      BY <1>4, <2>1, <2>3, <3>1
  <2> QED
    BY <2>2, <2>3
<1>7. \A sid \in Sids : Fresh(sid)' => asked'[sid] = answered'[sid]
  BY <1>3, <1>5 DEF AnswerInv, OnlyFreshJoin
<1> QED
  BY <1>1, <1>6, <1>7 DEF AnswerInv

(* The handlers other than PushJob ask for nothing. *)
LEMMA RecvAsks ==
  ASSUME NEW sid, NEW pkt, Handle_Recv(sid, pkt)
  PROVE  \/ UNCHANGED <<jobs, asked>>
         \/ /\ sid \in DOMAIN players /\ pkt.type \in JobTypes
            /\ jobs' = Append(jobs, [type |-> pkt.type, sid |-> sid])
            /\ asked' = [asked EXCEPT ![sid] = Append(@, pkt.type)]
BY DEF Handle_Recv, PushJob, HandleRoomEnter, HandleRoomLeave, HandleChat, Return

(* UpdateMessage. *)
LEMMA MessageAnswers ==
  ASSUME IInv, AnswerInv, UpdateMessage, IInv'
  PROVE  AnswerInv'
<1>0. QueueInv /\ MapInv /\ ContentInv /\ MapInv'
  BY DEF IInv
<1>1. UNCHANGED <<net, dbJob, results, answered>>
  BY DEF UpdateMessage, netVars
<1>2. CASE contentQ = <<>> /\ Return /\ UNCHANGED contentQ
  <2>1. UNCHANGED <<players, jobs, asked>>
    BY <1>2 DEF Return
  <2>2. OnlyFreshJoin
    BY <1>1, <1>2, <2>1 DEF OnlyFreshJoin, Fresh, Waiting
  <2>3. Pipeline' = Pipeline
    BY <1>1, <2>1 DEF Pipeline
  <2> QED
    BY <1>1, <2>1, <2>2, <2>3, SameAnswers
<1>3. CASE contentQ # <<>>
  <2>1. PICK m : m = Head(contentQ)
    OBVIOUS
  <2>2. /\ contentQ' = Tail(contentQ)
        /\ \/ m.type = "join" /\ Handle_Join(m.sid)
           \/ m.type = "leave" /\ Handle_Leave(m.sid)
           \/ m.type = "recv" /\ Handle_Recv(m.sid, m.pkt)
    BY <1>3, <2>1 DEF UpdateMessage
  <2>3. /\ m \in Message /\ m.sid \in Sids /\ 1 \in 1 .. Len(contentQ) /\ m = contentQ[1]
        /\ \A i \in 1 .. Len(contentQ') :
             i + 1 \in 1 .. Len(contentQ) /\ contentQ'[i] = contentQ[i + 1]
    <3>1. m \in Message
      BY <1>0, <1>3, <2>1, TailEntries DEF QueueInv
    <3> QED
      BY <1>0, <1>3, <2>1, <2>2, <3>1, TailEntries DEF QueueInv, Message
  <2>4. \A sid \in Sids : Waiting("join", sid)' => Waiting("join", sid)
    BY <2>3 DEF Waiting
  <2>5. m.type = "join" => Waiting("join", m.sid)
    BY <2>3 DEF Waiting
  <2>6. \/ m.type = "join" /\ DOMAIN players' = DOMAIN players \cup {m.sid}
        \/ DOMAIN players' \subseteq DOMAIN players
    BY <1>0, <2>2, <2>3, JoinContent, LeaveContent, RecvContent
  <2>7. OnlyFreshJoin
    BY <1>1, <2>4, <2>5, <2>6 DEF OnlyFreshJoin, Fresh
  <2>8. CASE UNCHANGED <<jobs, asked>>
    <3>1. Pipeline' = Pipeline
      BY <1>1, <2>8 DEF Pipeline
    <3> QED
      BY <1>1, <2>7, <2>8, <3>1, SameAnswers
  <2>9. CASE /\ m.sid \in DOMAIN players /\ m.pkt.type \in JobTypes
             /\ jobs' = Append(jobs, [type |-> m.pkt.type, sid |-> m.sid])
             /\ asked' = [asked EXCEPT ![m.sid] = Append(@, m.pkt.type)]
    <3>1. PICK x : x = [type |-> m.pkt.type, sid |-> m.sid]
      OBVIOUS
    <3>2. x \in Job /\ x.sid = m.sid /\ x.type = m.pkt.type
      BY <2>3, <2>9, <3>1 DEF Job
    <3>3. jobs' = Append(jobs, x) /\ asked' = [asked EXCEPT ![x.sid] = Append(@, x.type)]
      BY <2>9, <3>1, <3>2
    <3> QED
      BY <1>0, <1>1, <2>3, <2>7, <2>9, <3>2, <3>3, AskAnswers
  <2>10. \/ UNCHANGED <<jobs, asked>>
         \/ /\ m.sid \in DOMAIN players /\ m.pkt.type \in JobTypes
            /\ jobs' = Append(jobs, [type |-> m.pkt.type, sid |-> m.sid])
            /\ asked' = [asked EXCEPT ![m.sid] = Append(@, m.pkt.type)]
    <3>1. CASE Handle_Join(m.sid)
      BY <3>1 DEF Handle_Join
    <3>2. CASE Handle_Leave(m.sid)
      BY <3>2 DEF Handle_Leave, Return
    <3>3. CASE Handle_Recv(m.sid, m.pkt)
      BY <3>3, RecvAsks
    <3> QED
      BY <2>2, <3>1, <3>2, <3>3
  <2> QED
    BY <2>8, <2>9, <2>10
<1> QED
  BY <1>2, <1>3 DEF UpdateMessage

(* Every step keeps AnswerInv. *)
LEMMA NextAnswers ==
  ASSUME IInv, AnswerInv, [Next]_vars
  PROVE  AnswerInv'
<1>0. QueueInv /\ MapInv /\ ContentInv /\ IInv'
  BY NextIInv DEF IInv
<1>1. CASE NetworkStep
  <2>1. UNCHANGED <<players, jobs, dbJob, results, asked, answered>>
    BY <1>1 DEF NetworkStep, OnClientJoin, OnClientLeave, OnRecv, Push, contentVars, dbVars,
                traceVars
  <2>2. OnlyFreshJoin
    <3>1. PICK s \in Sids, m \in Message :
            /\ contentQ' = Append(contentQ, m) /\ m.sid = s
            /\ m.type = "join" => net[s] = "new"
            /\ net' = net \/ (net' = [net EXCEPT ![s] = net'[s]] /\ net'[s] # "new")
      <4>1. NoPacket \in Packets
        BY RoomCountAssumption DEF NoPacket, Packets, PacketTypes, JobTypes, INVALID_ROOM_NO
      <4>2. PICK s \in Sids, pkt \in Packets, type \in {"join", "leave", "recv"} :
              /\ contentQ' = Append(contentQ, [type |-> type, sid |-> s, pkt |-> pkt])
              /\ type = "join" => net[s] = "new"
              /\ \/ net' = net
                 \/ \E k \in {"joined", "left", "refused"} : net' = [net EXCEPT ![s] = k]
        BY <1>1, <4>1 DEF NetworkStep, OnClientJoin, OnClientLeave, OnRecv, Push
      <4>3. PICK m : m = [type |-> type, sid |-> s, pkt |-> pkt]
        OBVIOUS
      <4>4. m \in Message /\ m.sid = s /\ m.type = type
        BY <4>3 DEF Message
      <4>5. net \in [Sids -> {"new", "joined", "left", "refused"}]
        BY DEF IInv, ThreadInv
      <4>6. net' = net \/ (net' = [net EXCEPT ![s] = net'[s]] /\ net'[s] # "new")
        BY <4>2, <4>5
      <4> QED
        BY <4>2, <4>3, <4>4, <4>6
    <3>2. \A sid \in Sids : net'[sid] = "new" => net[sid] = "new"
      BY <3>1 DEF IInv, ThreadInv
    <3>3. \A sid \in Sids : Waiting("join", sid)' => Waiting("join", sid) \/ net[sid] = "new"
      <4>1. /\ \A i \in 1 .. Len(contentQ) : contentQ'[i] = contentQ[i]
            /\ contentQ'[Len(contentQ) + 1] = m
            /\ \A i \in 1 .. Len(contentQ') : i \in 1 .. Len(contentQ) \/ i = Len(contentQ) + 1
        BY <1>0, <3>1, AppendEntries DEF QueueInv
      <4> QED
        BY <3>1, <4>1 DEF Waiting
    <3> QED
      BY <2>1, <3>2, <3>3 DEF OnlyFreshJoin, Fresh
  <2>3. Pipeline' = Pipeline
    BY <2>1 DEF Pipeline
  <2> QED
    BY <2>1, <2>2, <2>3, SameAnswers
<1>2. CASE UpdateMessage
  BY <1>0, <1>2, MessageAnswers
<1>3. CASE UpdateResult
  <2>1. /\ UNCHANGED <<net, contentQ, jobs, dbJob, asked>>
        /\ \/ results # <<>> /\ results' = Tail(results) /\ Handle_DbResult(Head(results))
           \/ UNCHANGED <<results, players, answered>>
    BY <1>3 DEF UpdateResult, netVars
  <2>2. CASE UNCHANGED <<results, players, answered>>
    <3>1. Pipeline' = Pipeline /\ OnlyFreshJoin
      BY <2>1, <2>2 DEF Pipeline, OnlyFreshJoin, Fresh, Waiting
    <3> QED
      BY <2>1, <2>2, <3>1, SameAnswers
  <2>3. CASE results # <<>> /\ results' = Tail(results) /\ Handle_DbResult(Head(results))
    <3>1. PICK r : r = Head(results)
      OBVIOUS
    <3>2. r \in Result /\ r.sid \in Sids
      <4>1. r \in Result
        BY <1>0, <2>3, <3>1, TailEntries DEF QueueInv
      <4> QED
        BY <4>1 DEF Result
    <3>3. DOMAIN players' = DOMAIN players
      BY <1>0, <1>3, <2>1, <2>3, <3>1, <3>2, ResultContent DEF UpdateResult
    <3>4. answered' = IF r.sid \in DOMAIN players
                        THEN [answered EXCEPT ![r.sid] = Append(@, r.type)] ELSE answered
      BY <2>3, <3>1 DEF Handle_DbResult
    <3>5. OnlyFreshJoin
      BY <2>1, <3>3 DEF OnlyFreshJoin, Fresh, Waiting
    <3> QED
      BY <1>0, <2>1, <2>3, <3>1, <3>2, <3>3, <3>4, <3>5, ReplyAnswers
  <2> QED
    BY <2>1, <2>2, <2>3
<1>4. CASE WorkerStep
  <2>1. UNCHANGED <<net, contentQ, players, asked, answered>>
    BY <1>4 DEF WorkerStep, PopJob, ProcessJob, DrainStart, DrainEnd, netVars, contentVars,
                traceVars
  <2>2. OnlyFreshJoin
    BY <2>1 DEF OnlyFreshJoin, Fresh, Waiting
  <2> QED
    BY <1>0, <1>4, <2>1, <2>2, PipelineWorker, SameAnswers
<1>5. CASE UpdateTest \/ MainStep \/ UNCHANGED vars
  <2>1. UNCHANGED <<net, contentQ, players, jobs, dbJob, results, asked, answered>>
    BY <1>5 DEF UpdateTest, MainStep, StopContent, StopDB, vars, netVars, dbVars, contentVars,
                traceVars
  <2>2. OnlyFreshJoin /\ Pipeline' = Pipeline
    BY <2>1 DEF OnlyFreshJoin, Fresh, Waiting, Pipeline
  <2> QED
    BY <2>1, <2>2, SameAnswers
<1> QED
  BY <1>1, <1>2, <1>3, <1>4, <1>5 DEF Next, UpdateStep

(* Nothing is asked at the start. *)
LEMMA InitAnswers == Init => AnswerInv
<1> SUFFICES ASSUME Init PROVE AnswerInv
  OBVIOUS
<1>1. Pipeline = <<>>
  <2>1. <<>> \in Seq(Entry) /\ <<>> \o <<>> = <<>>
    BY ConcatEmptySeq, EmptySeq
  <2> QED
    BY <2>1 DEF Init, Pipeline
<1>2. \A sid \in Sids : asked[sid] = <<>> /\ answered[sid] = <<>>
  BY DEF Init
<1>3. ASSUME NEW sid
      PROVE  Balanced(<<>>, <<>>, sid, <<>>)
  <2>1. <<>> \in Seq(JobTypes) /\ <<>> \o <<>> = <<>> /\ Len(<<>>) = 0
    BY ConcatEmptySeq, EmptySeq
  <2>2. Positions(sid, <<>>) = {}
    BY <2>1 DEF Positions
  <2>3. Enumerates([k \in 1 .. 0 |-> 0], <<>>, sid, <<>>)
    BY <2>1, <2>2 DEF Enumerates
  <2> QED
    BY <2>1, <2>3 DEF Balanced, IsOf
<1> QED
  BY <1>1, <1>2, <1>3 DEF AnswerInv

(* For a player still connected the answers sent and the requests under    *)
(* way are its requests in the order it made them.                         *)
THEOREM Answers == Spec => []AnswersMatchRequests
<1>1. IInv /\ AnswerInv => AnswersMatchRequests
  <2> SUFFICES ASSUME IInv, AnswerInv, NEW sid \in DOMAIN players
               PROVE  asked[sid] = answered[sid] \o Of(sid, Pipeline)
    BY DEF AnswersMatchRequests
  <2>1. PICK p : p = Pipeline
    OBVIOUS
  <2>2. Balanced(asked[sid], answered[sid], sid, p)
    BY <2>1 DEF IInv, ContentInv, AnswerInv
  <2>3. PICK s \in Seq(JobTypes) : IsOf(s, sid, p) /\ asked[sid] = answered[sid] \o s
    BY <2>2 DEF Balanced
  <2>4. Of(sid, p) = s
    BY <2>3, OfIs
  <2> QED
    BY <2>1, <2>3, <2>4
<1> QED
  BY <1>1, InitIInv, InitAnswers, NextIInv, NextAnswers, PTL DEF Spec
=============================================================================
