---------------------------- MODULE CChatServer ----------------------------
(***************************************************************************)
(* The chat content (myIOCP/CChatServer.cpp with CPlayer, CRoom,           *)
(* CRoomManager, CContentQueue) and the database worker (CDBWorker.cpp).   *)
(*                                                                         *)
(* The network threads push JOIN, RECV and LEAVE to contentQ.  The Update  *)
(* thread owns players and rooms: it pops one message and handles it, then *)
(* handles every database result there is, and starts again.  The database *)
(* worker takes one job at a time and pushes its result.                   *)
(*                                                                         *)
(* Abstractions.                                                           *)
(*  - A packet is what the handlers read from it, [type, no].  A packet    *)
(*    too short to hold a field leaves the handler's local variable        *)
(*    uninitialised, that is, any value: the packets of OnRecv cover it.   *)
(*  - A player is its state and room number; a room is the set of its      *)
(*    users' SessionIDs (CRoom never follows the CPlayer pointers).        *)
(*  - sent is the set of SessionIDs the last step called SendPacket for.   *)
(*  - asked and answered are the requests handed to the database for a     *)
(*    session and the results sent back to it, in order.                   *)
(*  - Statistics counters and nicknames are left out.                      *)
(***************************************************************************)
EXTENDS Integers, Sequences, FiniteSets

CONSTANTS
  Sids,              \* SessionIDs; one is never used for two sessions
  MAX_ROOM_COUNT,
  MAX_LIMIT_PERSON,
  MaxPackets,        \* bound: packets received in all
  MaxQueue           \* bound: messages waiting in contentQ

ASSUME RoomCountAssumption == MAX_ROOM_COUNT \in Nat
ASSUME LimitAssumption == MAX_LIMIT_PERSON \in Nat
ASSUME BoundsAssumption == MaxPackets \in Nat /\ MaxQueue \in Nat

VARIABLES
  net,       \* what the network layer announced of a session
  packets,   \* packets received so far
  contentQ,
  isRun,     \* CChatServer::isRun
  update,    \* where UpdateLoop is: "test", "message", "results", "exit"
  players,
  rooms,
  jobs,
  dbJob,     \* the job the database worker has popped: a sequence of 0 or 1
  results,
  dbIsRun,   \* CDBWorker::isRun
  dbThread,  \* "none" (not started), "loop", "drain" or, ended, "exit"
  heard,     \* sessions a packet of which was handled
  sent,
  asked,
  answered

netVars == <<net, packets>>
contentVars == <<isRun, update, players, rooms>>
dbVars == <<jobs, dbJob, results, dbIsRun, dbThread>>
traceVars == <<heard, asked, answered>>
vars == <<net, packets, contentQ, isRun, update, players, rooms, jobs, dbJob,
          results, dbIsRun, dbThread, heard, sent, asked, answered>>

RoomNos == 1 .. MAX_ROOM_COUNT
INVALID_ROOM_NO == MAX_ROOM_COUNT + 1     \* 0xffff: no room has this number
JobTypes == {"login", "signup"}
PacketTypes == JobTypes \cup {"enter", "leave", "chat", "unknown"}
Packets == {p \in [type : PacketTypes, no : 0 .. INVALID_ROOM_NO] :
              p.type # "enter" => p.no = 0}
Message == [type : {"join", "leave", "recv"}, sid : Sids, pkt : Packets]
Job == [type : JobTypes, sid : Sids]
Result == [type : JobTypes, sid : Sids, result : {0, 1, 2}]
Player == [state : {"NOT_LOGIN", "LOGGED_IN", "IN_ROOM"},
           roomNo : RoomNos \cup {INVALID_ROOM_NO}]

NoPacket == [type |-> "unknown", no |-> 0]
CPlayer == [state |-> "NOT_LOGIN", roomNo |-> INVALID_ROOM_NO]

(* StartContent has run: the Update thread whether or not the database     *)
(* worker could connect.                                                   *)
Init ==
  /\ net = [sid \in Sids |-> "new"]
  /\ packets = 0
  /\ contentQ = <<>>
  /\ isRun = TRUE
  /\ update = "test"
  /\ players = <<>>
  /\ rooms = [r \in RoomNos |-> {}]
  /\ jobs = <<>>
  /\ dbJob = <<>>
  /\ results = <<>>
  /\ dbIsRun \in BOOLEAN
  /\ dbThread = IF dbIsRun THEN "loop" ELSE "none"
  /\ heard = {}
  /\ sent = {}
  /\ asked = [sid \in Sids |-> <<>>]
  /\ answered = [sid \in Sids |-> <<>>]
-----------------------------------------------------------------------------
(* The network threads push messages. *)

Push(type, sid, pkt) ==
  /\ Len(contentQ) < MaxQueue
  /\ contentQ' = Append(contentQ, [type |-> type, sid |-> sid, pkt |-> pkt])
  /\ sent' = {}
  /\ UNCHANGED <<contentVars, dbVars, traceVars>>

OnClientJoin(sid) ==
  /\ net[sid] = "new"
  /\ net' = [net EXCEPT ![sid] = "joined"]
  /\ Push("join", sid, NoPacket)
  /\ UNCHANGED packets

(* Also for a session that was never announced, because its socket could   *)
(* not be associated with the completion port; none of its packets come.   *)
OnClientLeave(sid) ==
  /\ \/ net[sid] = "joined" /\ net' = [net EXCEPT ![sid] = "left"]
     \/ net[sid] = "new" /\ net' = [net EXCEPT ![sid] = "refused"]
  /\ Push("leave", sid, NoPacket)
  /\ UNCHANGED packets

(* Also after OnClientLeave: a worker in OnRecvComplete goes on pushing    *)
(* packets while another thread closes the session.                        *)
OnRecv(sid, pkt) ==
  /\ net[sid] \in {"joined", "left"}
  /\ packets < MaxPackets
  /\ packets' = packets + 1
  /\ Push("recv", sid, pkt)
  /\ UNCHANGED net
-----------------------------------------------------------------------------
(* The Update thread.  Each handler gives contentQ, players, rooms and the *)
(* variables above their next values; UpdateMessage pops the message.      *)

(* SendPacket is called for every session of this set; whether it reaches  *)
(* the session is CLanServer's matter.                                     *)
SendPacket(sids) == sent' = sids

Return == SendPacket({}) /\ UNCHANGED <<players, rooms, jobs, asked>>

Handle_Join_FaultyWelcome(sid) ==
  /\ players' = [s \in DOMAIN players \cup {sid} |->
                   IF s \in DOMAIN players THEN players[s] ELSE CPlayer]
  /\ SendPacket({sid})
  /\ UNCHANGED <<rooms, jobs, asked>>

Handle_Join(sid) ==
  /\ players' = [s \in DOMAIN players \cup {sid} |->
                   IF s \in DOMAIN players THEN players[s] ELSE CPlayer]
  /\ SendPacket({})
  /\ UNCHANGED <<rooms, jobs, asked>>

(* CRoom::LeaveRoom *)
RoomWithout(sid, r) == [rooms EXCEPT ![r] = @ \ {sid}]

Handle_Leave_FaultyKeepsPlayer(sid) ==
  \/ sid \notin DOMAIN players /\ Return
  \/ /\ sid \in DOMAIN players
     /\ IF players[sid].state = "IN_ROOM"
          THEN /\ rooms' = RoomWithout(sid, players[sid].roomNo)
               /\ players' = [s \in DOMAIN players \ {sid} |-> players[s]]
          ELSE UNCHANGED <<rooms, players>>
     /\ SendPacket({})
     /\ UNCHANGED <<jobs, asked>>

Handle_Leave_FaultyKeepsMember(sid) ==
  \/ sid \notin DOMAIN players /\ Return
  \/ /\ sid \in DOMAIN players
     /\ players' = [s \in DOMAIN players \ {sid} |-> players[s]]
     /\ SendPacket({})
     /\ UNCHANGED <<rooms, jobs, asked>>

Handle_Leave(sid) ==
  \/ sid \notin DOMAIN players /\ Return
  \/ /\ sid \in DOMAIN players
     /\ rooms' = IF players[sid].state = "IN_ROOM"
                   THEN RoomWithout(sid, players[sid].roomNo)
                   ELSE rooms
     /\ players' = [s \in DOMAIN players \ {sid} |-> players[s]]
     /\ SendPacket({})
     /\ UNCHANGED <<jobs, asked>>

(* Handle_Login and Handle_SignUp *)
PushJob_FaultyLifo(sid, type) ==
  \/ sid \notin DOMAIN players /\ Return
  \/ /\ sid \in DOMAIN players
     /\ jobs' = <<[type |-> type, sid |-> sid]>> \o jobs
     /\ asked' = [asked EXCEPT ![sid] = Append(@, type)]
     /\ SendPacket({})
     /\ UNCHANGED <<players, rooms>>

PushJob(sid, type) ==
  \/ sid \notin DOMAIN players /\ Return
  \/ /\ sid \in DOMAIN players
     /\ jobs' = Append(jobs, [type |-> type, sid |-> sid])
     /\ asked' = [asked EXCEPT ![sid] = Append(@, type)]
     /\ SendPacket({})
     /\ UNCHANGED <<players, rooms>>

(* GetRoom finds the room and CRoom::EnterRoom succeeds. *)
MayEnter(sid, r) ==
  /\ r \in RoomNos
  /\ Cardinality(rooms[r]) < MAX_LIMIT_PERSON
  /\ sid \notin rooms[r]

(* The room takes the session in before CPlayer::EnterRoom is asked.       *)
HandleRoomEnter(sid, r) ==
  \/ (sid \notin DOMAIN players \/ ~MayEnter(sid, r)) /\ Return
  \/ /\ sid \in DOMAIN players
     /\ MayEnter(sid, r)
     /\ rooms' = [rooms EXCEPT ![r] = @ \cup {sid}]
     /\ \/ /\ players[sid].state = "IN_ROOM"
           /\ SendPacket({})
           /\ UNCHANGED players
        \/ /\ players[sid].state # "IN_ROOM"
           /\ players' = [players EXCEPT
                            ![sid] = [state |-> "IN_ROOM", roomNo |-> r]]
           /\ SendPacket(rooms'[r])
     /\ UNCHANGED <<jobs, asked>>

IsInRoom(sid) == sid \in DOMAIN players /\ players[sid].state = "IN_ROOM"

HandleRoomLeave_FaultyKeepsState(sid) ==
  \/ ~IsInRoom(sid) /\ Return
  \/ /\ IsInRoom(sid)
     /\ rooms' = RoomWithout(sid, players[sid].roomNo)
     /\ SendPacket(rooms'[players[sid].roomNo])
     /\ UNCHANGED <<players, jobs, asked>>

HandleRoomLeave(sid) ==
  \/ ~IsInRoom(sid) /\ Return
  \/ /\ IsInRoom(sid)
     /\ rooms' = RoomWithout(sid, players[sid].roomNo)
     /\ players' = [players EXCEPT
                      ![sid] = [state |-> "LOGGED_IN",
                                roomNo |-> INVALID_ROOM_NO]]
     /\ SendPacket(rooms'[players[sid].roomNo])
     /\ UNCHANGED <<jobs, asked>>

(* A chat too long is dropped. *)
HandleChat(sid) ==
  \/ Return
  \/ /\ IsInRoom(sid)
     /\ SendPacket(rooms[players[sid].roomNo])
     /\ UNCHANGED <<players, rooms, jobs, asked>>

Handle_Recv(sid, pkt) ==
  \/ pkt.type \in JobTypes /\ PushJob(sid, pkt.type)
  \/ pkt.type = "enter" /\ HandleRoomEnter(sid, pkt.no)
  \/ pkt.type = "leave" /\ HandleRoomLeave(sid)
  \/ pkt.type = "chat" /\ HandleChat(sid)
  \/ pkt.type = "unknown" /\ Return

(* UpdateLoop tests isRun ... *)
UpdateTest ==
  /\ update = "test"
  /\ \/ isRun /\ update' = "message"
     \/ ~isRun /\ update' = "exit"
  /\ SendPacket({})
  /\ UNCHANGED <<netVars, contentQ, isRun, players, rooms, dbVars, traceVars>>

(* ... looks at contentQ once ... *)
UpdateMessage ==
  /\ update = "message"
  /\ update' = "results"
  /\ \/ /\ contentQ = <<>>
        /\ Return
        /\ UNCHANGED <<contentQ, heard>>
     \/ /\ contentQ # <<>>
        /\ contentQ' = Tail(contentQ)
        /\ LET msg == Head(contentQ)
           IN  \/ msg.type = "join" /\ Handle_Join(msg.sid) /\ UNCHANGED heard
               \/ msg.type = "leave" /\ Handle_Leave(msg.sid) /\ UNCHANGED heard
               \/ /\ msg.type = "recv"
                  /\ Handle_Recv(msg.sid, msg.pkt)
                  /\ heard' = heard \cup {msg.sid}
  /\ UNCHANGED <<netVars, isRun, dbJob, results, dbIsRun, dbThread, answered>>

(* CPlayer::SetNickname: whatever the state was, it is PS_LOGGED_IN now.   *)
SetNickname(sid) == [players EXCEPT ![sid].state = "LOGGED_IN"]

Handle_DbResult_FaultyOnlySuccess(r) ==
  \/ /\ r.sid \notin DOMAIN players \/ r.result # 0
     /\ SendPacket({})
     /\ UNCHANGED <<players, answered>>
  \/ /\ r.sid \in DOMAIN players /\ r.result = 0
     /\ players' = IF r.type = "login" THEN SetNickname(r.sid) ELSE players
     /\ answered' = [answered EXCEPT ![r.sid] = Append(@, r.type)]
     /\ SendPacket({r.sid})

Handle_DbResult(r) ==
  \/ /\ r.sid \notin DOMAIN players
     /\ SendPacket({})
     /\ UNCHANGED <<players, answered>>
  \/ /\ r.sid \in DOMAIN players
     /\ players' = IF r.type = "login" /\ r.result = 0
                     THEN SetNickname(r.sid)
                     ELSE players
     /\ answered' = [answered EXCEPT ![r.sid] = Append(@, r.type)]
     /\ SendPacket({r.sid})

(* ... and then handles results until there is none. *)
UpdateResult ==
  /\ update = "results"
  /\ \/ /\ results # <<>>
        /\ results' = Tail(results)
        /\ Handle_DbResult(Head(results))
        /\ UNCHANGED update
     \/ /\ results = <<>>
        /\ update' = "test"
        /\ SendPacket({})
        /\ UNCHANGED <<results, players, answered>>
  /\ UNCHANGED <<netVars, contentQ, isRun, rooms, jobs, dbJob, dbIsRun,
                 dbThread, heard, asked>>
-----------------------------------------------------------------------------
(* StopContent, called by main: it clears isRun, waits for the Update      *)
(* thread and only then stops the database worker.                         *)

StopContent ==
  /\ isRun
  /\ isRun' = FALSE
  /\ SendPacket({})
  /\ UNCHANGED <<netVars, contentQ, update, players, rooms, dbVars, traceVars>>

(* CDBWorker::Stop *)
StopDB_FaultyEarly ==
  /\ ~isRun
  /\ dbIsRun
  /\ dbIsRun' = FALSE
  /\ SendPacket({})
  /\ UNCHANGED <<netVars, contentQ, contentVars, jobs, dbJob, results, dbThread,
                 traceVars>>

StopDB ==
  /\ update = "exit"
  /\ dbIsRun
  /\ dbIsRun' = FALSE
  /\ SendPacket({})
  /\ UNCHANGED <<netVars, contentQ, contentVars, jobs, dbJob, results, dbThread,
                 traceVars>>
-----------------------------------------------------------------------------
(* The database worker. *)

(* In its loop the worker may have tested isRun before Stop cleared it.    *)
PopJob ==
  /\ dbThread \in {"loop", "drain"}
  /\ dbJob = <<>>
  /\ jobs # <<>>
  /\ dbJob' = <<Head(jobs)>>
  /\ jobs' = Tail(jobs)
  /\ SendPacket({})
  /\ UNCHANGED <<netVars, contentQ, contentVars, results, dbIsRun, dbThread,
                 traceVars>>

(* processLogin and processSignUp.  The stored procedure answers 0, 1 or   *)
(* 2; when the call itself fails the result stays 1.                       *)
ProcessJob ==
  /\ dbJob # <<>>
  /\ dbJob' = <<>>
  /\ \E code \in {0, 1, 2} :
       results' = Append(results, [type |-> dbJob[1].type, sid |-> dbJob[1].sid,
                                   result |-> code])
  /\ SendPacket({})
  /\ UNCHANGED <<netVars, contentQ, contentVars, jobs, dbIsRun, dbThread,
                 traceVars>>

(* WorkerLoop sees isRun cleared and empties the queue before it returns.  *)
DrainStart ==
  /\ dbThread = "loop"
  /\ ~dbIsRun
  /\ dbJob = <<>>
  /\ dbThread' = "drain"
  /\ SendPacket({})
  /\ UNCHANGED <<netVars, contentQ, contentVars, jobs, dbJob, results, dbIsRun,
                 traceVars>>

DrainEnd ==
  /\ dbThread = "drain"
  /\ dbJob = <<>>
  /\ jobs = <<>>
  /\ dbThread' = "exit"
  /\ SendPacket({})
  /\ UNCHANGED <<netVars, contentQ, contentVars, jobs, dbJob, results, dbIsRun,
                 traceVars>>
-----------------------------------------------------------------------------
NetworkStep ==
  \E sid \in Sids :
    \/ OnClientJoin(sid)
    \/ OnClientLeave(sid)
    \/ \E pkt \in Packets : OnRecv(sid, pkt)

UpdateStep == UpdateTest \/ UpdateMessage \/ UpdateResult

WorkerStep == PopJob \/ ProcessJob \/ DrainStart \/ DrainEnd

MainStep == StopContent \/ StopDB

Next == NetworkStep \/ UpdateStep \/ WorkerStep \/ MainStep

Spec == Init /\ [][Next]_vars

(* Each of the two threads runs, and main goes on once it called           *)
(* StopContent.  Nothing makes a client send or the operator stop.         *)
Fairness == WF_vars(UpdateStep) /\ WF_vars(WorkerStep) /\ WF_vars(StopDB)

LiveSpec == Spec /\ Fairness
-----------------------------------------------------------------------------
(* Properties. *)

(* Every variable holds a value of its kind; rooms never hold more than    *)
(* MAX_LIMIT_PERSON sessions (CRoom::EnterRoom).                           *)
TypeOK ==
  /\ net \in [Sids -> {"new", "joined", "left", "refused"}]
  /\ packets \in 0 .. MaxPackets
  /\ contentQ \in Seq(Message)
  /\ isRun \in BOOLEAN
  /\ update \in {"test", "message", "results", "exit"}
  /\ DOMAIN players \subseteq Sids
  /\ players \in [DOMAIN players -> Player]
  /\ rooms \in [RoomNos -> SUBSET Sids]
  /\ \A r \in RoomNos : Cardinality(rooms[r]) <= MAX_LIMIT_PERSON
  /\ jobs \in Seq(Job)
  /\ dbJob \in Seq(Job) /\ Len(dbJob) <= 1
  /\ results \in Seq(Result)
  /\ dbIsRun \in BOOLEAN
  /\ dbThread \in {"none", "loop", "drain", "exit"}
  /\ heard \in SUBSET Sids
  /\ sent \in SUBSET Sids
  /\ asked \in [Sids -> Seq(JobTypes)]
  /\ answered \in [Sids -> Seq(JobTypes)]

(* A player whose state is PS_IN_ROOM has the number of an existing room   *)
(* and is one of its users: Handle_Leave, HandleRoomLeave and HandleChat   *)
(* use the pointer GetRoom returns without testing it.  Logins, repeated   *)
(* ROOM_ENTERs and leaves may come in any order.                           *)
InRoomIsMember ==
  \A sid \in DOMAIN players :
    players[sid].state = "IN_ROOM" =>
      /\ players[sid].roomNo \in RoomNos
      /\ sid \in rooms[players[sid].roomNo]

Waiting(type, sid) ==
  \E i \in 1 .. Len(contentQ) :
    contentQ[i].type = type /\ contentQ[i].sid = sid

(* The player map is exact: a session has a player from the moment its     *)
(* JOIN is handled until its LEAVE is handled, whatever packets or         *)
(* database results come before, between and after.                        *)
PlayerMapExact ==
  \A sid \in Sids :
    sid \in DOMAIN players <=>
      /\ net[sid] \in {"joined", "left"}
      /\ ~Waiting("join", sid)
      /\ net[sid] = "left" => Waiting("leave", sid)

(* The requests accepted and not yet answered, the oldest first.           *)
Pipeline == results \o dbJob \o jobs

Positions(sid, q) == {i \in 1 .. Len(q) : q[i].sid = sid}

(* The types of a session's entries, in the order of the queue: the k-th   *)
(* is that of the position up to which the queue holds k of them.          *)
Of(sid, q) ==
  [k \in 1 .. Cardinality(Positions(sid, q)) |->
     q[CHOOSE i \in Positions(sid, q) :
         Cardinality({j \in Positions(sid, q) : j <= i}) = k].type]

(* For a player still connected, the answers sent and the requests still   *)
(* in the two queues or at the worker are together its requests, in the    *)
(* order it made them: none lost, none answered twice or out of order.     *)
AnswersMatchRequests ==
  \A sid \in DOMAIN players : asked[sid] = answered[sid] \o Of(sid, Pipeline)

(* The content sends only to sessions it has handled a packet of.  That is *)
(* what CLanServer assumes of it (HeardFrom): before a session's first     *)
(* receive completes, nothing holds a reference on the content's behalf.   *)
SendsOnlyToHeard == sent \subseteq heard

(* When the database thread has returned after StopContent, every request  *)
(* the Update thread accepted has been carried out.                        *)
StopLosesNoJob == dbThread = "exit" => jobs = <<>> /\ dbJob = <<>>

(* Every request is answered, unless its session leaves or the content is  *)
(* stopped, provided the database worker was started.                      *)
RequestsAnswered ==
  \A sid \in Sids :
    (dbThread = "loop" /\ asked[sid] # <<>>)
      ~> (asked[sid] = answered[sid] \/ sid \notin DOMAIN players \/ ~isRun)

(* StopContent ends: both threads return and every job accepted is done.   *)
StopCompletes ==
  ~isRun ~> (update = "exit" /\ dbThread \in {"none", "exit"})

(* A room holds connected players only: Handle_Leave removes the session   *)
(* from its room when it deletes the player.  The code breaks this: see    *)
(* the run chat_ghost_member.                                              *)
NoGhostMembers == \A r \in RoomNos : rooms[r] \subseteq DOMAIN players
=============================================================================
