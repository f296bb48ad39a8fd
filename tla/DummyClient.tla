---------------------------- MODULE DummyClient ----------------------------
(***************************************************************************)
(* The load generator (DummyClient.cpp) composed with the chat content     *)
(* (CChatServer): the bots of --auto, the client of --tamper, and between  *)
(* them and the server one TCP connection per session.  What the tests of  *)
(* this repository measure (evidence/LEAK_VERIFICATION.md) is the server   *)
(* under exactly these clients.                                            *)
(*                                                                         *)
(* A client waits for an answer in DrainRecv, which returns as soon as     *)
(* anything arrived, or at its timeout; the answer to a login takes as     *)
(* long as the database does, so a timeout may come before any answer.     *)
(* early is the history of that: the sessions whose ROOM_ENTER was sent    *)
(* before their login was answered.                                        *)
(*                                                                         *)
(* Here the server's accept thread and workers are the three actions       *)
(* ServerAccept, ServerRecv and ServerClose; CLanServer is their model.    *)
(***************************************************************************)
EXTENDS CChatServer

CONSTANTS
  NBots,         \* RunAuto: the bots 1 .. n
  TamperClients, \* processes that run RunTamper
  BatchSize,     \* RunAuto: 64
  Cycles,        \* bound: connections of one bot
  MaxEvents,     \* bound: connections, and timeouts that come too early,
                 \* in all
  Chats          \* bound: chats in one connection

ASSUME ClientAssumption ==
  NBots \in Nat /\ BatchSize \in Nat \ {0} /\ Cycles \in Nat
    /\ MaxEvents \in Nat /\ Chats \in Nat
    /\ TamperClients \cap (1 .. NBots) = {}

VARIABLES
  at,         \* where each client stands
  cycle,      \* its connection: the session is <<client, cycle>>
  needSignUp,
  chats,      \* chats sent in this connection
  link,       \* the client's end of a connection: "none", "open", "closed"
  toServer,   \* packets on their way
  fromServer, \* packets on their way back, in number
  botRunning, \* g_botRunning
  main,       \* RunAuto: "run", "wait", "final"
  off,        \* ... the first bot of the batch it waits for
  timedOut,   \* history: a wait for bots timed out
  conn, disc, \* g_connectTotal, g_disconnTotal
  tamperSent, \* g_tamperSent
  mismatched, \* sessions the server closed for a wrong MAC
               \* (checksumMismatchCount is their number)
  verdict,    \* what RunTamper printed: "", "OK", "FAIL", or, at the
               \* timeout, the other line that begins [FAIL]: "TIMEOUT"
  timeouts,   \* timeouts that came too early: of DrainRecv before the
               \* answer, of the wait before the bots had ended
  early       \* history, see above

clientVars == <<at, cycle, needSignUp, chats, conn, disc, tamperSent, verdict,
                timeouts, early>>
wireVars == <<link, toServer, fromServer, mismatched>>
autoVars == <<botRunning, main, off, timedOut>>
allVars == <<vars, clientVars, wireVars, autoVars>>

AutoBots == 1 .. NBots
Clients == AutoBots \cup TamperClients
Sessions == Clients \X (1 .. Cycles)
Sid(c) == <<c, cycle[c]>>

ASSUME SessionsAssumption == Sids = Sessions

\* Bot 0 of the code watches room 1 and sends no chat.
Observer(c) == c = 1

Tampered == [type |-> "tampered", no |-> 0]
Pkt(type) == [type |-> type, no |-> 0]
Enter(r) == [type |-> "enter", no |-> r]

(* What MaxEvents bounds. *)
Events == Cardinality({s \in Sessions : link[s] # "none"}) + timeouts

Left(sid) == net[sid] \in {"left", "refused"}

ClientInit ==
  /\ Init /\ dbIsRun
  /\ at = [c \in Clients |-> "connect"]
  /\ cycle = [c \in Clients |-> 0]
  /\ needSignUp = [c \in Clients |-> TRUE]
  /\ chats = [c \in Clients |-> 0]
  /\ link = [s \in Sessions |-> "none"]
  /\ toServer = [s \in Sessions |-> <<>>]
  /\ fromServer = [s \in Sessions |-> 0]
  /\ botRunning = TRUE
  /\ main = "run" /\ off = 0 /\ timedOut = FALSE
  /\ conn = 0 /\ disc = 0 /\ tamperSent = 0
  /\ mismatched = {}
  /\ verdict = [c \in Clients |-> ""]
  /\ timeouts = 0 /\ early = {}
-----------------------------------------------------------------------------
(* The calls a client makes.                                               *)

(* socket and connect.  When one fails the bot sleeps and tries again; the *)
(* counters of these errors are left out.                                  *)
Connect(c) ==
  /\ at[c] = "connect"
  /\ c \in AutoBots => botRunning
  /\ cycle[c] < Cycles /\ Events < MaxEvents
  /\ cycle' = [cycle EXCEPT ![c] = @ + 1]
  /\ link' = [link EXCEPT ![<<c, cycle[c] + 1>>] = "open"]
  /\ at' = [at EXCEPT ![c] = IF needSignUp[c] THEN "signup" ELSE "login"]
  /\ conn' = IF c \in AutoBots THEN conn + 1 ELSE conn
  /\ chats' = [chats EXCEPT ![c] = 0]
  /\ UNCHANGED <<vars, needSignUp, toServer, fromServer, mismatched, autoVars,
                 disc, tamperSent, verdict, timeouts, early>>

(* SendAll.  Once the server has closed the connection, send fails, or the *)
(* packet is lost without an error.                                        *)
Send(c, pkt, next, failed) ==
  \/ /\ ~Left(Sid(c))
     /\ toServer' = [toServer EXCEPT ![Sid(c)] = Append(@, pkt)]
     /\ at' = [at EXCEPT ![c] = next]
  \/ /\ Left(Sid(c))
     /\ \E n \in {next, failed} : at' = [at EXCEPT ![c] = n]
     /\ UNCHANGED toServer

(* A bot gives the connection up; RunTamper does not look at the result.   *)
Failed(c, next) == IF c \in AutoBots THEN "failed" ELSE next

(* No answer to the session can be on its way.                             *)
Answered(sid) ==
  /\ net[sid] = "joined" /\ toServer[sid] = <<>>
  /\ \A i \in DOMAIN contentQ : contentQ[i].sid # sid
  /\ Positions(sid, Pipeline) = {}

(* DrainRecv: select and one recv.  select times out whether nothing comes *)
(* any more or the answer takes longer.                                    *)
Drain(c, next, closed) ==
  LET sid == Sid(c)
  IN  \/ /\ fromServer[sid] > 0
         /\ fromServer' = [fromServer EXCEPT ![sid] = 0]
         /\ at' = [at EXCEPT ![c] = next]
         /\ UNCHANGED timeouts
      \/ /\ Left(sid)
         /\ at' = [at EXCEPT ![c] = closed]
         /\ UNCHANGED <<fromServer, timeouts>>
      \/ /\ fromServer[sid] = 0 /\ ~Left(sid)
         /\ \/ Answered(sid) /\ UNCHANGED timeouts
            \/ /\ ~Answered(sid) /\ Events < MaxEvents
               /\ timeouts' = timeouts + 1
         /\ at' = [at EXCEPT ![c] = next]
         /\ UNCHANGED fromServer

SendStep == UNCHANGED <<vars, cycle, needSignUp, link, fromServer, mismatched,
                        autoVars, conn, disc, verdict, timeouts>>
DrainStep == UNCHANGED <<vars, cycle, chats, link, toServer, mismatched, autoVars,
                         conn, disc, tamperSent, early>>
-----------------------------------------------------------------------------
(* BotThread, and the common part of RunTamper: the results of the first   *)
(* three DrainRecv are not looked at.                                      *)

SignUp(c) ==
  /\ at[c] = "signup"
  /\ Send(c, Pkt("signup"), "signupDrain", Failed(c, "signupDrain"))
  /\ SendStep /\ UNCHANGED <<chats, tamperSent, early>>

SignUpDrain(c) ==
  /\ at[c] = "signupDrain"
  /\ Drain(c, "login", "login")
  /\ needSignUp' = [needSignUp EXCEPT ![c] = FALSE]
  /\ DrainStep /\ UNCHANGED verdict

Login(c) ==
  /\ at[c] = "login"
  /\ Send(c, Pkt("login"), "loginDrain", Failed(c, "loginDrain"))
  /\ SendStep /\ UNCHANGED <<chats, tamperSent, early>>

LoginDrain(c) ==
  /\ at[c] = "loginDrain"
  /\ Drain(c, "enter", "enter")
  /\ DrainStep /\ UNCHANGED <<needSignUp, verdict>>

(* A login of the session is still to be answered.                         *)
LoginUnderWay(sid) ==
  \/ \E i \in 1 .. Len(toServer[sid]) : toServer[sid][i].type = "login"
  \/ \E i \in 1 .. Len(contentQ) :
       contentQ[i].sid = sid /\ contentQ[i].pkt.type = "login"
  \/ \E i \in Positions(sid, Pipeline) : Pipeline[i].type = "login"

RoomEnter(c) ==
  /\ at[c] = "enter"
  /\ \E r \in IF c \in TamperClients \/ Observer(c) THEN {1} ELSE RoomNos :
       Send(c, Enter(r), "enterDrain", Failed(c, "enterDrain"))
  /\ early' = IF LoginUnderWay(Sid(c)) THEN early \cup {Sid(c)} ELSE early
  /\ SendStep /\ UNCHANGED <<chats, tamperSent>>

RoomEnterDrain(c) ==
  /\ at[c] = "enterDrain"
  /\ Drain(c, "chat", "chat")
  /\ DrainStep /\ UNCHANGED <<needSignUp, verdict>>

(* The chat loop ends by its count, by g_botRunning or by an error.  A     *)
(* tampered packet is counted whether or not it could be sent.             *)
Chat(c) ==
  /\ at[c] = "chat" /\ c \in AutoBots /\ ~Observer(c)
  /\ botRunning /\ chats[c] < Chats
  /\ chats' = [chats EXCEPT ![c] = @ + 1]
  /\ \/ Send(c, Pkt("chat"), "chatDrain", "failed") /\ UNCHANGED tamperSent
     \/ Send(c, Tampered, "chatDrain", "chatDrain") /\ tamperSent' = tamperSent + 1
  /\ SendStep /\ UNCHANGED early

ChatDrain(c) ==
  /\ at[c] = "chatDrain"
  /\ Drain(c, "chat", "failed")
  /\ DrainStep /\ UNCHANGED <<needSignUp, verdict>>

ObserverDrain(c) ==
  /\ at[c] = "chat" /\ c \in AutoBots /\ Observer(c)
  /\ botRunning
  /\ Drain(c, "chat", "failed")
  /\ DrainStep /\ UNCHANGED <<needSignUp, verdict>>

RoomLeave(c) ==
  /\ at[c] = "chat" /\ c \in AutoBots
  /\ Send(c, Pkt("leave"), "close", "close")
  /\ SendStep /\ UNCHANGED <<chats, tamperSent, early>>

(* endSession.  Closing a socket with unread data resets the connection,   *)
(* and the server may lose what it has not read yet.                       *)
EndSession(c) ==
  /\ at[c] \in {"close", "failed"} /\ c \in AutoBots
  /\ link' = [link EXCEPT ![Sid(c)] = "closed"]
  /\ disc' = disc + 1
  /\ at' = [at EXCEPT ![c] = "connect"]
  /\ fromServer' = [fromServer EXCEPT ![Sid(c)] = 0]
  /\ \/ UNCHANGED toServer
     \/ /\ fromServer[Sid(c)] > 0
        /\ toServer' = [toServer EXCEPT ![Sid(c)] = <<>>]
  /\ UNCHANGED <<vars, cycle, needSignUp, chats, mismatched, autoVars, conn,
                 tamperSent, verdict, timeouts, early>>

BotExits(c) ==
  /\ at[c] = "connect" /\ c \in AutoBots
  /\ ~botRunning
  /\ at' = [at EXCEPT ![c] = "exit"]
  /\ UNCHANGED <<vars, wireVars, autoVars, cycle, needSignUp, chats, conn, disc,
                 tamperSent, verdict, timeouts, early>>
-----------------------------------------------------------------------------
(* RunTamper after ROOM_ENTER: a normal chat, a tampered one, and one recv *)
(* that decides.                                                           *)

TamperNormal(c) ==
  /\ at[c] = "chat" /\ c \in TamperClients /\ chats[c] = 0
  /\ chats' = [chats EXCEPT ![c] = 1]
  /\ Send(c, Pkt("chat"), "normalDrain", "normalDrain")
  /\ SendStep /\ UNCHANGED <<tamperSent, early>>

TamperNormalDrain(c) ==
  /\ at[c] = "normalDrain"
  /\ Drain(c, "tamper", "tamper")
  /\ DrainStep /\ UNCHANGED <<needSignUp, verdict>>

TamperSend(c) ==
  /\ at[c] = "tamper"
  /\ Send(c, Tampered, "select", "select")
  /\ SendStep /\ UNCHANGED <<chats, tamperSent, early>>

(* select, for three seconds, and recv.                                    *)
TamperVerdict(c) ==
  /\ at[c] = "select"
  /\ \/ /\ Left(Sid(c)) \/ fromServer[Sid(c)] > 0
        /\ verdict' = [verdict EXCEPT
                         ![c] = IF fromServer[Sid(c)] > 0 THEN "FAIL" ELSE "OK"]
     \/ /\ ~Left(Sid(c)) /\ fromServer[Sid(c)] = 0
        /\ verdict' = [verdict EXCEPT ![c] = "TIMEOUT"]
  /\ at' = [at EXCEPT ![c] = "exit"]
  /\ link' = [link EXCEPT ![Sid(c)] = "closed"]
  /\ UNCHANGED <<vars, cycle, needSignUp, chats, toServer, fromServer, mismatched,
                 autoVars, conn, disc, tamperSent, timeouts, early>>
-----------------------------------------------------------------------------
(* RunAuto: 'q', and the wait for the bots, batch by batch, five seconds   *)
(* for each.                                                               *)

PressQ ==
  /\ main = "run"
  /\ botRunning' = FALSE
  /\ main' = "wait"
  /\ UNCHANGED <<vars, clientVars, wireVars, off, timedOut>>

Batch == { c \in AutoBots : off < c /\ c <= off + BatchSize }

WaitBots_FaultyFirstBatch ==
  /\ main = "wait"
  /\ \A c \in Batch : at[c] = "exit"
  /\ main' = "final"
  /\ UNCHANGED <<vars, clientVars, wireVars, botRunning, off, timedOut>>

WaitBots ==
  /\ main = "wait" /\ off < NBots
  /\ \/ (\A c \in Batch : at[c] = "exit") /\ UNCHANGED <<timedOut, timeouts>>
     \/ /\ \E c \in Batch : at[c] # "exit"
        /\ Events < MaxEvents
        /\ timedOut' = TRUE /\ timeouts' = timeouts + 1
  /\ off' = off + BatchSize
  /\ main' = IF off + BatchSize >= NBots THEN "final" ELSE "wait"
  /\ UNCHANGED <<vars, at, cycle, needSignUp, chats, conn, disc, tamperSent, verdict,
                 early, wireVars, botRunning>>
-----------------------------------------------------------------------------
(* The server's end of a connection, and the packets it sends.             *)

ServerAccept(sid) ==
  /\ link[sid] # "none"
  /\ OnClientJoin(sid)
  /\ UNCHANGED <<clientVars, wireVars, autoVars>>

(* OnRecvComplete: a packet with a wrong MAC closes the session; what      *)
(* comes after it is not read.                                             *)
ServerRecv(sid) ==
  /\ net[sid] = "joined" /\ toServer[sid] # <<>>
  /\ IF Head(toServer[sid]) = Tampered
       THEN /\ OnClientLeave(sid)
            /\ mismatched' = mismatched \cup {sid}
            /\ toServer' = [toServer EXCEPT ![sid] = <<>>]
       ELSE /\ OnRecv(sid, Head(toServer[sid]))
            /\ toServer' = [toServer EXCEPT ![sid] = Tail(@)]
            /\ UNCHANGED mismatched
  /\ UNCHANGED <<clientVars, autoVars, link, fromServer>>

ServerClose_FaultyForgets(sid) ==
  /\ net[sid] = "joined" /\ link[sid] = "closed" /\ toServer[sid] = <<>>
  /\ net' = [net EXCEPT ![sid] = "left"]
  /\ UNCHANGED <<packets, contentQ, contentVars, dbVars, traceVars, sent,
                 clientVars, wireVars, autoVars>>

ServerClose(sid) ==
  /\ net[sid] = "joined" /\ link[sid] = "closed" /\ toServer[sid] = <<>>
  /\ OnClientLeave(sid)
  /\ UNCHANGED <<clientVars, wireVars, autoVars>>

(* The Update thread's SendPacket reaches the sessions still open.         *)
ServerUpdate ==
  /\ UpdateStep
  /\ fromServer' = [s \in Sessions |->
                      IF s \in sent' /\ ~Left(s) /\ link[s] = "open"
                        THEN 1 ELSE fromServer[s]]
  /\ UNCHANGED <<clientVars, autoVars, link, toServer, mismatched>>

ServerDb == WorkerStep /\ UNCHANGED <<clientVars, wireVars, autoVars>>
-----------------------------------------------------------------------------
BotThread(c) ==
  \/ Connect(c) \/ SignUp(c) \/ SignUpDrain(c) \/ Login(c) \/ LoginDrain(c)
  \/ RoomEnter(c) \/ RoomEnterDrain(c) \/ Chat(c) \/ ChatDrain(c)
  \/ ObserverDrain(c) \/ RoomLeave(c) \/ EndSession(c) \/ BotExits(c)

RunTamper(c) ==
  TamperNormal(c) \/ TamperNormalDrain(c) \/ TamperSend(c) \/ TamperVerdict(c)

ServerNet == \E sid \in Sessions :
               ServerAccept(sid) \/ ServerRecv(sid) \/ ServerClose(sid)

ClientNext ==
  \/ \E c \in Clients : BotThread(c) \/ RunTamper(c)
  \/ PressQ \/ WaitBots
  \/ ServerNet \/ ServerUpdate \/ ServerDb

ClientSpec == ClientInit /\ [][ClientNext]_allVars

(* The threads of both processes run, packets arrive, and RunAuto goes on  *)
(* once 'q' was pressed; nothing makes the operator press it.  A bot's     *)
(* calls return: every one has a timeout, or ends with the connection.     *)
ClientFairness ==
  /\ \A c \in AutoBots : WF_allVars(BotThread(c))
  /\ WF_allVars(WaitBots)
  /\ \A sid \in Sessions :
       WF_allVars(ServerAccept(sid) \/ ServerRecv(sid) \/ ServerClose(sid))
  /\ WF_allVars(ServerUpdate) /\ WF_allVars(ServerDb)

ClientLiveSpec == ClientSpec /\ ClientFairness
-----------------------------------------------------------------------------
(* Properties. *)

(* Type invariant of the clients and the connections.                      *)
ClientTypeOK ==
  /\ at \in [Clients -> {"connect", "signup", "signupDrain", "login", "loginDrain",
                         "enter", "enterDrain", "chat", "chatDrain", "close",
                         "failed", "exit", "normalDrain", "tamper", "select"}]
  /\ cycle \in [Clients -> 0 .. Cycles]
  /\ needSignUp \in [Clients -> BOOLEAN]
  /\ chats \in [Clients -> 0 .. Chats \cup {1}]
  /\ link \in [Sessions -> {"none", "open", "closed"}]
  /\ toServer \in [Sessions -> Seq(Packets \cup {Tampered})]
  /\ fromServer \in [Sessions -> {0, 1}]
  /\ main \in {"run", "wait", "final"} /\ botRunning = (main = "run")
  /\ {conn, disc} \subseteq 0 .. NBots * Cycles
  /\ mismatched \subseteq Sessions
  /\ verdict \in [Clients -> {"", "OK", "FAIL", "TIMEOUT"}]
  /\ timeouts \in 0 .. MaxEvents /\ early \subseteq Sessions

(* The final line of RunAuto accounts for every connection: when no wait   *)
(* for the bots timed out, each one that was made was closed, however it   *)
(* ended.                                                                  *)
FinalBalanced == (main = "final" /\ ~timedOut) => conn = disc

AllOver ==
  /\ \A c \in AutoBots : at[c] = "exit"
  /\ \A sid \in Sessions : link[sid] # "none" => Left(sid)

(* The comments of g_tamperSent and of the chat loop: the tampered packets *)
(* sent are the ones the server counts as mismatches, because each ends    *)
(* its connection and DrainRecv notices that before the next is sent.      *)
TamperMatchesMismatch ==
  AllOver => tamperSent = Cardinality({s \in mismatched : s[1] \in AutoBots})

(* RunTamper prints that the server answered a tampered packet only if the *)
(* server did not detect it.                                               *)
VerdictRight == \A c \in TamperClients : verdict[c] = "FAIL" => Sid(c) \notin mismatched

(* A bot of the load test chats in its room: an answer to its login that   *)
(* comes after it entered takes it out of PS_IN_ROOM again, and its chats  *)
(* and its leave are ignored.  The code breaks this, because DrainRecv     *)
(* waits 50 ms for an answer that has no bound: BotSlowLogin.cfg.          *)
BotsStayInRoom ==
  \A c \in AutoBots : \A r \in RoomNos :
    (cycle[c] > 0 /\ Sid(c) \in rooms[r] /\ ~Left(Sid(c)))
      => Sid(c) \in DOMAIN players /\ players[Sid(c)].state = "IN_ROOM"

(* The late login is all that can part a room from its players in the load *)
(* test: whoever a room holds and did not send its ROOM_ENTER before its   *)
(* login was answered is a player, in PS_IN_ROOM, of this room and no      *)
(* other, whatever timeouts, lost packets, tampered packets and closed     *)
(* connections there were, its own and those of the others.                *)
OnlyEarlyStray ==
  \A r \in RoomNos : \A s \in rooms[r] \ early :
    /\ s \in DOMAIN players
    /\ players[s].state = "IN_ROOM" /\ players[s].roomNo = r

(* After 'q' the server has none of the bots as players in the end,        *)
(* whatever their connections were doing and whether or not the waits for  *)
(* them timed out: BUGFIX_LOG 19 took "Alive=0 after the bots" for the     *)
(* test of its fix.                                                        *)
ServerEmpties == ~botRunning ~> \A sid \in DOMAIN players : sid[1] \notin AutoBots
=============================================================================
