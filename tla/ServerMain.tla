----------------------------- MODULE ServerMain -----------------------------
(***************************************************************************)
(* The life of the server process: main.cpp with CLanServer::Start and     *)
(* Stop, composed with the network engine of CLanServer and the Update     *)
(* thread.                                                                 *)
(*                                                                         *)
(* The main thread starts the content and the engine, waits for 'q', stops *)
(* the engine (the accept thread, all sessions, the workers, then the      *)
(* memory) and after that the content.  It runs CloseSession, without a    *)
(* completion, so without a reference of its own to the session.           *)
(*                                                                         *)
(* The database worker, which StopContent stops last, is in CChatServer.   *)
(***************************************************************************)
EXTENDS CLanServer

CONSTANTS
  Stat,                  \* the StatThread
  MAXIMUM_WAIT_OBJECTS,  \* WaitForMultipleObjects refuses more handles (64)
  StartMayFail           \* may WSAStartup, bind or listen fail?

ASSUME MainAssumption ==
  /\ Stat \notin Threads
  /\ MAXIMUM_WAIT_OBJECTS \in Nat
  /\ StartMayFail \in BOOLEAN

workerCount == Cardinality(Workers)

VARIABLES
  stage,       \* where main is
  slot,        \* next slot to close in Stop's loop
  isrun,       \* CLanServer::isrun; false once listenSock is closed
  isRun,       \* CChatServer::isRun
  alive,       \* the threads that run
  client,      \* accept() returned a client, AllocSession comes next
  nulls,       \* completions without OVERLAPPED, posted and not dequeued
  freed,       \* sessions were deleted, the port closed
  destroyed,   \* ~CChatServer ran
  crashed      \* a thread used a deleted session

procVars == <<isrun, isRun, alive, client, nulls, freed, destroyed, crashed>>
mainVars == <<stage, slot, procVars>>
allVars == <<vars, mainVars>>

Stages == {"startContent", "start", "run", "waitAccept", "closeAll", "postNulls",
           "waitWorkers", "stopContent", "waitUpdate", "return", "done"}

MainInit ==
  /\ Init
  /\ stage = "startContent"
  /\ slot = 0
  /\ isrun = FALSE
  /\ isRun = FALSE
  /\ alive = {}
  /\ client = FALSE
  /\ nulls = 0
  /\ freed = FALSE
  /\ destroyed = FALSE
  /\ crashed = FALSE

(* A step of main: the stage changes, and of the rest what is named. *)
Advance(from, to) == stage = from /\ stage' = to
-----------------------------------------------------------------------------
(* main, Start, Stop, StopContent, in the order of the code *)

StartContent ==
  /\ Advance("startContent", "start")
  /\ isRun' = TRUE
  /\ alive' = alive \cup {Updater}
  /\ UNCHANGED <<vars, slot, isrun, client, nulls, freed, destroyed, crashed>>

Start ==
  /\ Advance("start", "run")
  /\ isrun' = TRUE
  /\ alive' = alive \cup Workers \cup {Acceptor, Stat}
  /\ UNCHANGED <<vars, slot, isRun, client, nulls, freed, destroyed, crashed>>

(* Start set isrun and returned false: main returns 1 at once. *)
StartFails ==
  /\ StartMayFail
  /\ Advance("start", "return")
  /\ isrun' = TRUE
  /\ UNCHANGED <<vars, slot, isRun, alive, client, nulls, freed, destroyed, crashed>>

(* The operator pressed 'q': isrun = false and listenSock closed. *)
StopListening ==
  /\ Advance("run", "waitAccept")
  /\ isrun' = FALSE
  /\ UNCHANGED <<vars, slot, isRun, alive, client, nulls, freed, destroyed, crashed>>

WaitAccept_FaultyNoWait ==
  /\ Advance("waitAccept", "closeAll")
  /\ UNCHANGED <<vars, slot, procVars>>

WaitAccept ==
  /\ Advance("waitAccept", "closeAll")
  /\ alive \cap {Acceptor, Stat} = {}
  /\ UNCHANGED <<vars, slot, procVars>>

(* CloseSession(i) for every slot, in use or not.  One that never had a    *)
(* session is closed too: its LEAVE has no JOIN, its count goes to -1.     *)
CallClose ==
  /\ stage = "closeAll"
  /\ pc[Main] = "idle"
  /\ slot < MaxSession
  /\ cur' = [cur EXCEPT ![Main] = slot]
  /\ pc' = [pc EXCEPT ![Main] = "close"]
  /\ slot' = slot + 1
  /\ UNCHANGED <<lifeVars, ioRefCount, queueVars, sendLock, ioVars, contentVars,
                 ret, sidGen, stage, procVars>>

CloseAllDone ==
  /\ Advance("closeAll", "postNulls")
  /\ pc[Main] = "idle"
  /\ slot = MaxSession
  /\ UNCHANGED <<vars, slot, procVars>>

PostNulls_FaultyOneShort ==
  /\ Advance("postNulls", "waitWorkers")
  /\ nulls' = nulls + workerCount - 1
  /\ UNCHANGED <<vars, slot, isrun, isRun, alive, client, freed, destroyed, crashed>>

PostNulls ==
  /\ Advance("postNulls", "waitWorkers")
  /\ nulls' = nulls + workerCount
  /\ UNCHANGED <<vars, slot, isrun, isRun, alive, client, freed, destroyed, crashed>>

(* WaitForMultipleObjects(..., TRUE, INFINITE) returns: all workers ended, *)
(* or there are more handles than it takes and it fails at once.           *)
WaitWorkers ==
  \/ alive \cap Workers = {}
  \/ workerCount > MAXIMUM_WAIT_OBJECTS

(* The rest of Stop: the port is closed, the sessions are deleted. *)
FreeSessions ==
  /\ Advance("waitWorkers", "stopContent")
  /\ WaitWorkers
  /\ freed' = TRUE
  /\ UNCHANGED <<vars, slot, isrun, isRun, alive, client, nulls, destroyed, crashed>>

StopContent ==
  /\ Advance("stopContent", "waitUpdate")
  /\ isRun' = FALSE
  /\ UNCHANGED <<vars, slot, isrun, alive, client, nulls, freed, destroyed, crashed>>

WaitUpdate ==
  /\ Advance("waitUpdate", "return")
  /\ Updater \notin alive
  /\ UNCHANGED <<vars, slot, procVars>>

(* main returns: ~CChatServer deletes the rooms and the content queue. *)
Destroy ==
  /\ Advance("return", "done")
  /\ destroyed' = TRUE
  /\ UNCHANGED <<vars, slot, isrun, isRun, alive, client, nulls, freed, crashed>>
-----------------------------------------------------------------------------
(* The threads, as they start and end *)

(* accept() returns a client.  Bound: every slot can be allocated again. *)
AcceptReturns ==
  /\ \A s \in Slots : generation[s] < MaxGeneration
  /\ Acceptor \in alive
  /\ isrun
  /\ pc[Acceptor] = "idle"
  /\ ~client
  /\ client' = TRUE
  /\ UNCHANGED <<vars, stage, slot, isrun, isRun, alive, nulls, freed, destroyed,
                 crashed>>

(* The client gets a slot (CLanServer), or is closed for want of one. *)
AcceptClient ==
  /\ client
  /\ client' = FALSE
  /\ \/ AllocSession
     \/ indexPool = <<>> /\ UNCHANGED vars
  /\ UNCHANGED <<stage, slot, isrun, isRun, alive, nulls, freed, destroyed, crashed>>

(* The loop ends when isrun is false, and for good when accept() fails     *)
(* once, whatever the reason.                                              *)
AcceptEnds ==
  /\ Acceptor \in alive
  /\ pc[Acceptor] = "idle"
  /\ ~client
  /\ alive' = alive \ {Acceptor}
  /\ UNCHANGED <<vars, stage, slot, isrun, isRun, client, nulls, freed, destroyed,
                 crashed>>

StatEnds ==
  /\ Stat \in alive
  /\ ~isrun
  /\ alive' = alive \ {Stat}
  /\ UNCHANGED <<vars, stage, slot, isrun, isRun, client, nulls, freed, destroyed,
                 crashed>>

(* A worker ends when GetQueuedCompletionStatus returns no OVERLAPPED: a   *)
(* null completion, or the port was closed.                                *)
WorkerEnds(w) ==
  /\ w \in alive
  /\ pc[w] = "idle"
  /\ \/ nulls > 0 /\ nulls' = nulls - 1
     \/ freed /\ UNCHANGED nulls
  /\ alive' = alive \ {w}
  /\ UNCHANGED <<vars, stage, slot, isrun, isRun, client, freed, destroyed, crashed>>

UpdateEnds ==
  /\ Updater \in alive
  /\ pc[Updater] = "idle"
  /\ ~isRun
  /\ alive' = alive \ {Updater}
  /\ UNCHANGED <<vars, stage, slot, isrun, isRun, client, nulls, freed, destroyed,
                 crashed>>

(* A thread that is inside an engine function, or an Update thread that    *)
(* calls SendPacket, when the sessions are gone.                           *)
UseAfterFree(t) ==
  /\ freed
  /\ t \in alive
  /\ \/ pc[t] # "idle"
     \/ t = Updater /\ \E s \in Slots : HeardFrom(s)
  /\ crashed' = TRUE
  /\ UNCHANGED <<vars, stage, slot, isrun, isRun, alive, client, nulls, freed,
                 destroyed>>
-----------------------------------------------------------------------------
MainStep ==
  \/ StartContent \/ Start \/ StartFails
  \/ WaitAccept \/ CallClose \/ CloseAllDone \/ PostNulls
  \/ FreeSessions \/ StopContent \/ WaitUpdate \/ Destroy
  \/ CloseSession(Main) /\ UNCHANGED mainVars

(* What the engine's threads do among themselves while the sessions exist. *)
Engine(A) == ~freed /\ A /\ UNCHANGED mainVars

Dequeue(w) == w \in alive /\ Engine(DequeueRecv(w) \/ DequeueSend(w))

MainNext ==
  /\ ~crashed
  /\ \/ MainStep
     \/ StopListening
     \/ AcceptReturns \/ AcceptClient \/ AcceptEnds \/ StatEnds \/ UpdateEnds
     \/ Engine(AcceptStep)
     \/ \E w \in Workers : Dequeue(w) \/ Engine(WorkerStep(w)) \/ WorkerEnds(w)
     \/ Updater \in alive /\ Engine(SendPacketCheckGeneration \/ Disconnect)
     \/ Engine(UpdateStep)
     \/ \E t \in Threads : UseAfterFree(t)
  /\ Timely

MainSpec == MainInit /\ [][MainNext]_allVars

(* Threads are scheduled; the operator and the clients need not do         *)
(* anything, and accept() need not fail.                                   *)
MainFairness ==
  /\ WF_allVars(MainStep /\ Timely)
  /\ WF_allVars(AcceptClient)
  /\ WF_allVars(~isrun /\ AcceptEnds)
  /\ WF_allVars(StatEnds)
  /\ WF_allVars(Engine(AcceptStep) /\ Timely)
  /\ WF_allVars(Engine(UpdateStep) /\ Timely)
  /\ WF_allVars(UpdateEnds)
  /\ WF_allVars(\E t \in Threads : UseAfterFree(t) /\ pc[t] # "idle")
  /\ \A w \in Workers :
       WF_allVars(Engine(WorkerStep(w)) /\ Timely) /\ SF_allVars(WorkerEnds(w))
  /\ \A s \in Slots :
       SF_allVars(/\ \E w \in Workers : Dequeue(w)
                  /\ sock[s] = "invalid" /\ recvIO'[s] + sendIO'[s] < recvIO[s] + sendIO[s]
                  /\ Timely)

MainLiveSpec == MainSpec /\ MainFairness
-----------------------------------------------------------------------------
(* The state of the process is well formed, and Stop's loop stays inside   *)
(* the array of sessions.                                                  *)
MainTypeOK ==
  /\ TypeOK
  /\ stage \in Stages
  /\ slot \in 0 .. MaxSession
  /\ alive \subseteq (Threads \ {Main}) \cup {Stat}
  /\ nulls \in 0 .. workerCount
  /\ {isrun, isRun, client, freed, destroyed, crashed} \subseteq BOOLEAN

(* When Stop deletes the sessions every one that OnClientJoin announced    *)
(* was ended by OnClientLeave, whatever the accept thread and the workers  *)
(* were doing when 'q' was pressed; one may still be in the Update         *)
(* thread's own CloseSession.                                              *)
EverySessionLeft ==
  freed => \A s \in Slots :
    left[s] >= joined[s] \/ (cur[Updater] = s /\ pc[Updater] \in CloseLabels)

(* Stop's CloseSession meets the closers, posters and completions of the   *)
(* running engine: the references to every session there was are still     *)
(* counted exactly, and its slot is in the pool when and only when nobody  *)
(* refers to it.                                                           *)
StopKeepsCount ==
  \A s \in Slots : generation[s] # 0 =>
    /\ ioRefCount[s] = BaseRef(s) + recvIO[s] + sendIO[s]
                       + Cardinality(Completers(s)) + Cardinality(Posters(s))
    /\ InPool(s) <=> ioRefCount[s] = 0

(* Stop deletes the sessions and closes the port only when no worker and   *)
(* no accept thread is left that could use them (BUGFIX_LOG #13).          *)
WorkersEndedFirst == freed => alive \cap (Workers \cup {Acceptor, Stat}) = {}

(* The rooms and the content queue outlive the Update thread, their owner. *)
ContentOutlivesUpdate == destroyed => Updater \notin alive

(* The server that was told to stop reaches the end of main, unless it     *)
(* crashes before: no thread waits for ever for another one.               *)
StopReturns == stage = "waitAccept" ~> stage = "done" \/ crashed

(* Until Stop deletes the sessions, the slot of every closed one goes back *)
(* to the pool, whoever closes it.                                         *)
SlotReturnsOrStop == \A s \in Slots : closeFlag[s] = 1 ~> InPool(s) \/ freed

(* GetSessionCount is right as long as the server runs: Stop also counts   *)
(* the slots that never held a session as disconnected.                    *)
CountWhileRunning == isrun => SessionCountAccurate

(* The sessions are deleted when nobody can use them any more. *)
NoUseAfterFree == ~crashed

(* The operating system has finished with the buffers and OVERLAPPEDs of a *)
(* session before Stop deletes it.                                         *)
PendingIODone == freed => \A s \in Slots : recvIO[s] = 0 /\ sendIO[s] = 0
=============================================================================
