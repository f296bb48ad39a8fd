# Verification of the IOCP chat server

TLA+ modules, TLC runs and TLAPS proofs for the server under `src/myIOCP`: a
Windows IOCP network engine (`CLanServer`), the chat content on top of it
(`CChatServer`), a database worker (`CDBWorker`), the process that starts and
stops them (`main`), and the load generator that tests them (`src/DummyClient`).
File and line numbers below refer to the repository's source.

## 1. The system

| Component | State | Operations |
|---|---|---|
| Network engine `CLanServer` | session slots (`sock`, `generation`, `closeFlag`, `ioRefCount`, `sendPending`, `sendQ`, `sendPkts`, `sendLock`), pool of free slots, accept and disconnect totals | `Start`, `Stop`, `AcceptThread`, `WorkerThread`, `PostRecv`, `OnRecvComplete`, `FlushSend`, `OnSendComplete`, `CloseSession`, `IOAddRef`/`IORelease`, `SendPacket`, `Disconnect` |
| `CRingBuffer` | `buffer`, `front`, `rear`, one per session | sizes, `Peek`, `Read`, `MoveReadPos`, `MoveWritePos`, `Clear` |
| `CLockFreeStack` | `m_pTop` = stamp and pointer, nodes on the heap | `Push`, `Pop` |
| `CPacket` | buffer, positions, `refCount`, a static pool | `Alloc`, `AddRef`, `Release`, `Encode`, `Decode`, reading and writing fields |
| Content `CChatServer` | `contentQ`, `players`, rooms, `isRun` | `OnClientJoin/Leave/Recv` (producers), `UpdateLoop` with a handler per message |
| `CDBWorker` | `jobs`, `results`, `isRun` | `Start`, `Stop`, `PushJob`, `PopResult`, `WorkerLoop` |
| `CDBConnector`, stored procedures | `hEnv`, `hDbc`, `isConnected`; the table of users | `Connect`, `Disconnect`, `Login`, `SignUp`; `sp_Login`, `sp_SignUp` |
| `main` | the server object, its threads | `StartContent`, `Start`, waiting for 'q', `Stop`, `StopContent` |
| `DummyClient` | per bot a socket, a receive buffer, its place in the cycle; global counters | `BotThread`, `DrainRecv`, `RunAuto`, `RunTamper`, `InteractiveRecvThread` |
| Statistics | counters | printing only |

How they interact. The accept thread takes a slot from the pool, announces the
session (`OnClientJoin`) and posts its first receive. Any worker dequeues any
completion; a receive is cut into packets that go to `OnRecv`, a send is followed
by the next flush. `OnClientJoin`, `OnRecv` and `OnClientLeave` push messages to
`contentQ`. The one Update thread pops them, owns players and rooms, hands logins
to the database worker, takes its results, and calls `SendPacket`, which runs in
the network engine, concurrently with the workers. A slot stays out of the pool as
long as `ioRefCount` is not 0: one base reference, dropped by `CloseSession`, and
one for each posted operation.

What is hard. Everything in the network engine is shared without a common lock:
who closes, who posts, who gives the slot back, and what `SendPacket` may still
assume after its tests. The pools are lock-free with immediate reuse of memory.
The content is single-threaded but meets messages and database results in any
order. `hazards` in `PROJECT.json` lists each such place with the property that
would notice it going wrong.

What makes each part correct:

* engine: references are counted exactly; a slot is in the pool exactly when
  nobody refers to it; one closer, one receive, one send per session; no queued
  packet is forgotten or reaches another session; JOIN, RECV and LEAVE are pushed
  in a usable order; closed slots come back; nobody waits forever;
* ring and framing: no byte lost or overwritten; packets intact, in order, at once,
  and only what arrived before the socket was closed;
* stack: it is a stack, with atomic operations, whatever the allocator does;
* packets: the last reference, and only it, returns a packet to its pool; no packet
  is written again while a queue holds it;
* identifiers: an identifier reaches its own session while that is open, and nothing
  afterwards;
* shutdown: it ends; every session is closed once; nothing is used after it was
  freed;
* database: no handle leaks; a result code that was read says what happened in the
  table; every job is answered;
* load generator: its bots do what the load test says they do, and its counters and
  verdicts are about the server;
* content: the player map follows JOIN and LEAVE; rooms and players agree;
  requests are answered once and in order; shutdown carries out accepted jobs.

## 2. Modules

| Module | Models | Composed of |
|---|---|---|
| `SessionEvents` | what the engine promises the content: the order of JOIN, RECV and LEAVE of one slot | |
| `CLanServer` | the running engine; implements `SessionEvents` | `INSTANCE SessionEvents` |
| `MCLanServer` | symmetry for TLC | `CLanServer` |
| `ServerMain`, `MCServerMain` | `main`, `Start` and `Stop` around the running engine | `CLanServer` |
| `CLanServerProofs` | the engine alone and under `Stop`: references, pool, channels, refinement of `SessionEvents`, session count, shutdown | `ServerMain` |
| `SessionId` | packing and unpacking of `SessionID`, with widths | |
| `SessionIdProofs` | the identifiers at the widths of the code | `SessionId` |
| `CPacket`, `MCPacket` | reference count and pool of packets over several sessions | |
| `CPacketProofs` | counts, pool and contents for any number of packets, sessions and workers | `CPacket` |
| `CChatServer`, `MCChatServer` | content, queue, rooms, players, database worker | |
| `CChatServerProofs` | membership, player map, targets of sends, answers, jobs at a stop | `CChatServer` |
| `CDBConnector` | ODBC connection, worker thread, stored procedures, result codes | |
| `CDBConnectorProofs` | handles and answers for any tables and jobs | `CDBConnector` |
| `DummyClient`, `MCDummyClient` | the load generator and its connections, against the content | `CChatServer` |
| `DummyClientProofs` | the load test for any number of bots: it is a user of the content, its totals, what becomes of its bots | `DummyClient`, `CChatServerProofs` |
| `StackSpec` | what a stack promises: atomic `Push` and `Pop` | |
| `CLockFreeStack` | the lock-free stack; implements `StackSpec` | `INSTANCE StackSpec` |
| `CLockFreeStackProofs` | addresses, stamps and the refinement of `StackSpec` | `CLockFreeStack` |
| `CRingBuffer` | the ring | |
| `PacketStream` | what a receiver of a stream promises: packets once, in order, authentic, only what arrived while the connection was open | |
| `RecvFraming`, `MCRecvFraming` | `PostRecv`/`OnRecvComplete` on the ring; implements `PacketStream` | `CRingBuffer`, `INSTANCE PacketStream` |
| `RecvFramingProofs` | the ring's arithmetic for every size, the ring as the stream, causes of a close, refinement of `PacketStream` | `RecvFraming` |

Operators named `X_Faulty...` are wrong versions of `X`. No specification uses
them; the `mutants` of `PROJECT.json` put one in the place of `X` to show that a
property would notice.

### CLanServer

Threads are `Acceptor`, `Updater`, `Workers` and `Main`, which is idle unless the
process stops (`ServerMain`); `pc[t]` is the point in the code,
`cur[t]` the slot a thread works on, `ret[t]` where `CloseSession` returns to. Each
interlocked operation, critical section and Winsock call is a step:

| Action | Code |
|---|---|
| `AllocSession`, `Associate`, `CountAccept`, `Join` | `AcceptThread` 156-201 with `AllocSession`, `InitSession` |
| `PostRecvAddRef`, `PostRecvPosted`, `PostRecvFailed`, `UndoAddRef` | `PostRecv` |
| `CloseSessionTestFlag`, `...CloseSocket`, `...Drain`, `...Leave`, `...Count`, `...DropBase` | `CloseSession` in order |
| `DequeueRecv`, `DequeueSend`, `WorkerRelease` | `WorkerThread` |
| `OnRecvComplete` | `OnRecvComplete`: packets or none, then the next receive or close (its inside is `RecvFraming`) |
| `OnSendCompleteRelease`, `...Clear`, `...Recheck` | `OnSendComplete` |
| `FlushSendExchange`, `...Grab`, `...AddRef`, `...Posted`, `...Failed`, `...Undo` | `FlushSend` |
| `SendPacketCheckGeneration`, `...CheckFlag`, `...Enqueue`, `...QueueFull`, `...Unlock`, `Disconnect` | `SendPacket`, `Disconnect` |

`recvIO` and `sendIO` count operations posted and not dequeued; whether one
succeeded is decided when it is dequeued. A queued packet is the generation it was
sent to, which is what `NoStaleDelivery` is about. `indexPool` is atomic, which
`CLockFreeStack` justifies. The Update thread sends to sessions it has heard from
(`HeardFrom`), which `SendsOnlyToHeard` of `CChatServer` justifies.

**Spec and TimelySpec.** `SendPacket` tests `generation` and `closeFlag` (106-110)
and owns no reference until `FlushSend`'s `IOAddRef` (403). `Spec` lets anything
happen in between, and two properties fail (findings 1 and 5 below). `TimelySpec`
adds the assumption `Timely`: while the Update thread is in that window the slot's
last reference is not dropped, and while it is inside `SendPacket` or `Disconnect`
the slot is not allocated anew. This is an assumption about timing that the code
does not enforce. The other engine results are under it; they say that this window
is the only way in which the engine loses track of its slots.

Two results do without it. Type correctness is one. The other is `OnlyLateSendsStray`,
about the second half of the window: a packet gets into the queue or the posted send of
a session it was not sent to (`Stray`) by one kind of step only, the enqueue of a
`SendPacket` whose slot was given to another session after its test (`SendsLate`). No
drain, grab, failed post, completion or reuse of the slot carries a packet over, and a
stray one does not outlive the session it strayed to. `LanStaleDelivery` shows that the
one kind of step occurs; `NoStaleDelivery` is what is left when `Timely` excludes it.

The last decrement of `ioRefCount` and the push of the slot (438-443) are one step:
delaying the push only lets the accept thread find the slot later.

`SessionEvents` keeps of each slot the generations last announced, heard of and
ended. `AnnouncesInOrder` shows that the engine implements it: a LEAVE is never
before the JOIN of its session, unless the socket could not be associated, and the
slot's next JOIN is never before that LEAVE.

### ServerMain

The engine of `CLanServer` runs inside it; `Main`, the main thread, takes part in it
when `Stop` runs `CloseSession` for every slot, without a reference of its own. `StartContent`, `Start`/`StartFails`, `StopListening`,
`WaitAccept`, `CallClose`/`CloseAllDone`, `PostNulls`, `WaitWorkers`, `FreeSessions`,
`StopContent`, `WaitUpdate` and `Destroy` are the main thread in order. A step of the
engine that would touch freed sessions is replaced by `UseAfterFree`, after which the
thread's step is gone. `AcceptEnds` is a failing `accept()`, at any time. The slot of a
session whose references do not reach 0 before Stop frees the memory is what
`PendingIODone` is about.

### CPacket and SessionId

`CPacket` follows the references of a packet through a worker (`RecvAlloc`, `OnRecv`,
`RecvRelease`), the content queue, the Update thread (`PopMessage`, `HandlerAlloc`,
`SendPacket` to a set of sessions, `HandlerRelease`, `MessageRelease`), the send
queues and the posted sends. A `Release` is a decrement and, at 0, a later push.
Entries of a queue remember the content the packet had, so that `QueuedIntact` sees a
packet that was given to somebody else too early. A send that completes with an error
abandons its packets, as the code does; `Abandoned` marks them. Slots are not reused
there, and `FlushSend` is one step: both are in `CLanServer`. `WSASend` may succeed
until the socket is closed, which is later than `closeFlag` is set.

`SessionId` has the widths of the word as constants (`IndexBase`, `GenBase`,
`LongBase`); `Encode` extends the sign of the LONG as the cast does. TLC cannot count
to 2^31, so that a configuration with a LONG of 4 bits shows what happens past it, and
`SessionIdProofs` proves what holds up to it at the widths of the code.

### CDBConnector

Every ODBC call of `Connect`, `Login` and `SignUp` is a step that fails or not.
`ExecDirect` may fail before or after the procedure ran. The returns of
`SQLBindParameter` (`BindParam`, all parameters in one step) and `SQLBindCol` (`BindCol`,
the set of columns it bound) are ignored, as in the code: without parameters `ExecDirect`
fails, and the variable of an unbound column keeps its initial 0, which as a result means
success. `handles` is what the driver manager has allocated, next to the fields of the
object. A result carries, as history, whether a checked call failed (`failed`), the
columns that were not bound (`unread`) and the table the procedure saw (`seen`).

`AnswersTrue` is about the answers whose result column was read. What the code does when
it was not is finding 18 (`SuccessMeansStored`); what it says when a checked call failed
is finding 13 (`CodesTrue`).

### DummyClient

The bots and the `--tamper` client run against `CChatServer` itself (`EXTENDS`), over
one connection per session; accept thread and workers are `ServerAccept`, `ServerRecv`
and `ServerClose`. `DrainRecv` returns when something arrived or at its timeout, and the
timeout may come at any time: the answer to a login waits for an ODBC call that nothing
bounds. So may the five seconds of the final wait. A timeout before the answer, or before
the bots have ended, is an event; `MaxEvents` bounds the connections and those timeouts
together. `early` is the history of the sessions whose ROOM_ENTER was sent while their
login was not answered, and `OnlyEarlyStray` says that only they can be in a room without
their player being there; finding 15 is that they can. Two
assumptions tie the constants together: the content's sessions are the clients'
connections, and the `--tamper` clients are none of the bots. `Drain` takes
what has arrived as a whole: cutting it into packets and counting them by type is left
out.

### CChatServer

The producers push to `contentQ`; `UpdateTest`, `UpdateMessage`, `UpdateResult` are
the three parts of `UpdateLoop`; `Handle_Join`, `Handle_Leave`, `Handle_Recv`,
`PushJob` (both `Handle_Login` and `Handle_SignUp`), `HandleRoomEnter`,
`HandleRoomLeave`, `HandleChat`, `Handle_DbResult` are the handlers, each with its
early returns. `PopJob`, `ProcessJob`, `DrainStart`, `DrainEnd` are the database
worker, `StopContent` and `StopDB` the shutdown of the content. `dbIsRun` is chosen
at the start: `StartContent` goes on without a database. A packet may still be
pushed after the LEAVE of its session, because a worker in `OnRecvComplete` is not
stopped by another thread's `CloseSession`; a LEAVE without a JOIN comes from a
socket that could not be associated.

### CLockFreeStack and StackSpec

One step per read of `m_pTop`, read of `next`, compare-exchange, `new` and
`delete`. The allocator may return a deleted address at once. Reading `next` of a
deleted node, or of a node allocated again and not yet linked, gives any pointer.
`ActsAtomically` is the refinement: the data along the chain from `m_pTop` is
`StackSpec`'s stack, and a value belongs to the popping thread from its
compare-exchange on. `TimelySpec` assumes that fewer than `StampMod` (2^17 in the
code) operations overtake one; `overtaken` counts them.

### CRingBuffer and RecvFraming

A byte is the packet it belongs to and its offset in it, so that `RingIsStream` and
`DeliversStream` can tell any loss, repetition or shift. Decoding accepts exactly
one untouched packet with a matching code; the cipher itself is left out. A length
field read from a byte that is not a packet's first is any number.

Other threads (a full send queue, a failed send, Stop) close the session at any moment:
`OtherCloses` sets `closeFlag`, `CloseSocket` closes the socket. A receive takes bytes
while the socket is open (`RecvArrives`); its completion is dequeued and parsed whatever
happened since (`RecvComplete`, `TakePacket`, ...), because `OnRecvComplete` does not
test `closeFlag`. A post fails on a closed socket, and may fail on an open one.
`DeliversStream` is the refinement of `PacketStream`: the packets handed over, before
or after a close, are the client's, in order, once each, authentic, and had arrived
completely while the socket was open.

## 3. Runs

| Run | Specification and bounds | Shows |
|---|---|---|
| `lan_safety` | `TimelySpec`; 1 slot, 3 workers, queue of 2, 2 sessions of the slot, associations may fail | the safety properties of the engine, and that it implements `SessionEvents` |
| `main_stop` | `MainLiveSpec`; 2 slots, 1 worker and the main thread, `Start` and `accept()` may fail | Stop at any moment: no session missed, references exact, closed slots return, the count is right while the server runs, the server ends |
| `chat_safety` | `Spec`; 2 sessions, 2 rooms of 2, 3 packets, 2 messages waiting | rooms, player map, database round trip, recipients, shutdown |
| `stack_pool` | `LiveSpec`; 2 threads, 2 values, 3 addresses, stamp of 4 values | refinement of `StackSpec`, exact use of nodes, lock freedom |
| `framing` | `LiveSpec`; ring and packet buffer of 6, header of 2, lengths 0 to 5, 3 packets, the slot used twice, other threads close at any moment | refinement of `PacketStream`; no byte lost, no session closed without cause, everything delivered |
| `packet_pool` | `LiveSpec`; 2 packets, 2 sessions, 1 worker, queue of 1, 3 messages, sends fail at once or later | reference count and pool; packets return |
| `db_connector` | `FairSpec`; 2 requests, 2 accounts, passwords and nicknames; every call may fail, the binds too | handles, true answers, every job answered, Stop returns |
| `load_test` | `ClientLiveSpec`; 2 bots and a `--tamper` client, 2 connections and early timeouts in all, batches of 1, 1 room of 1 | who can part a room from its players, the final counters, requests answered, the server empties |
| `lan_double_release` | `Spec`; 1 slot, 2 workers | finding 1 |
| `chat_ghost_member` | `Spec`; 2 packets | finding 2 |
| `lan_empty_send` | `TimelySpec`; 1 slot, 2 workers, queue of 2 | finding 3 |
| `main_use_after_free` | `MainSpec`; 1 slot, 1 worker | finding 4 |

Further configurations. They are started by hand (`tlc -config X.cfg M`) and answer
narrower questions. Four find no error:

| Configuration | Module | Shows |
|---|---|---|
| `LanLive` | `MCLanServer` | without Stop: slots return, handlers return (`HandlersReturn`), the session count is right |
| `LanLateSend` | `MCLanServer` | without `Timely`: only a late enqueue of `SendPacket` misdirects a packet (`OnlyLateSendsStray`) |
| `LoadTestLate` | `MCDummyClient` | 2 bots that share a room of 2, 3 connections and early timeouts: `OnlyEarlyStray`, `FinalBalanced` |
| `ChatLive` | `MCChatServer` | a room of 1: the limit holds, requests are answered, `StopContent` ends (`StopCompletes`) |

The others are expected to be violated; each shows one more place where the code
departs from what its documents say (section 4):

| Configuration | Module | Property violated |
|---|---|---|
| `LanStaleDelivery` | `MCLanServer` | `NoStaleDelivery`, without the assumption `Timely` |
| `LanPacketLeak` | `MCLanServer` | `FreeSlotHoldsNoPacket` |
| `LanSessionCount` | `MCLanServer` | `SessionCountAccurate`, when associations fail |
| `StackStampWrap` | `CLockFreeStack` | `StampTellsReuse`, when 4 operations overtake one and the stamp has 4 values |
| `MainPendingIO` | `MCServerMain` | `PendingIODone` |
| `MainWaitObjects` | `MCServerMain` | `WorkersEndedFirst`, with 2 workers and waits for at most 1 |
| `MainStartFails` | `MCServerMain` | `ContentOutlivesUpdate` |
| `SessionIdOverflow` | `SessionId` | `LiveIdAccepted`, LONG of 4 bits, 9 sessions of a slot |
| `DbFailureCode` | `CDBConnector` | `CodesTrue` |
| `DbBindIgnored` | `CDBConnector` | `SuccessMeansStored` |
| `DbNoWorker` | `CDBConnector` | `EveryRequestAnswered` |
| `BotSlowLogin` | `MCDummyClient` | `BotsStayInRoom`: one connection, one early timeout |
| `BotTamperCount` | `MCDummyClient` | `TamperMatchesMismatch` |
| `TamperBesideBots` | `MCDummyClient` | `VerdictRight`, with a bot in the room |

Why the bounds are enough. Slots share only the pool and the threads, and every
property speaks of one slot at a time; one slot used by two sessions gives reuse,
and three workers, the accept thread and the Update thread give a receive, a send
and a closer at work on it at once (a session has at most one receive and one send,
so a fourth worker would find nothing to do for it). The safety theorems drop these
bounds. A queue of 2 lets a packet wait behind another; `Qsize` 1 fills the queue.
Two rooms and three packets are enough for login, enter and second enter in every
order; a room that does not fill is in `chat_safety`, one that does in `load_test`. For the stack, one
sleeping thread and one that pops and pushes is the ABA pattern; three addresses
for two values let the allocator choose. The framing sizes keep the relations of
the code: packet buffer equal to ring size, lengths below, at and above the limit,
and a packet that just does not fit.

For shutdown, two slots give a session that is running, closing, being accepted or gone
when Stop reaches it, next to a slot that was never used; that slots are used again is
`lan_safety`'s part. Two sessions are what a broadcast needs for a packet to be in two
queues; two packets let one be reused while the other is queued; a worker and the
Update thread are the two sides that release a reference. Two requests are a sign-up
and its duplicate, by account or by nickname, or a sign-up and a login, right or wrong;
an answer depends on the rows of the table, and one row is enough for every result. Two
bots, or a bot and the `--tamper` client, are what it takes for one to receive the other's
messages; a second connection of one bot is what it takes to meet what the first left
behind; one connection and one early timeout are what it takes for a ROOM_ENTER to
overtake a login, and the theorem of section 5 drops the bound.

Deadlock checking is on for the stack, whose threads never stop; elsewhere the
bounds end every behaviour (all packets sent, all generations used) and it is off.

Fairness. Threads inside a handler are scheduled (weak fairness of each thread's
steps); a completion of cancelled I/O is dequeued in the end, because the
completion port hands completions out in order and workers always come back for
more (strong fairness, since workers may be busy again and again meanwhile).
Nothing makes a client connect, send or leave, or the operator stop the server. In
`main_stop` also the main thread, and the accept thread's return from `accept()` once
its socket is closed; a null completion is dequeued in the end (strong fairness, as
above). In `stack_pool` every thread; in `framing` the arrival of bytes sent, the
completion and the worker. In `packet_pool` the Update thread and the worker as in the engine. In
`db_connector` the worker and the Update thread, which keeps popping results; that every
ODBC call returns is an assumption on the database and its driver, since the code sets no
query timeout and the default is none. In
`load_test` the bots' threads, whose calls all have timeouts, and the server's threads;
not the operator who ends the bots, and not the `--tamper` client.

## 4. Findings

Shown by a run:

1. `lan_double_release`: `SendPacket` can take and give back a reference on a slot
   that is already free; the slot is then in the pool twice (CLanServer.cpp:109).
2. `chat_ghost_member`: a second ROOM_ENTER, or a login result that arrives after
   ROOM_ENTER, leaves a session in a room for good (CChatServer.cpp:307,
   CPlayer.cpp:50).
3. `lan_empty_send`: `OnSendComplete` reads `sqCount` without the lock; a send of 0
   buffers may be posted, and its completion closes a healthy session
   (CLanServer.cpp:430).
4. `main_use_after_free`: `Stop` deletes the sessions while the Update thread still
   sends (main.cpp:41).

Shown by a further configuration:

5. `LanStaleDelivery`: the generation test does not keep a packet from the slot's
   next session (CLanServer.cpp:106); ARCHITECTURE.md:126 says it does.
6. `LanPacketLeak`: packets of a send that fails asynchronously are never released
   (CLanServer.cpp:218); ARCHITECTURE.md:146-147 has every packet come back.
7. `LanSessionCount`: a failed association counts as a disconnect only
   (CLanServer.cpp:192); README.md:157 takes the difference of the counters as the
   leak criterion.
8. `StackStampWrap`: the stamp tells reuse apart only for 2^17 operations
   (CLockFreeStack.h:26); README.md:95 says so without reservation.
9. `MainPendingIO`: workers may end before the completions of cancelled I/O; the
   sessions are deleted while the operating system uses them (CLanServer.cpp:77,
   against ARCHITECTURE.md:135).
10. `MainWaitObjects`: with more than 64 workers Stop does not wait for them
    (CLanServer.cpp:79, against BUGFIX_LOG.md:69-70).
11. `MainStartFails`: when `Start` fails the content is destroyed under the Update
    thread (main.cpp:18, against ARCHITECTURE.md:59).
12. `SessionIdOverflow`: from 2^31 sessions of a slot on, its identifiers reach
    nothing (CLanServer.cpp:277); ARCHITECTURE.md:122 gives generations 48 bits.
13. `DbFailureCode`: an ODBC failure is reported as INVALID_ACCOUNT or
    DUPLICATE_ACCOUNT (CDBWorker.cpp:159, against ARCHITECTURE.md:109-110).
14. `DbNoWorker`: without a database, requests are never answered
    (CChatServer.cpp:143, against ARCHITECTURE.md:170-192).
15. `BotSlowLogin`: a bot whose login takes more than 50 ms falls out of its room
    (DummyClient.cpp:384, against evidence/LEAK_VERIFICATION.md:28).
16. `BotTamperCount`: `g_tamperSent` may count packets the server never reads
    (DummyClient.cpp:414, against the comment at :71).
17. `TamperBesideBots`: `--tamper` reports FAIL when other clients' messages arrive
    first (DummyClient.cpp:780, against the comment at :763).
18. `DbBindIgnored`: the return of `SQLBindCol` is ignored and the variable it should
    have bound starts at 0; a client the procedure refused is then told SUCCESS
    (CDBConnector.cpp:135, 211, against ARCHITECTURE.md:109-110).

## 5. Proofs

All for every value of the constants (any number of slots, any finite set of
workers, any queue size, any bound on generations), from the named assumptions of
the modules only. Every safety property of the passing runs is stated by a theorem.

* `CLanServerProofs!TypeCorrect`: `Spec => []TypeOK`.
* `CLanServerProofs!Invariant`: `TimelySpec => []RunInv`, and from it
  `ReferenceCount`, `Pool` and `SingleCloser` for `RefCountExact`, `PoolExact` and
  `OneCloser`.
* `CLanServerProofs!StrayPackets`: `Spec => OnlyLateSendsStray`, without `Timely`;
  `PacketsReachTheirSession`, `TimelySpec => []NoStaleDelivery`, is its counterpart where
  no send is late.
* `CLanServerProofs!Channels`: `TimelySpec => []ChannelInv`, and from it
  `SingleReceive`, `SingleSend` and `QueueIsWatched` for `OneReceive`, `OneSend` and
  `NoLostWakeup`; `AnnouncementsRefine`: the engine implements `SessionEvents`
  (`AnnouncesInOrder`).
* `CLanServerProofs!StopInvariant`: `MainSpec => []MainInv`, the engine with Stop at any
  moment, and from it `CountSurvivesStop`, `SessionsLeft`, `CountWhileServing`,
  `WorkersEnd` and `UpdateEndsFirst` for `StopKeepsCount`, `EverySessionLeft`,
  `CountWhileRunning`, `WorkersEndedFirst` and `ContentOutlivesUpdate`; `SessionCount`:
  `TimelySpec => []SessionCountAccurate`.
* `CPacketProofs!RefCount`, `Pool`, `NotRewritten`, `TypeCorrect`: `RefCountExact`,
  `PoolExact`, `QueuedIntact` and `TypeOK` of `CPacket`, from `Spec`.
* `CChatServerProofs!TypeCorrect`, `Membership`, `PlayerMap`, `SendTargets`, `Drained`,
  `Answers`: `TypeOK`, `InRoomIsMember`, `PlayerMapExact`, `SendsOnlyToHeard`,
  `StopLosesNoJob` and `AnswersMatchRequests`, from `Spec`.
* `DummyClientProofs!Composition`: `ClientSpec => Spec`, the clients use the content as
  its specification allows, so that the theorems above hold of the load test too;
  `FinalCount`, `OnlyEarlySessionsStray`: `FinalBalanced` and `OnlyEarlyStray`, from
  `ClientSpec`, whenever the timeouts come.
* `CDBConnectorProofs!Handles`, `Answers`: `HandlesExact` and `AnswersTrue`, from `Spec`.
* `CLockFreeStackProofs!TypeCorrect`, `Stamp`, `Addresses`: `TypeOK`,
  `StampTellsReuse` and `NodesExact`, from `TimelySpec`; `Linearizable`: the stack
  implements `StackSpec` (`ActsAtomically`).
* `RecvFramingProofs!WriteRoom`, `WriteMoves`, `ReadMoves`: the ring's arithmetic
  for every size; `TypeCorrect`, `RingStream`, `Causes`: `TypeOK`, `RingIsStream` and
  `ClosedForCause`, from `Spec`; `Refinement`: the receiver implements `PacketStream`
  (`DeliversStream`).
* `SessionIdProofs!RoundTrip`, `LiveIdReachesItsSession`, `StaleIdReachesNothing`: the
  identifiers at the widths of the code (`Widths`: 16, 48 and 32 bits), for every
  number of slots and every generation up to 2^31 - 1. The inductive invariant `IdInv`
  says that a slot's sessions are numbered from 1, that the n-th identifier is
  `Encode(slot, n)`, and that a free slot is closed or was never used.

Some theorems have a hypothesis about the environment besides. Each is necessary: TLC
finds the theorem's property violated under the constants of a configuration of section
3 in which the hypothesis is false.

| Theorem | Hypothesis | False in |
|---|---|---|
| `CountWhileServing`, `SessionCount` | `~AssocMayFail`: no association with the completion port fails | `LanSessionCount` |
| `WorkersEnd`, `SessionsLeft` | `workerCount <= MAXIMUM_WAIT_OBJECTS`: Stop waits for its workers | `MainWaitObjects` |
| `UpdateEndsFirst` | `~StartMayFail`: `Start` succeeds | `MainStartFails` |

The argument for the engine. `RefCountExact` equates `ioRefCount` with a sum of the
base reference, the posted operations and the cardinalities of two sets of threads.
It is not inductive alone: that a step changes the right sets by one needs to know
where threads may be and who may be at work on a slot. `IInv` speaks of slots that have
had a session (`RefCounted`, `Pooled`): Stop closes the others too, and takes their
count below 0. It adds

* `PlaceInv`: which points in the code each thread can be at, and what it returns
  to;
* `UsedInv`: a slot somebody works on has been allocated;
* `AcceptInv`: what holds of the slot the accept thread is setting up, when no
  other thread knows it (this is where `HeardFrom` is needed: the Update thread
  does not send to a session before a packet of it was received);
* `WindowInv`: in the window of `SendPacket` the slot has a reference (this is
  where `Timely` is needed);
* `ReceivedInv`, `PacketsInv`: generations received from, queued and in flight are
  not ahead of, respectively equal to, the slot's.

`CLanServerProofs` has one lemma per kind of change of the sum (a thread moves
without touching it, takes a reference, drops one, posts, dequeues, closes first,
drops the base, allocates). It then shows once that every action is one
of four shapes (`Walk`, `Touch`, `Enter`, `Allocate`), and each part of `IInv` is
then shown to be kept by the shapes, not by thirty actions. The steps are those of
`ServerNext`: the engine's, and the calls of `CloseSession` that `Main` makes once the
accept thread has ended. As long as `Main` makes none, a slot without a session waits
in the pool (`UnusedInv`); `RunInv` is `IInv` with that, and gives `RefCountExact` and
`PoolExact` as the run states them.

Shutdown. `StageInv` says, for each place of `main`, which threads are left, how far the
loop over the slots is, and what is freed; `MainCases` shows with it that every step of
`MainSpec` is a step of `ServerNext` or leaves the engine alone. `ClosedInv`: a slot the
loop has passed is closed, or `Main` is about to close it. `LeftInv`: the end of a closed
session was announced, or a thread is on its way to announce it. When the workers have
ended nobody is on the way any more, which is `EverySessionLeft`. The number of sessions
changes in pairs of steps, an announcement and a counter, and `Report` says of each
thread's step which half it is; `ArrivalInv`, that a session was announced before
anybody can announce its end, is where an association must not fail.

The channels. A posted operation, and a thread that prepares one or handles its
completion, are tokens of a session's receive or send channel. That there is at most
one receive token needs to know who makes one: the accept thread alone, on a session
nobody else works on. That there is at most one send token is `SendInv`, their number is at most
`sendPending`; `NoLostWakeup` is not inductive without `PendingInv`, that whoever set
`sendPending` of an open session is still there to clear it or closes the session. For the refinement
`EventsInv` ties the announcements of a slot to its generation: JOIN is the present
session's or was followed by its LEAVE, LEAVE is still to come when and only when the
session is open, and a receive is posted only for an announced session. Each action is
then a step of `SessionEvents` or leaves `joined`, `received` and `left` alone.

The packets. `Holders(p)` is a union of tagged sets, one per place where a reference
can be; `refCount` equals its cardinality. For each place a lemma says what its change
does to the number, whatever is at the other places (`Exchange` on two disjoint
unions). `IInv` adds the roles (`RoleInv`: at which points in the code a thread has a
packet of its own), that a session without `sendPending` has nothing in flight, and
`PoolInv`, which is stronger than `PoolExact`: a packet in the pool has count 0 and is
owed by nobody. `QueuedIntact` follows from the count: what `Alloc` takes has count 0,
so no queue holds it.

The content. `PlayerMapExact` needs the order of a session's messages in the queue:
JOIN once and before LEAVE, and who left with its JOIN still waiting has its LEAVE
waiting too (`MapInv`). `SendsOnlyToHeard` needs that members of rooms and the sessions
of jobs and results were heard (`HeardInv`). `StopLosesNoJob` needs that the worker is
told to stop only when the Update thread has ended (`StopInv`). `AnswersMatchRequests`
compares sequences of requests and answers: `AnswerInv` says that what was asked of a
session and not answered is what `Pipeline` (results, the job in work, jobs waiting)
holds of it, in that order. `IsOf` states that without recursion, by an increasing
enumeration of the places in the queue, and `Of` is shown to agree with it.

The load test. That rooms and players agree is false of the content alone, and false of
a session whose ROOM_ENTER overtook its login; of the others it is the clients' behaviour
that keeps it. `BotInv` follows a session's packets on the wire, in the queue and in
`Pipeline`: `SessionInv` says that there is at most one ROOM_ENTER, under way or carried
out (`OneEnter`), and that a session not in `early` does not have it together with an
unanswered login (`NoLogin` or `NoEnter`). It rests on where the client is (`PhaseInv`:
no enter before it sends one). So a login result never meets a player who is in a room,
nor a second ROOM_ENTER one. `CountInv` is `conn = disc` plus the bots that have a
connection, and a wait that did not time out ends when the bots of its batch have.

Stray packets. A step that is not a late enqueue makes no packet stray. The packets of the
queue and the posted send after a step were there before or are the one `SendPacket`
enqueues (`QueueKept`, action by action), so it remains that the slot's generation does
not change under them: it changes in `AllocSession` only, which empties both. That the
enqueue of another generation is a late one is `SidInv`: the identifier the Update thread
sends to is never ahead of its slot's generation.

The framing. `OpenInv` says that until the last completion of a session is handled, closed
or not, the bytes in the ring followed by those not in it yet are the client's stream
after the packets delivered (`Holds`, byte by byte); `GotInv`, that a completion has no
more bytes than the receive was posted for. A completion moves the border between ring
and network; delivering moves the start of the stream by one packet, which is in the ring
whole and therefore had arrived; on a closed socket nothing arrives. What the stream is comes from a recursive function, where each
packet starts: that a function with its equation exists for every number of packets is
shown with the least number without one (`StartExists`, `LeastNumber`). A session is closed
for lack of room only when a packet does not fit, which is what the ring's arithmetic and
`PACKET_BUFFER_SIZE = maxSize` give.

The database. `AnswersTrue` needs the truth of what is on the way to the client: the row
the procedure selected and, as far as their columns were bound, the results in the queue
(`TrueInv`). A success stays true
because the table only grows; a refusal is about the table the procedure saw.
`HandlesExact` needs how far `Start` and `Stop` are (`PhaseInv`).

The stack. `IInv` says that there is a sequence `c` of nodes that leads from `m_pTop`
along `next` to `nullptr`, without repetition, and that every address is in `c`, in the
hands of one thread, or free (`Place`). A push puts a node before `c` and a pop takes its
first node off; each of the ways an address moves has a lemma about rigid values
(`PlaceTake`, `PlaceGive`, `PlacePush`, `PlacePop`). That a pop takes the right node off
is `StampTellsReuse`, which rests on `StampInv`: inside its window a thread's stamp is
behind the one of `m_pTop` by the number of words installed since, modulo `StampMod`, so
that equal stamps mean no word at all. This is where `NoWrap` is needed. `Linked` is `c`
because the pointers lead one way only; `ChainPrefix` shows it with a least index at
which two chains differ (`LeastNumber`, from the well-foundedness of `<`).

Every inductive invariant was checked with TLC on the instance of the run before it was
proved.

Only model-checked:

* all liveness: fairness and `ENABLED` are outside the prover's reach;
* the violations of section 4, which are counterexamples.

## 6. Not modelled

* Statistics (`StatThread`, `PrintChatStat`, the counters of the load generator's
  `StatThread`): they print; the totals that other code or the tests rely on are in
  the models.
* The ciphers and codes of `Encode` and `Decode`: OpenSSL's. Decoding accepts what was
  encoded and nothing else.
* The load generator's interactive mode (`RunInteractive`, `InteractiveRecvThread`):
  console input, one send per command, and printing what arrives. Its reassembly of
  packets from a linear buffer, and that of `DrainRecv`, are left out: the server's side
  of the same format is `RecvFraming`.
* The offsets of fields inside a message (`ReadPacket`, `WritePacket`, `<<`, `>>` and the
  client's own layout): fixed-size copies at fixed places.
* Refusal by `OnConnectionRequest`: it always accepts.
* Failures of `SQLDisconnect` and `SQLFreeHandle`: the code has no path for them.
* The numbers of socket handles, and with them the reuse of a handle between a read of
  `s->sock` and its use (CLanServer.cpp:404).
* The text of nicknames and chats (truncation, conversion between character sets).

## 7. Plan

Done: the inventory; the engine; content and database worker; stack, ring and framing;
shutdown; packets and identifiers; the database; the load generator against the content.
Proved: the safety properties of every passing run, and the four refinements
(`SessionEvents`, `StackSpec`, `PacketStream`, and the load test as a user of the
content).

Not covered: the two hazards of `PROJECT.json` without a property of a listed run, which
`SessionIdOverflow` and `DbNoWorker` show instead; and the places of section 6. Should
`SendPacket` be changed to take its reference before its tests, the proofs to look at are
those that cite `Timely`: what it is needed for would follow from the reference.
