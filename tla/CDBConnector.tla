---------------------------- MODULE CDBConnector ----------------------------
(***************************************************************************)
(* The database side of the server: the ODBC connection (CDBConnector.cpp),*)
(* the worker thread that owns it (CDBWorker.cpp) and the two stored       *)
(* procedures it calls (db/01-schema.sql).  CChatServer abstracts all this *)
(* to "any result"; here the ODBC calls that connect, bind, execute and    *)
(* fetch are steps that may fail, the ones whose return the code ignores   *)
(* included, and the result codes are followed from the table to the       *)
(* client.  SQLDisconnect and SQLFreeHandle always succeed.                *)
(*                                                                         *)
(* The threads: main starts and stops the worker, the Update thread pushes *)
(* jobs and pops results, the worker thread calls the database.            *)
(***************************************************************************)
EXTENDS Integers, Sequences, FiniteSets

CONSTANTS Accounts, Passwords, Nicknames,
          MaxJobs      \* bound: jobs pushed

VARIABLES
  handles,    \* external: the ODBC handles that are open
  hEnv, hDbc, \* CDBConnector: the member is not SQL_NULL_HANDLE
  isConnected,
  main,       \* where Start, Stop and the destructors stand
  isRun,      \* CDBWorker::isRun
  thread,     \* the worker thread: "none", "running" or "ended"
  step,       \* the ODBC call the worker makes next, or "pop"
  job,        \* the job it works on
  row,        \* the row the stored procedure selected
  bound,      \* external: what SQLBindParameter and SQLBindCol have bound
  jobs, results,
  users,      \* the table Users
  asked,      \* history: the jobs pushed
  told        \* history: the answers given to the clients

connVars == <<handles, hEnv, hDbc, isConnected>>
workVars == <<thread, step, job, row, bound>>
vars == <<connVars, main, isRun, workVars, jobs, results, users, asked, told>>

Login == "login"
SignUp == "signup"
NoJob == [type |-> "none"]
NoRow == [result |-> 1, userNo |-> 0]
Columns == {"result", "userNo"}   \* of the row the procedures select

Job == [type : {Login}, account : Accounts, password : Passwords]
         \cup [type : {SignUp}, account : Accounts, password : Passwords,
               nickname : Nicknames]

(***************************************************************************)
(* The stored procedures: the row each selects for the table tab.          *)
(***************************************************************************)
sp_Login(j, tab) ==
    LET found == { u \in tab : u.account = j.account }
    IN  CASE found = {} -> [result |-> 1, userNo |-> 0]
          [] \E u \in found : u.password # j.password -> [result |-> 2, userNo |-> 0]
          [] OTHER -> [result |-> 0, userNo |-> (CHOOSE u \in found : TRUE).userNo]

sp_SignUp(j, tab) ==
    IF \E u \in tab : u.account = j.account THEN [result |-> 1, userNo |-> 0]
    ELSE IF \E u \in tab : u.nickname = j.nickname THEN [result |-> 2, userNo |-> 0]
    ELSE [result |-> 0, userNo |-> Cardinality(tab) + 1]

\* The row INSERT adds; IDENTITY(1, 1) numbers the rows, none is deleted.
Inserted(j, r) ==
    IF j.type = SignUp /\ r.result = 0
    THEN {[userNo |-> r.userNo, account |-> j.account, password |-> j.password,
           nickname |-> j.nickname]}
    ELSE {}

sp(j, tab) == IF j.type = Login THEN sp_Login(j, tab) ELSE sp_SignUp(j, tab)

\* MapLoginResult, MapSignUpResult: what the client reads.
MapResult(type, spResult) ==
    CASE spResult = 0 -> "SUCCESS"
      [] spResult = 1 -> IF type = Login THEN "INVALID_ACCOUNT" ELSE "DUPLICATE_ACCOUNT"
      [] spResult = 2 -> IF type = Login THEN "INVALID_PASSWORD" ELSE "DUPLICATE_NICKNAME"
      [] OTHER -> "FAIL"

-----------------------------------------------------------------------------

Init ==
    /\ handles = {} /\ hEnv = FALSE /\ hDbc = FALSE /\ isConnected = FALSE
    /\ main = "AllocEnv" /\ isRun = FALSE
    /\ thread = "none" /\ step = "pop" /\ job = NoJob /\ row = NoRow
    /\ bound = {}
    /\ jobs = <<>> /\ results = <<>>
    /\ users = {}
    /\ asked = <<>> /\ told = <<>>

(***************************************************************************)
(* CDBConnector::Connect, one action per ODBC call: the failure of a call  *)
(* frees what the earlier ones allocated.  StartContent ignores that Start *)
(* failed: the Update thread runs all the same.                            *)
(***************************************************************************)
Quiet == UNCHANGED <<isRun, workVars, jobs, results, users, asked, told>>

AllocEnv(ok) ==
    /\ main = "AllocEnv"
    /\ hEnv' = ok
    /\ handles' = IF ok THEN handles \cup {"env"} ELSE handles
    /\ main' = IF ok THEN "SetEnvAttr" ELSE "serving"
    /\ UNCHANGED <<hDbc, isConnected>> /\ Quiet

SetEnvAttr(ok) ==
    /\ main = "SetEnvAttr"
    /\ hEnv' = ok
    /\ handles' = IF ok THEN handles ELSE handles \ {"env"}
    /\ main' = IF ok THEN "AllocDbc" ELSE "serving"
    /\ UNCHANGED <<hDbc, isConnected>> /\ Quiet

AllocDbc(ok) ==
    /\ main = "AllocDbc"
    /\ hDbc' = ok
    /\ hEnv' = ok
    /\ handles' = IF ok THEN handles \cup {"dbc"} ELSE handles \ {"env"}
    /\ main' = IF ok THEN "DriverConnect" ELSE "serving"
    /\ UNCHANGED isConnected /\ Quiet

DriverConnect(ok) ==
    /\ main = "DriverConnect"
    /\ hDbc' = ok
    /\ hEnv' = ok
    /\ isConnected' = ok
    /\ handles' = IF ok THEN handles ELSE handles \ {"dbc", "env"}
    /\ main' = IF ok THEN "BeginThread" ELSE "serving"
    /\ Quiet

\* CDBConnector::Disconnect
Disconnect ==
    /\ handles' = handles \ ((IF hDbc THEN {"dbc"} ELSE {})
                               \cup (IF hEnv THEN {"env"} ELSE {}))
    /\ hEnv' = FALSE /\ hDbc' = FALSE /\ isConnected' = FALSE

(* CDBWorker::Start after Connect *)
BeginThread(ok) ==
    /\ main = "BeginThread"
    /\ isRun' = ok
    /\ thread' = IF ok THEN "running" ELSE "none"
    /\ main' = "serving"
    /\ IF ok THEN UNCHANGED connVars ELSE Disconnect
    /\ UNCHANGED <<step, job, row, bound, jobs, results, users, asked, told>>

(***************************************************************************)
(* The Update thread: PushJob, and PopResult with the answer it sends.     *)
(***************************************************************************)
PushJob(j) ==
    /\ main = "serving"
    /\ Len(asked) < MaxJobs
    /\ jobs' = Append(jobs, j)
    /\ asked' = Append(asked, j)
    /\ UNCHANGED <<connVars, main, isRun, workVars, results, users, told>>

PopResult ==
    /\ main = "serving"
    /\ results # <<>>
    /\ results' = Tail(results)
    /\ LET r == Head(results)
       IN  told' = Append(told, [r EXCEPT !.code = MapResult(r.job.type, @)])
    /\ UNCHANGED <<connVars, main, isRun, workVars, jobs, users, asked>>

(***************************************************************************)
(* The worker thread.  isRun is tested between two jobs; once it is FALSE  *)
(* the queue is drained, and the thread ends when it is empty.             *)
(***************************************************************************)
popJob_FaultyStopsAtOnce ==
    /\ thread = "running" /\ step = "pop"
    /\ isRun
    /\ jobs # <<>>
    /\ job' = Head(jobs)
    /\ jobs' = Tail(jobs)
    /\ row' = NoRow
    /\ step' = "AllocStmt"
    /\ UNCHANGED <<connVars, main, isRun, thread, bound, results, users, asked, told>>

popJob ==
    /\ thread = "running" /\ step = "pop"
    /\ jobs # <<>>
    /\ job' = Head(jobs)
    /\ jobs' = Tail(jobs)
    /\ row' = NoRow
    /\ step' = "AllocStmt"
    /\ UNCHANGED <<connVars, main, isRun, thread, bound, results, users, asked, told>>

WorkerEnds_FaultyWaitsForUpdate ==
    /\ thread = "running" /\ step = "pop"
    /\ ~isRun /\ jobs = <<>> /\ results = <<>>
    /\ thread' = "ended"
    /\ UNCHANGED <<connVars, main, isRun, step, job, row, bound, jobs, results,
                   users, asked, told>>

WorkerEnds ==
    /\ thread = "running" /\ step = "pop"
    /\ ~isRun /\ jobs = <<>>
    /\ thread' = "ended"
    /\ UNCHANGED <<connVars, main, isRun, step, job, row, bound, jobs, results,
                   users, asked, told>>

\* processLogin and processSignUp push a result whatever Login or SignUp
\* returned: 1 when the call failed.  unread (history): the columns of which
\* the variable kept its initial 0.
pushResult(ok, r, unread) ==
    /\ results' = Append(results, [job |-> job, failed |-> ~ok, seen |-> users,
                                   unread |-> IF ok THEN unread ELSE {},
                                   code |-> IF ok THEN r.result ELSE 1,
                                   userNo |-> IF ok THEN r.userNo ELSE 0])
    /\ job' = NoJob /\ row' = NoRow
    /\ step' = "pop"
    /\ bound' = {}

AllocStmt(ok) ==
    /\ step = "AllocStmt"
    /\ IF isConnected /\ ok
       THEN /\ handles' = handles \cup {"stmt"}
            /\ step' = "BindParam"
            /\ UNCHANGED <<job, row, bound, results>>
       ELSE pushResult(FALSE, NoRow, {}) /\ UNCHANGED handles
    /\ UNCHANGED <<hEnv, hDbc, isConnected, main, isRun, thread, jobs, users,
                   asked, told>>

\* SQLBindParameter: the return is ignored.
BindParam(ok) ==
    /\ step = "BindParam"
    /\ bound' = IF ok THEN {"params"} ELSE {}
    /\ step' = "Exec"
    /\ UNCHANGED <<connVars, main, isRun, thread, job, row, jobs, results, users,
                   asked, told>>

\* SQLExecDirect: the procedure ran, or not at all; when the connection is
\* lost, the call fails whether it ran or not.  A parameter marker without
\* a parameter is an error.
Exec(ran, ok) ==
    /\ step = "Exec"
    /\ ok => ran
    /\ ran => "params" \in bound
    /\ LET r == sp(job, users)
       IN  /\ users' = IF ran THEN users \cup Inserted(job, r) ELSE users
           /\ IF ok
              THEN /\ row' = r
                   /\ step' = "BindCol"
                   /\ UNCHANGED <<job, bound, results, handles>>
              ELSE /\ pushResult(FALSE, NoRow, {})
                   /\ handles' = handles \ {"stmt"}
    /\ UNCHANGED <<hEnv, hDbc, isConnected, main, isRun, thread, jobs, asked, told>>

\* SQLBindCol, once for each column: the returns are ignored.
BindCol(cols) ==
    /\ step = "BindCol"
    /\ bound' = cols
    /\ step' = "Fetch"
    /\ UNCHANGED <<connVars, main, isRun, thread, job, row, jobs, results, users,
                   asked, told>>

Fetch_FaultyIgnoresError(ok) ==
    /\ step = "Fetch"
    /\ pushResult(TRUE, IF ok THEN row ELSE [result |-> 0, userNo |-> 0], {})
    /\ handles' = handles \ {"stmt"}
    /\ UNCHANGED <<hEnv, hDbc, isConnected, main, isRun, thread, jobs, users,
                   asked, told>>

\* SQLFetch fills the variables of the columns that are bound; the others
\* keep the 0 they started with.
Fetched == [c \in Columns |-> IF c \in bound THEN row[c] ELSE 0]

Fetch(ok) ==
    /\ step = "Fetch"
    /\ pushResult(ok, Fetched, Columns \ bound)
    /\ handles' = handles \ {"stmt"}
    /\ UNCHANGED <<hEnv, hDbc, isConnected, main, isRun, thread, jobs, users,
                   asked, told>>

(***************************************************************************)
(* CDBWorker::Stop, called by StopContent when the Update thread has ended,*)
(* and then the destructors.                                               *)
(***************************************************************************)
Stop ==
    /\ main = "serving"
    /\ isRun' = FALSE
    /\ main' = IF isRun THEN "join" ELSE "destroy"
    /\ UNCHANGED <<connVars, workVars, jobs, results, users, asked, told>>

StopJoin_FaultyNoWait ==
    /\ main = "join"
    /\ main' = "destroy"
    /\ Disconnect
    /\ UNCHANGED <<isRun, workVars, jobs, results, users, asked, told>>

StopJoin ==
    /\ main = "join"
    /\ thread = "ended"
    /\ main' = "destroy"
    /\ Disconnect
    /\ UNCHANGED <<isRun, workVars, jobs, results, users, asked, told>>

\* ~CDBWorker calls Stop again, which returns; ~CDBConnector disconnects.
Destroy ==
    /\ main = "destroy"
    /\ main' = "done"
    /\ Disconnect
    /\ UNCHANGED <<isRun, workVars, jobs, results, users, asked, told>>

Connect == \E ok \in BOOLEAN :
               AllocEnv(ok) \/ SetEnvAttr(ok) \/ AllocDbc(ok) \/ DriverConnect(ok)
Call(ok) ==
    \/ AllocStmt(ok) \/ BindParam(ok) \/ Fetch(ok)
    \/ \E ran \in BOOLEAN : Exec(ran, ok)
    \/ \E cols \in SUBSET Columns : BindCol(cols)
processLogin == job.type = Login /\ \E ok \in BOOLEAN : Call(ok)
processSignUp == job.type = SignUp /\ \E ok \in BOOLEAN : Call(ok)

WorkerLoop == popJob \/ WorkerEnds \/ processLogin \/ processSignUp
Update == PopResult \/ \E j \in Job : PushJob(j)

Next ==
    \/ Connect
    \/ \E ok \in BOOLEAN : BeginThread(ok)
    \/ Stop \/ StopJoin \/ Destroy
    \/ Update
    \/ WorkerLoop

Spec == Init /\ [][Next]_vars

\* The scheduler runs every thread and the Update thread polls the results.
\* That every ODBC call returns is an assumption on the database and its
\* driver: the code sets no query timeout, and the default is none.
FairSpec == Spec /\ WF_vars(Connect) /\ WF_vars(WorkerLoop) /\ WF_vars(PopResult)
                 /\ WF_vars(StopJoin \/ Destroy)

-----------------------------------------------------------------------------

Result == [job : Job, failed : BOOLEAN, seen : SUBSET users, unread : SUBSET Columns,
           code : 0 .. 2, userNo : 0 .. MaxJobs]

(***************************************************************************)
(* Type invariant of the connector, the worker and the queues.             *)
(***************************************************************************)
TypeOK ==
    /\ handles \subseteq {"env", "dbc", "stmt"}
    /\ {hEnv, hDbc, isConnected, isRun} \subseteq BOOLEAN
    /\ main \in {"AllocEnv", "SetEnvAttr", "AllocDbc", "DriverConnect", "BeginThread",
                 "serving", "join", "destroy", "done"}
    /\ thread \in {"none", "running", "ended"}
    /\ step \in {"pop", "AllocStmt", "BindParam", "Exec", "BindCol", "Fetch"}
    /\ bound \subseteq {"params"} \cup Columns
    /\ job \in Job \cup {NoJob} /\ (step = "pop") = (job = NoJob)
    /\ jobs \in Seq(Job)
    /\ results \in Seq(Result)

(***************************************************************************)
(* The open ODBC handles are exactly the ones the connector and the        *)
(* running call still know: none is leaked by an error path, none is freed *)
(* twice or in the wrong order, and no statement is left open when Stop    *)
(* frees the connection.                                                   *)
(***************************************************************************)
HandlesExact ==
    handles = (IF hEnv THEN {"env"} ELSE {}) \cup (IF hDbc THEN {"dbc"} ELSE {})
                \cup (IF step \in {"BindParam", "Exec", "BindCol", "Fetch"} /\ hDbc
                      THEN {"stmt"} ELSE {})

(***************************************************************************)
(* A client that is told SUCCESS is in the table: by the account and the   *)
(* password of its request, under the number it was given.  The code does  *)
(* not ensure it: when SQLBindCol failed, result keeps its initial 0, and  *)
(* a client the procedure refused is told SUCCESS.                         *)
(***************************************************************************)
SuccessMeansStored ==
    \A i \in DOMAIN told : told[i].code = "SUCCESS" =>
        \E u \in users : /\ u.userNo = told[i].userNo
                         /\ u.account = told[i].job.account
                         /\ u.password = told[i].job.password

(***************************************************************************)
(* What the code an answer carries says of the table, as it was when the   *)
(* result was pushed.                                                      *)
(***************************************************************************)
Holds(r) ==
    CASE r.code = "SUCCESS" -> TRUE
      [] r.code = "INVALID_ACCOUNT" -> \A u \in r.seen : u.account # r.job.account
      [] r.code = "INVALID_PASSWORD" ->
            \E u \in r.seen : u.account = r.job.account /\ u.password # r.job.password
      [] r.code = "DUPLICATE_ACCOUNT" -> \E u \in r.seen : u.account = r.job.account
      [] r.code = "DUPLICATE_NICKNAME" ->
            \E u \in r.seen : u.nickname = r.job.nickname /\ u.account # r.job.account

(***************************************************************************)
(* ARCHITECTURE 4.3 maps the procedures' results to the codes the client   *)
(* reads: a code says of the account what the procedure found.  A failed   *)
(* ODBC call reports 1 as well, so a client with a good account is told    *)
(* INVALID_ACCOUNT, and one that signs up DUPLICATE_ACCOUNT.               *)
(***************************************************************************)
CodesTrue == \A i \in DOMAIN told : Holds(told[i])

(* What SUCCESS says of the table tab, as far as the columns were read.    *)
StoredRead(j, n, unread, tab) ==
    \E u \in tab : /\ u.account = j.account /\ u.password = j.password
                   /\ "userNo" \in unread \/ u.userNo = n

(***************************************************************************)
(* When column 1 was bound, the answer a client gets is true, whatever was *)
(* answered before: SUCCESS means stored, with the account and password of *)
(* the request and under the number told (if column 2 was bound too), and  *)
(* never comes from a failed call; a refusal has its reason in the table,  *)
(* unless SQLAllocHandle, SQLExecDirect or SQLFetch failed.  A failed      *)
(* SQLBindParameter shows as a failed SQLExecDirect.                       *)
(***************************************************************************)
AnswerTrue(t) ==
    /\ t.code = "SUCCESS" => StoredRead(t.job, t.userNo, t.unread, users)
    /\ t.failed \/ Holds(t)

AnswersTrue == \A i \in DOMAIN told : "result" \in told[i].unread \/ AnswerTrue(told[i])

(***************************************************************************)
(* Every job pushed to a running worker gets its result, whatever the ODBC *)
(* calls return, and also when Stop comes first (the drain of WorkerLoop), *)
(* provided that every ODBC call returns.                                  *)
(***************************************************************************)
EveryJobAnswered ==
    \A n \in 1 .. MaxJobs :
        (thread = "running" /\ Len(asked) >= n) ~> (Len(told) + Len(results) >= n)

(***************************************************************************)
(* CDBWorker::Stop returns: the worker answers what is queued and ends, so *)
(* that main gets past WaitForSingleObject and frees the connection,       *)
(* provided that every ODBC call returns.                                  *)
(***************************************************************************)
WorkerStops == main = "join" ~> (main = "done" /\ handles = {})

(***************************************************************************)
(* The client of a server whose database worker did not start: its request *)
(* is taken (StartContent only logs the failure) and never answered.       *)
(***************************************************************************)
EveryRequestAnswered ==
    \A n \in 1 .. MaxJobs :
        (main = "serving" /\ Len(asked) >= n) ~> (Len(told) + Len(results) >= n)
=============================================================================
