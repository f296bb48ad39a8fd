------------------------- MODULE CDBConnectorProofs -------------------------
(***************************************************************************)
(* Proofs about CDBConnector, for any accounts, passwords, nicknames and   *)
(* any number of jobs: no ODBC handle is leaked or freed twice, and the    *)
(* answer a client gets is true of the table whenever the column it is     *)
(* read from was bound.                                                    *)
(***************************************************************************)
EXTENDS CDBConnector, FiniteSetTheorems, SequenceTheorems, TLAPS

Rows == [userNo : Nat, account : Accounts, password : Passwords,
         nickname : Nicknames]
Tables == {tab \in SUBSET Rows : IsFiniteSet(tab)}
Selected == [result : {0, 1, 2}, userNo : Nat]
Answer(codes) == [job : Job, failed : BOOLEAN, seen : SUBSET Rows,
                  unread : SUBSET Columns, code : codes, userNo : Nat]

Codes == {"SUCCESS", "INVALID_ACCOUNT", "DUPLICATE_ACCOUNT", "INVALID_PASSWORD",
          "DUPLICATE_NICKNAME", "FAIL"}

(* The data the worker handles. *)
DataInv ==
  /\ users \in Tables
  /\ job \in Job \cup {NoJob} /\ (step # "pop" => job \in Job)
  /\ row \in Selected
  /\ jobs \in Seq(Job)
  /\ results \in Seq(Answer({0, 1, 2}))
  /\ told \in Seq(Answer(Codes))

(* How far Start and Stop are, and what that says of the connection and of *)
(* the worker thread: a call is under way only while the worker runs, and  *)
(* the worker runs only while the connection is open.                      *)
PhaseInv ==
  /\ {hEnv, hDbc, isConnected, isRun} \subseteq BOOLEAN
  /\ main \in {"AllocEnv", "SetEnvAttr", "AllocDbc", "DriverConnect", "BeginThread",
               "serving", "join", "destroy", "done"}
  /\ main = "AllocEnv" => ~hEnv /\ ~hDbc
  /\ main \in {"SetEnvAttr", "AllocDbc"} => hEnv /\ ~hDbc
  /\ main \in {"DriverConnect", "BeginThread"} => hEnv /\ hDbc
  /\ isConnected => hEnv /\ hDbc
  /\ main = "BeginThread" => isConnected
  /\ step \in {"pop", "AllocStmt", "BindParam", "Exec", "BindCol", "Fetch"}
  /\ step # "pop" => thread = "running"
  /\ thread = "running" =>
       /\ main \in {"serving", "join"} /\ isConnected
       /\ main = "serving" => isRun

(* What the result code of job j says of the table tab; a success says     *)
(* that the account is stored, with the password and under the number.     *)
Stored(j, n, tab) ==
  \E u \in tab : u.userNo = n /\ u.account = j.account /\ u.password = j.password

Reason(j, code, tab) ==
  /\ j.type = Login /\ code = 1 => \A u \in tab : u.account # j.account
  /\ j.type = Login /\ code = 2 =>
       \E u \in tab : u.account = j.account /\ u.password # j.password
  /\ j.type = SignUp /\ code = 1 => \E u \in tab : u.account = j.account
  /\ j.type = SignUp /\ code = 2 =>
       \E u \in tab : u.nickname = j.nickname /\ u.account # j.account

(* The row the procedure selected, the results in the queue and the        *)
(* answers already given are true.                                         *)
RowTrue ==
  step \in {"BindCol", "Fetch"} =>
    /\ row.result = 0 => Stored(job, row.userNo, users)
    /\ Reason(job, row.result, users)

ResultTrue(r, tab) ==
  \/ "result" \in r.unread
  \/ /\ r.code = 0 => StoredRead(r.job, r.userNo, r.unread, tab)
     /\ r.failed \/ Reason(r.job, r.code, r.seen)

ToldTrue(a, tab) ==
  \/ "result" \in a.unread
  \/ /\ a.code = "SUCCESS" => StoredRead(a.job, a.userNo, a.unread, tab)
     /\ a.failed \/ Holds(a)

TrueInv ==
  /\ RowTrue
  /\ \A i \in 1 .. Len(results) : ResultTrue(results[i], users)
  /\ \A i \in 1 .. Len(told) : ToldTrue(told[i], users)

IInv == DataInv /\ PhaseInv /\ HandlesExact /\ TrueInv
-----------------------------------------------------------------------------
(* A step that leaves the data alone. *)
LEMMA DataKept ==
  ASSUME DataInv, TrueInv,
         UNCHANGED <<users, job, step, row, jobs, results, told>>
  PROVE  DataInv' /\ TrueInv'
<1>1. DataInv'
  BY DEF DataInv
<1>2. RowTrue'
  BY DEF TrueInv, RowTrue
<1> QED
  BY <1>1, <1>2 DEF TrueInv

(* Every step of main keeps the data.                                      *)
LEMMA MainData ==
  ASSUME DataInv, TrueInv,
         Connect \/ (\E ok \in BOOLEAN : BeginThread(ok)) \/ Stop \/ StopJoin \/ Destroy
  PROVE  DataInv' /\ TrueInv'
<1>1. UNCHANGED <<users, job, step, row, jobs, results, told>>
  BY DEF Connect, AllocEnv, SetEnvAttr, AllocDbc, DriverConnect, BeginThread, Stop,
         StopJoin, Destroy, Quiet, workVars
<1> QED
  BY <1>1, DataKept

(* CDBConnector::Connect: each failure frees what was allocated before.    *)
LEMMA ConnectHandles ==
  ASSUME PhaseInv, HandlesExact, Connect
  PROVE  PhaseInv' /\ HandlesExact'
<1>0. PICK ok \in BOOLEAN :
        AllocEnv(ok) \/ SetEnvAttr(ok) \/ AllocDbc(ok) \/ DriverConnect(ok)
  BY DEF Connect
<1>1. UNCHANGED <<isRun, step, thread>> /\ step = "pop" /\ thread # "running"
  BY <1>0 DEF AllocEnv, SetEnvAttr, AllocDbc, DriverConnect, Quiet, workVars, PhaseInv
<1>2. CASE AllocEnv(ok)
  <2>1. PhaseInv'
    BY <1>1, <1>2 DEF AllocEnv, PhaseInv
  <2>2. HandlesExact'
    BY <1>1, <1>2 DEF AllocEnv, PhaseInv, HandlesExact
  <2> QED
    BY <2>1, <2>2
<1>3. CASE SetEnvAttr(ok)
  <2>1. PhaseInv'
    BY <1>1, <1>3 DEF SetEnvAttr, PhaseInv
  <2>2. HandlesExact'
    BY <1>1, <1>3 DEF SetEnvAttr, PhaseInv, HandlesExact
  <2> QED
    BY <2>1, <2>2
<1>4. CASE AllocDbc(ok)
  <2>1. PhaseInv'
    BY <1>1, <1>4 DEF AllocDbc, PhaseInv
  <2>2. HandlesExact'
    BY <1>1, <1>4 DEF AllocDbc, PhaseInv, HandlesExact
  <2> QED
    BY <2>1, <2>2
<1>5. CASE DriverConnect(ok)
  <2>1. PhaseInv'
    BY <1>1, <1>5 DEF DriverConnect, PhaseInv
  <2>2. HandlesExact'
    BY <1>1, <1>5 DEF DriverConnect, PhaseInv, HandlesExact
  <2> QED
    BY <2>1, <2>2
<1> QED
  BY <1>0, <1>2, <1>3, <1>4, <1>5

(* Start's thread, Stop and the destructors: the connection is closed only *)
(* when the worker is at rest.                                             *)
LEMMA StopHandles ==
  ASSUME PhaseInv, HandlesExact,
         (\E ok \in BOOLEAN : BeginThread(ok)) \/ Stop \/ StopJoin \/ Destroy
  PROVE  PhaseInv' /\ HandlesExact'
<1>1. ASSUME NEW ok \in BOOLEAN, BeginThread(ok)
      PROVE  PhaseInv' /\ HandlesExact'
  <2>1. step = "pop" /\ step' = step
    BY <1>1 DEF BeginThread, PhaseInv
  <2>2. PhaseInv'
    BY <1>1, <2>1 DEF BeginThread, PhaseInv, Disconnect, connVars
  <2>3. HandlesExact'
    BY <1>1, <2>1 DEF BeginThread, PhaseInv, HandlesExact, Disconnect, connVars
  <2> QED
    BY <2>2, <2>3
<1>2. CASE Stop
  <2>1. PhaseInv'
    BY <1>2 DEF Stop, PhaseInv, connVars, workVars
  <2>2. HandlesExact'
    BY <1>2 DEF Stop, HandlesExact, connVars, workVars
  <2> QED
    BY <2>1, <2>2
<1>3. CASE StopJoin \/ Destroy
  <2>1. step = "pop" /\ step' = step /\ thread' = thread /\ thread # "running"
    BY <1>3 DEF StopJoin, Destroy, PhaseInv, workVars
  <2>2. PhaseInv'
    BY <1>3, <2>1 DEF StopJoin, Destroy, PhaseInv, Disconnect
  <2>3. HandlesExact'
    BY <1>3, <2>1 DEF StopJoin, Destroy, HandlesExact, Disconnect, PhaseInv
  <2> QED
    BY <2>2, <2>3
<1> QED
  BY <1>1, <1>2, <1>3

(* The worker and the Update thread: a statement handle is open exactly    *)
(* while a bind, SQLExecDirect or SQLFetch of a connected worker is to     *)
(* come.                                                                   *)
LEMMA WorkHandles ==
  ASSUME PhaseInv, HandlesExact, WorkerLoop \/ Update
  PROVE  PhaseInv' /\ HandlesExact'
<1>1. CASE Update
  <2>1. UNCHANGED <<connVars, main, isRun, workVars>>
    BY <1>1 DEF Update, PopResult, PushJob
  <2> QED
    BY <2>1 DEF PhaseInv, HandlesExact, connVars, workVars
<1>2. CASE popJob \/ WorkerEnds
  <2>1. PhaseInv'
    BY <1>2 DEF popJob, WorkerEnds, PhaseInv, connVars
  <2>2. HandlesExact'
    BY <1>2 DEF popJob, WorkerEnds, HandlesExact, connVars
  <2> QED
    BY <2>1, <2>2
<1>3. ASSUME NEW ok \in BOOLEAN, Call(ok)
      PROVE  PhaseInv' /\ HandlesExact'
  <2>0. UNCHANGED <<hEnv, hDbc, isConnected, main, isRun, thread>>
    BY <1>3 DEF Call, AllocStmt, BindParam, Exec, BindCol, Fetch, connVars
  <2>1. CASE AllocStmt(ok)
    <3>1. thread = "running" /\ isConnected /\ hDbc /\ step' \in {"BindParam", "pop"}
      BY <2>1 DEF AllocStmt, PhaseInv, pushResult
    <3>2. HandlesExact'
      BY <2>0, <2>1, <3>1 DEF AllocStmt, HandlesExact, pushResult
    <3> QED
      BY <2>0, <3>1, <3>2 DEF PhaseInv
  <2>2. ASSUME NEW ran \in BOOLEAN, Exec(ran, ok)
        PROVE  PhaseInv' /\ HandlesExact'
    <3>1. /\ thread = "running" /\ hDbc
          /\ \/ step' = "BindCol" /\ handles' = handles
             \/ step' = "pop" /\ handles' = handles \ {"stmt"}
      BY <2>2 DEF Exec, PhaseInv, pushResult
    <3>2. HandlesExact'
      BY <2>0, <2>2, <3>1 DEF Exec, HandlesExact
    <3> QED
      BY <2>0, <3>1, <3>2 DEF PhaseInv
  <2>3. CASE Fetch(ok)
    <3>1. /\ thread = "running" /\ hDbc /\ step' = "pop"
          /\ handles' = handles \ {"stmt"}
      BY <2>3 DEF Fetch, PhaseInv, pushResult
    <3>2. HandlesExact'
      BY <2>0, <2>3, <3>1 DEF Fetch, HandlesExact
    <3> QED
      BY <2>0, <3>1, <3>2 DEF PhaseInv
  <2>4. CASE BindParam(ok) \/ \E cols \in SUBSET Columns : BindCol(cols)
    <3>1. /\ thread = "running" /\ hDbc /\ handles' = handles
          /\ \/ step = "BindParam" /\ step' = "Exec"
             \/ step = "BindCol" /\ step' = "Fetch"
      BY <2>4 DEF BindParam, BindCol, PhaseInv, connVars
    <3>2. HandlesExact'
      BY <2>0, <3>1 DEF HandlesExact
    <3> QED
      BY <2>0, <3>1, <3>2 DEF PhaseInv
  <2> QED
    BY <1>3, <2>1, <2>2, <2>3, <2>4 DEF Call
<1> QED
  BY <1>1, <1>2, <1>3 DEF WorkerLoop, processLogin, processSignUp
-----------------------------------------------------------------------------
(* The stored procedures and the codes *)

(* A row that was stored stays stored: nothing is deleted. *)
LEMMA StoredReadGrows ==
  ASSUME NEW j, NEW n, NEW unread, NEW tab, NEW more, tab \subseteq more,
         StoredRead(j, n, unread, tab)
  PROVE  StoredRead(j, n, unread, more)
BY DEF StoredRead

(* sp_Login says of the table what its result code stands for. *)
LEMMA LoginTrue ==
  ASSUME NEW j \in Job, j.type = Login, NEW tab \in Tables
  PROVE  /\ sp_Login(j, tab) \in Selected
         /\ sp_Login(j, tab).result = 0 => Stored(j, sp_Login(j, tab).userNo, tab)
         /\ Reason(j, sp_Login(j, tab).result, tab)
<1> DEFINE found == {u \in tab : u.account = j.account}
<1>1. Login # SignUp
  BY DEF Login, SignUp
<1>2. CASE found = {}
  <2>1. sp_Login(j, tab) = [result |-> 1, userNo |-> 0]
    BY <1>2 DEF sp_Login
  <2> QED
    BY <1>1, <1>2, <2>1 DEF Reason, Selected
<1>3. CASE found # {} /\ \E u \in found : u.password # j.password
  <2>1. sp_Login(j, tab) = [result |-> 2, userNo |-> 0]
    BY <1>3 DEF sp_Login
  <2> QED
    BY <1>1, <1>3, <2>1 DEF Reason, Selected
<1>4. CASE found # {} /\ ~\E u \in found : u.password # j.password
  <2> DEFINE v == CHOOSE u \in found : TRUE
  <2>1. sp_Login(j, tab) = [result |-> 0, userNo |-> v.userNo]
    BY <1>4 DEF sp_Login
  <2>2. v \in found
    BY <1>4
  <2> HIDE DEF v
  <2>3. v \in tab /\ v.account = j.account /\ v.password = j.password /\ v.userNo \in Nat
    BY <1>4, <2>2 DEF Rows, Tables
  <2>4. Stored(j, v.userNo, tab)
    BY <2>3 DEF Stored
  <2> QED
    BY <1>1, <2>1, <2>3, <2>4 DEF Reason, Selected
<1> QED
  BY <1>2, <1>3, <1>4

(* sp_SignUp says of the table, with the row it inserted, what its result  *)
(* code stands for.                                                        *)
LEMMA SignUpTrue ==
  ASSUME NEW j \in Job, j.type = SignUp, NEW tab \in Tables,
         NEW r, r = sp_SignUp(j, tab), NEW more, more = tab \cup Inserted(j, r)
  PROVE  /\ r \in Selected
         /\ more \in Tables
         /\ r.result = 0 => Stored(j, r.userNo, more)
         /\ Reason(j, r.result, more)
<1>1. /\ Login # SignUp /\ Cardinality(tab) \in Nat
      /\ j \in [type : {SignUp}, account : Accounts, password : Passwords,
                nickname : Nicknames]
  BY FS_CardinalityType DEF Login, SignUp, Job, Tables
<1>2. CASE \E u \in tab : u.account = j.account
  <2>1. r = [result |-> 1, userNo |-> 0]
    BY <1>2 DEF sp_SignUp
  <2>2. more = tab
    BY <2>1 DEF Inserted
  <2>3. Reason(j, 1, tab)
    BY <1>1, <1>2 DEF Reason
  <2>4. r \in Selected /\ r.result # 0
    BY <2>1 DEF Selected
  <2> QED
    BY <2>1, <2>2, <2>3, <2>4
<1>3. CASE (~\E u \in tab : u.account = j.account) /\ \E u \in tab : u.nickname = j.nickname
  <2>1. r = [result |-> 2, userNo |-> 0]
    BY <1>3 DEF sp_SignUp
  <2>2. more = tab
    BY <2>1 DEF Inserted
  <2>3. Reason(j, 2, tab)
    BY <1>1, <1>3 DEF Reason
  <2>4. r \in Selected /\ r.result # 0
    BY <2>1 DEF Selected
  <2> QED
    BY <2>1, <2>2, <2>3, <2>4
<1>4. CASE (~\E u \in tab : u.account = j.account) /\ ~\E u \in tab : u.nickname = j.nickname
  <2>1. r = [result |-> 0, userNo |-> Cardinality(tab) + 1]
    BY <1>4 DEF sp_SignUp
  <2>2. r \in Selected /\ r.result = 0 /\ r.userNo \in Nat
    BY <1>1, <2>1 DEF Selected
  <2>3. PICK new : new = [userNo |-> r.userNo, account |-> j.account,
                          password |-> j.password, nickname |-> j.nickname]
    OBVIOUS
  <2>4. more = tab \cup {new}
    BY <2>2, <2>3 DEF Inserted
  <2>5. /\ new \in Rows /\ new.userNo = r.userNo
        /\ new.account = j.account /\ new.password = j.password
    BY <1>1, <2>2, <2>3 DEF Rows
  <2>6. more \in Tables
    BY <2>4, <2>5, FS_AddElement, SMTT(30) DEF Tables
  <2>7. Stored(j, r.userNo, more)
    BY <2>4, <2>5 DEF Stored
  <2>8. Reason(j, r.result, more)
    BY <2>2 DEF Reason
  <2> QED
    BY <2>2, <2>6, <2>7, <2>8
<1> QED
  BY <1>2, <1>3, <1>4

(* MapLoginResult and MapSignUpResult: SUCCESS stands for 0 only, and each *)
(* refusal for the reason the procedure had.                               *)
LEMMA MapTrue ==
  ASSUME NEW a \in Answer(Codes), NEW code \in {0, 1, 2},
         a.code = MapResult(a.job.type, code)
  PROVE  /\ a.code = "SUCCESS" => code = 0
         /\ Reason(a.job, code, a.seen) => Holds(a)
<1>1. a.job.type \in {Login, SignUp} /\ Login # SignUp
  BY DEF Answer, Job, Login, SignUp
<1>2. CASE code = 0
  <2>1. a.code = "SUCCESS"
    BY <1>2 DEF MapResult
  <2> QED
    BY <1>2, <2>1 DEF Holds
<1>3. CASE code = 1 /\ a.job.type = Login
  <2>1. a.code = "INVALID_ACCOUNT"
    BY <1>3 DEF MapResult
  <2> QED
    BY <1>3, <2>1 DEF Holds, Reason
<1>4. CASE code = 1 /\ a.job.type = SignUp
  <2>1. a.code = "DUPLICATE_ACCOUNT"
    BY <1>1, <1>4 DEF MapResult
  <2> QED
    BY <1>4, <2>1 DEF Holds, Reason
<1>5. CASE code = 2 /\ a.job.type = Login
  <2>1. a.code = "INVALID_PASSWORD"
    BY <1>5 DEF MapResult
  <2> QED
    BY <1>5, <2>1 DEF Holds, Reason
<1>6. CASE code = 2 /\ a.job.type = SignUp
  <2>1. a.code = "DUPLICATE_NICKNAME"
    BY <1>1, <1>6 DEF MapResult
  <2> QED
    BY <1>6, <2>1 DEF Holds, Reason
<1> QED
  BY <1>1, <1>2, <1>3, <1>4, <1>5, <1>6
-----------------------------------------------------------------------------
(* The queues *)

(* What a queue holds after PushJob, pushResult or the answer to a client. *)
LEMMA AppendEntries ==
  ASSUME NEW S, NEW q \in Seq(S), NEW x \in S
  PROVE  /\ Append(q, x) \in Seq(S)
         /\ \A i \in 1 .. Len(Append(q, x)) :
              \/ i \in 1 .. Len(q) /\ Append(q, x)[i] = q[i]
              \/ Append(q, x)[i] = x
<1>1. /\ Append(q, x) \in Seq(S) /\ Len(Append(q, x)) = Len(q) + 1 /\ Len(q) \in Nat
      /\ \A i \in 1 .. Len(q) : Append(q, x)[i] = q[i]
      /\ Append(q, x)[Len(q) + 1] = x
  BY AppendProperties
<1> QED
  BY <1>1

(* What a queue holds after a pop. *)
LEMMA TailEntries ==
  ASSUME NEW S, NEW q \in Seq(S), q # <<>>
  PROVE  /\ Tail(q) \in Seq(S) /\ Head(q) \in S
         /\ 1 \in 1 .. Len(q) /\ Head(q) = q[1]
         /\ \A i \in 1 .. Len(Tail(q)) : i + 1 \in 1 .. Len(q) /\ Tail(q)[i] = q[i + 1]
BY HeadTailProperties

(* A result stays true when the table grows. *)
LEMMA TruthGrows ==
  ASSUME NEW tab, NEW more, tab \subseteq more, NEW r
  PROVE  /\ ResultTrue(r, tab) => ResultTrue(r, more)
         /\ ToldTrue(r, tab) => ToldTrue(r, more)
BY StoredReadGrows DEF ResultTrue, ToldTrue

(* processLogin and processSignUp: the result pushed is true. *)
LEMMA PushTrue ==
  ASSUME DataInv, TrueInv, NEW ok \in BOOLEAN, NEW r \in Selected,
         NEW unread \in SUBSET Columns, job \in Job,
         users \subseteq users', users' \in Tables,
         ok => /\ users' = users
               /\ \/ "result" \in unread
                  \/ /\ r.result = 0 => StoredRead(job, r.userNo, unread, users)
                     /\ Reason(job, r.result, users),
         pushResult(ok, r, unread), UNCHANGED <<jobs, told>>
  PROVE  DataInv' /\ TrueInv'
<1>1. PICK x : x = [job |-> job, failed |-> ~ok, seen |-> users,
                    unread |-> IF ok THEN unread ELSE {},
                    code |-> IF ok THEN r.result ELSE 1,
                    userNo |-> IF ok THEN r.userNo ELSE 0]
  OBVIOUS
<1>2. /\ results' = Append(results, x) /\ job' = NoJob /\ row' = NoRow /\ step' = "pop"
      /\ bound' = {}
  BY <1>1 DEF pushResult
<1>3. /\ r.result \in {0, 1, 2} /\ r.userNo \in Nat
      /\ results \in Seq(Answer({0, 1, 2}))
  BY DEF Selected, DataInv
<1>4. x \in Answer({0, 1, 2})
  BY <1>1, <1>3 DEF Answer, DataInv, Tables
<1>5. ResultTrue(x, users')
  <2>1. CASE ok
    <3>1. /\ x.job = job /\ x.failed = FALSE /\ x.seen = users /\ x.code = r.result
          /\ x.userNo = r.userNo /\ x.unread = unread
      BY <1>1, <2>1
    <3> QED
      BY <2>1, <3>1 DEF ResultTrue
  <2>2. CASE ~ok
    <3>1. x.failed = TRUE /\ x.code = 1
      BY <1>1, <2>2
    <3> QED
      BY <3>1 DEF ResultTrue
  <2> QED
    BY <2>1, <2>2
<1>6. /\ results' \in Seq(Answer({0, 1, 2}))
      /\ \A i \in 1 .. Len(results') : ResultTrue(results'[i], users')
  <2>1. \A i \in 1 .. Len(results) : ResultTrue(results[i], users')
    BY TruthGrows DEF TrueInv
  <2> QED
    BY <1>2, <1>3, <1>4, <1>5, <2>1, AppendEntries
<1>7. \A i \in 1 .. Len(told') : ToldTrue(told'[i], users')
  BY TruthGrows DEF TrueInv
<1>8. DataInv'
  BY <1>2, <1>6 DEF DataInv, NoRow, Selected
<1>9. RowTrue'
  BY <1>2 DEF RowTrue
<1> QED
  BY <1>6, <1>7, <1>8, <1>9 DEF TrueInv

(* The stored procedure a job runs: its row is true, and the table only    *)
(* grows.                                                                  *)
LEMMA ProcedureTrue ==
  ASSUME NEW j \in Job, NEW tab \in Tables,
         NEW r, r = sp(j, tab), NEW more, more = tab \cup Inserted(j, r)
  PROVE  /\ r \in Selected
         /\ tab \subseteq more /\ more \in Tables
         /\ r.result = 0 => Stored(j, r.userNo, more)
         /\ Reason(j, r.result, more)
<1>1. j.type \in {Login, SignUp} /\ Login # SignUp
  BY DEF Job, Login, SignUp
<1>2. CASE j.type = Login
  <2>1. r = sp_Login(j, tab) /\ more = tab
    BY <1>1, <1>2 DEF sp, Inserted
  <2> QED
    BY <1>2, <2>1, LoginTrue
<1>3. CASE j.type = SignUp
  <2>1. r = sp_SignUp(j, tab)
    BY <1>1, <1>3 DEF sp
  <2>2. tab \subseteq more
    OBVIOUS
  <2>3. /\ r \in Selected
        /\ more \in Tables
        /\ r.result = 0 => Stored(j, r.userNo, more)
        /\ Reason(j, r.result, more)
    BY <1>3, <2>1, SignUpTrue
  <2> QED
    BY <2>2, <2>3
<1> QED
  BY <1>1, <1>2, <1>3

(* The ODBC calls of a job. *)
LEMMA CallData ==
  ASSUME DataInv, TrueInv, NEW ok \in BOOLEAN, Call(ok)
  PROVE  DataInv' /\ TrueInv'
<1>0. NoRow \in Selected
  BY DEF NoRow, Selected
<1>1. CASE AllocStmt(ok)
  <2>0. UNCHANGED <<jobs, users, told>> /\ job \in Job /\ step = "AllocStmt"
    BY <1>1 DEF AllocStmt, DataInv
  <2>1. CASE isConnected /\ ok
    <3>1. UNCHANGED <<job, row, bound, results>> /\ step' = "BindParam"
      BY <1>1, <2>1 DEF AllocStmt
    <3>2. DataInv'
      BY <2>0, <3>1 DEF DataInv
    <3>3. TrueInv'
      BY <2>0, <3>1 DEF TrueInv, RowTrue
    <3> QED
      BY <3>2, <3>3
  <2>2. CASE ~(isConnected /\ ok)
    <3>1. pushResult(FALSE, NoRow, {})
      BY <1>1, <2>2 DEF AllocStmt
    <3>2. users \subseteq users' /\ users' \in Tables
      BY <2>0 DEF DataInv
    <3> QED
      BY <1>0, <2>0, <3>1, <3>2, PushTrue
  <2> QED
    BY <2>1, <2>2
<1>2. ASSUME NEW ran \in BOOLEAN, Exec(ran, ok)
      PROVE  DataInv' /\ TrueInv'
  <2>0. UNCHANGED <<jobs, told>> /\ job \in Job /\ step = "Exec"
    BY <1>2 DEF Exec, DataInv
  <2>1. PICK r : r = sp(job, users)
    OBVIOUS
  <2>2. PICK more : more = users \cup Inserted(job, r)
    OBVIOUS
  <2>3. /\ r \in Selected
        /\ users \subseteq more /\ more \in Tables
        /\ r.result = 0 => Stored(job, r.userNo, more)
        /\ Reason(job, r.result, more)
    <3>1. users \in Tables
      BY DEF DataInv
    <3> QED
      BY <2>0, <2>1, <2>2, <3>1, ProcedureTrue
  <2>4. users' = (IF ran THEN more ELSE users)
    BY <1>2, <2>1, <2>2 DEF Exec
  <2>5. users \subseteq users' /\ users' \in Tables
    BY <2>3, <2>4 DEF DataInv
  <2>6. CASE ok
    <3>1. /\ users' = more /\ row' = r /\ step' = "BindCol" /\ UNCHANGED <<job, results>>
      BY <1>2, <2>1, <2>4, <2>6 DEF Exec
    <3>2. DataInv'
      BY <2>0, <2>3, <2>5, <3>1 DEF DataInv
    <3>3. RowTrue'
      BY <2>3, <3>1 DEF RowTrue
    <3>4. /\ \A i \in 1 .. Len(results') : ResultTrue(results'[i], users')
          /\ \A i \in 1 .. Len(told') : ToldTrue(told'[i], users')
      BY <2>0, <2>5, <3>1, TruthGrows DEF TrueInv
    <3> QED
      BY <3>2, <3>3, <3>4 DEF TrueInv
  <2>7. CASE ~ok
    <3>1. pushResult(FALSE, NoRow, {})
      BY <1>2, <2>7 DEF Exec
    <3> QED
      BY <1>0, <2>0, <2>5, <3>1, PushTrue
  <2> QED
    BY <2>6, <2>7
<1>3. CASE Fetch(ok)
  <2>1. UNCHANGED <<jobs, users, told>> /\ job \in Job /\ step = "Fetch" /\ row \in Selected
    BY <1>3 DEF Fetch, DataInv
  <2>2. users \subseteq users' /\ users' \in Tables
    BY <2>1 DEF DataInv
  <2>3. /\ row.result = 0 => Stored(job, row.userNo, users)
        /\ Reason(job, row.result, users)
    BY <2>1 DEF TrueInv, RowTrue
  <2>4. PICK r, unread : r = Fetched /\ unread = Columns \ bound
    OBVIOUS
  <2>5. /\ r \in Selected /\ unread \in SUBSET Columns
        /\ "result" \notin unread => r.result = row.result
        /\ "userNo" \notin unread => r.userNo = row.userNo
    <3>1. r = [result |-> IF "result" \in bound THEN row.result ELSE 0,
               userNo |-> IF "userNo" \in bound THEN row.userNo ELSE 0]
      BY <2>4 DEF Fetched, Columns
    <3>2. /\ r.result = (IF "result" \in bound THEN row.result ELSE 0)
          /\ r.userNo = (IF "userNo" \in bound THEN row.userNo ELSE 0)
          /\ row.result \in {0, 1, 2} /\ row.userNo \in Nat
      BY <2>1, <3>1 DEF Selected
    <3>3. r \in Selected
      BY <3>1, <3>2 DEF Selected
    <3> QED
      BY <2>4, <3>2, <3>3 DEF Columns
  <2>6. \/ "result" \in unread
        \/ /\ r.result = 0 => StoredRead(job, r.userNo, unread, users)
           /\ Reason(job, r.result, users)
    BY <2>3, <2>5 DEF Stored, StoredRead
  <2>7. pushResult(ok, r, unread)
    BY <1>3, <2>4 DEF Fetch
  <2> QED
    BY <2>1, <2>2, <2>5, <2>6, <2>7, PushTrue
<1>4. CASE BindParam(ok) \/ \E cols \in SUBSET Columns : BindCol(cols)
  <2>1. /\ UNCHANGED <<job, row, jobs, results, users, told>> /\ step # "pop"
        /\ step' \in {"Exec", "Fetch"} /\ (step' = "Fetch" => step = "BindCol")
    BY <1>4 DEF BindParam, BindCol
  <2>2. DataInv'
    BY <2>1 DEF DataInv
  <2>3. RowTrue'
    BY <2>1 DEF TrueInv, RowTrue
  <2> QED
    BY <2>1, <2>2, <2>3 DEF TrueInv
<1> QED
  BY <1>1, <1>2, <1>3, <1>4 DEF Call

(* The queue ends of the worker and the Update thread. *)
LEMMA QueueData ==
  ASSUME DataInv, TrueInv, popJob \/ WorkerEnds \/ Update
  PROVE  DataInv' /\ TrueInv'
<1>1. CASE popJob
  <2>1. /\ job' = Head(jobs) /\ jobs' = Tail(jobs) /\ jobs # <<>> /\ row' = NoRow
        /\ step' = "AllocStmt" /\ UNCHANGED <<results, users, told>>
    BY <1>1 DEF popJob
  <2>2. job' \in Job /\ jobs' \in Seq(Job)
    BY <2>1, TailEntries DEF DataInv
  <2>3. DataInv'
    BY <2>1, <2>2 DEF DataInv, NoRow, Selected
  <2>4. TrueInv'
    BY <2>1 DEF TrueInv, RowTrue
  <2> QED
    BY <2>3, <2>4
<1>2. CASE WorkerEnds
  <2>1. UNCHANGED <<users, job, step, row, jobs, results, told>>
    BY <1>2 DEF WorkerEnds
  <2> QED
    BY <2>1, DataKept
<1>3. ASSUME NEW j \in Job, PushJob(j)
      PROVE  DataInv' /\ TrueInv'
  <2>1. jobs' = Append(jobs, j) /\ UNCHANGED <<users, job, step, row, results, told>>
    BY <1>3 DEF PushJob, workVars
  <2>2. jobs' \in Seq(Job)
    BY <2>1, AppendEntries DEF DataInv
  <2>3. DataInv'
    BY <2>1, <2>2 DEF DataInv
  <2>4. TrueInv'
    BY <2>1 DEF TrueInv, RowTrue
  <2> QED
    BY <2>3, <2>4
<1>4. CASE PopResult
  <2>1. PICK r : r = Head(results)
    OBVIOUS
  <2>2. PICK a : a = [r EXCEPT !.code = MapResult(r.job.type, r.code)]
    OBVIOUS
  <2>3. /\ results # <<>> /\ results' = Tail(results) /\ told' = Append(told, a)
        /\ UNCHANGED <<users, job, step, row, jobs>>
    BY <1>4, <2>1, <2>2 DEF PopResult, workVars
  <2>4. results \in Seq(Answer({0, 1, 2})) /\ told \in Seq(Answer(Codes))
    BY DEF DataInv
  <2>5. /\ r \in Answer({0, 1, 2}) /\ results' \in Seq(Answer({0, 1, 2}))
        /\ ResultTrue(r, users)
        /\ \A i \in 1 .. Len(results') : ResultTrue(results'[i], users')
    BY <2>1, <2>3, <2>4, TailEntries DEF TrueInv
  <2>6. r.code \in {0, 1, 2}
    BY <2>5 DEF Answer
  <2>7. MapResult(r.job.type, r.code) \in Codes
    <3>1. CASE r.code = 0
      BY <3>1 DEF MapResult, Codes
    <3>2. CASE r.code = 1
      BY <3>2 DEF MapResult, Codes
    <3>3. CASE r.code = 2
      BY <3>3 DEF MapResult, Codes
    <3> QED
      BY <2>6, <3>1, <3>2, <3>3
  <2>8. /\ a \in Answer(Codes) /\ a.code = MapResult(a.job.type, r.code)
        /\ a.job = r.job /\ a.failed = r.failed /\ a.seen = r.seen /\ a.userNo = r.userNo
        /\ a.unread = r.unread
    BY <2>2, <2>5, <2>7 DEF Answer
  <2>9. ToldTrue(a, users)
    BY <2>5, <2>6, <2>8, MapTrue DEF ResultTrue, ToldTrue
  <2>10. /\ told' \in Seq(Answer(Codes))
         /\ \A i \in 1 .. Len(told') : ToldTrue(told'[i], users')
    BY <2>3, <2>4, <2>8, <2>9, AppendEntries DEF TrueInv
  <2>11. DataInv'
    BY <2>3, <2>5, <2>10 DEF DataInv
  <2>12. RowTrue'
    BY <2>3 DEF TrueInv, RowTrue
  <2> QED
    BY <2>5, <2>10, <2>11, <2>12 DEF TrueInv
<1> QED
  BY <1>1, <1>2, <1>3, <1>4 DEF Update
-----------------------------------------------------------------------------
(* Initially nothing is open and nothing was asked. *)
LEMMA InitIInv == Init => IInv
<1> SUFFICES ASSUME Init PROVE IInv
  OBVIOUS
<1>1. DataInv
  <2>1. users \in Tables
    BY FS_EmptySet DEF Init, Tables
  <2> QED
    BY <2>1 DEF Init, DataInv, NoRow, Selected
<1>2. PhaseInv /\ HandlesExact
  BY DEF Init, PhaseInv, HandlesExact
<1>3. TrueInv
  BY DEF Init, TrueInv, RowTrue
<1> QED
  BY <1>1, <1>2, <1>3 DEF IInv

(* Every step of main, the worker and the Update thread keeps IInv. *)
LEMMA NextIInv == IInv /\ [Next]_vars => IInv'
<1> SUFFICES ASSUME IInv, [Next]_vars PROVE IInv'
  OBVIOUS
<1> USE DEF IInv
<1>1. CASE Connect
  BY <1>1, ConnectHandles, MainData
<1>2. CASE (\E ok \in BOOLEAN : BeginThread(ok)) \/ Stop \/ StopJoin \/ Destroy
  BY <1>2, StopHandles, MainData
<1>3. CASE Update
  BY <1>3, WorkHandles, QueueData
<1>4. CASE WorkerLoop
  <2>1. popJob \/ WorkerEnds \/ \E ok \in BOOLEAN : Call(ok)
    BY <1>4 DEF WorkerLoop, processLogin, processSignUp
  <2> QED
    BY <1>4, <2>1, WorkHandles, QueueData, CallData
<1>5. CASE UNCHANGED vars
  <2>1. DataInv' /\ TrueInv'
    BY <1>5, DataKept DEF vars, workVars
  <2>2. PhaseInv' /\ HandlesExact'
    BY <1>5 DEF vars, workVars, connVars, PhaseInv, HandlesExact
  <2> QED
    BY <2>1, <2>2
<1> QED
  BY <1>1, <1>2, <1>3, <1>4, <1>5 DEF Next

(***************************************************************************)
(* The open ODBC handles are exactly those CDBConnector and the running    *)
(* call know, whichever ODBC call fails and whenever Stop comes: nothing   *)
(* is leaked and nothing is freed twice.                                   *)
(***************************************************************************)
THEOREM Handles == Spec => []HandlesExact
<1>1. IInv => HandlesExact
  BY DEF IInv
<1> QED
  BY <1>1, InitIInv, NextIInv, PTL DEF Spec

(***************************************************************************)
(* For any number of jobs, accounts and failures of ODBC calls: a client   *)
(* that was told SUCCESS from a column that was bound is in the table, and *)
(* a refusal that no failed call caused has its reason there.  (From a     *)
(* column that SQLBindCol did not bind, anybody is told SUCCESS.)          *)
(***************************************************************************)
THEOREM Answers == Spec => []AnswersTrue
<1>1. IInv => AnswersTrue
  <2> SUFFICES ASSUME IInv PROVE AnswersTrue
    OBVIOUS
  <2>1. DOMAIN told = 1 .. Len(told)
    BY DEF IInv, DataInv
  <2>2. \A i \in DOMAIN told : ToldTrue(told[i], users)
    BY <2>1 DEF IInv, TrueInv
  <2>3. ASSUME NEW i \in DOMAIN told, "result" \notin told[i].unread
        PROVE  AnswerTrue(told[i])
    <3>1. PICK t : t = told[i]
      OBVIOUS
    <3>2. ToldTrue(t, users) /\ "result" \notin t.unread
      BY <2>2, <2>3, <3>1
    <3>3. t.code = "SUCCESS" => StoredRead(t.job, t.userNo, t.unread, users)
      BY <3>2 DEF ToldTrue
    <3>4. t.failed \/ Holds(t)
      BY <3>2 DEF ToldTrue
    <3>5. AnswerTrue(t)
      BY <3>3, <3>4, Zenon DEF AnswerTrue
    <3> QED
      BY <3>1, <3>5
  <2> QED
    BY <2>3 DEF AnswersTrue
<1> QED
  BY <1>1, InitIInv, NextIInv, PTL DEF Spec
=============================================================================
