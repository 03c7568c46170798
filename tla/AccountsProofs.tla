--------------------------- MODULE AccountsProofs ---------------------------
(***************************************************************************)
(* Proofs about Accounts, for any people, any number of requests and any   *)
(* limits: every variable keeps its type and every request its order; the  *)
(* last admin falls only to two removals under way at once; a change of an *)
(* account or of the limits is committed with its record; a first admin    *)
(* only where nobody held the role; a reset or a disabling with the end of *)
(* the sessions that ran.                                                  *)
(*                                                                         *)
(* The argument: a transaction is the only writer of the rows it holds, so *)
(* what UnderWay says of it can be lost only by a step of its own or by a  *)
(* commit of another, and a commit changes no row another transaction      *)
(* holds.  Changes is the strengthening that matters: a transaction that   *)
(* makes an admin none of one leaves another, as it saw them, unless some  *)
(* removal has been committed since.                                       *)
(***************************************************************************)
EXTENDS Accounts, TLAPS, FiniteSetTheorems

USE ConstantsAssumption

-----------------------------------------------------------------------------
(* What the parts of a step are.                                           *)

\* A row seen by a transaction is a row: its own draft, or the committed one.
LEMMA RowSeenType ==
  ASSUME Typed, NEW r \in Requests, NEW u \in Users
  PROVE  RowSeen(r, u) \in Row
  BY DEF Typed, RowSeen, Transaction

\* The blank row, job and transaction are of their types.
LEMMA BlankTypes ==
  /\ NoRow \in Row
  /\ NoJob \in Job
  /\ NoTransaction \in Transaction
  BY DEF NoRow, Row, NoJob, Job, NoTransaction, Transaction, NoLimitChange, LimitChange,
         Patch, Role, Keep

\* Moving a request to a statement keeps the statements typed.
LEMMA GotoType ==
  ASSUME Typed, NEW r \in Requests, NEW label \in Labels, Goto(r, label)
  PROVE  pc' \in [Requests -> Labels]
  BY DEF Typed, Goto

\* One transaction replaced by another keeps the transactions typed.
LEMMA TransactionType ==
  ASSUME Typed, NEW r \in Requests, NEW t \in Transaction, tx' = [tx EXCEPT ![r] = t]
  PROVE  tx' \in [Requests -> Transaction]
  BY DEF Typed

\* Releasing a transaction's locks keeps the locks typed.
LEMMA ReleasedType ==
  ASSUME Typed, NEW r \in Requests
  PROVE  Released(r) \in [Users \union {Setting} -> Requests \union {NoOne}]
  BY DEF Typed, Released

\* A request given a job and moved to a statement of it leaves every request in order.
LEMMA OrderGiven ==
  ASSUME TypeOK, NEW r \in Requests, NEW j, NEW label,
         job' = [job EXCEPT ![r] = j], Goto(r, label), JobInOrder(j, label)
  PROVE  \A q \in Requests : JobInOrder(job[q], pc[q])'
<1>1. ASSUME NEW q \in Requests
      PROVE  JobInOrder(job'[q], pc'[q])
  <2>1. CASE q = r
    BY <2>1 DEF TypeOK, Typed, Goto
  <2>2. CASE q # r
    BY <2>2 DEF TypeOK, Typed, Goto
  <2>3. QED
    BY <2>1, <2>2
<1>2. QED
  BY <1>1 DEF JobInOrder

\* So does one moved to another statement of its job.
LEMMA OrderKept ==
  ASSUME TypeOK, NEW r \in Requests, NEW label,
         UNCHANGED job, Goto(r, label), JobInOrder(job[r], label)
  PROVE  \A q \in Requests : JobInOrder(job[q], pc[q])'
<1>1. job' = [job EXCEPT ![r] = job[r]]
  BY DEF TypeOK, Typed
<1>2. QED
  BY <1>1, OrderGiven

\* The labels of a request tell what it is: a request that is done has no job.
LEMMA DoneInOrder == JobInOrder(NoJob, "done") /\ "done" \in Labels
  BY DEF JobInOrder, NoJob, StatementsOf, Labels

\* A rollback keeps TypeOK.
LEMMA RollbackType ==
  ASSUME TypeOK, NEW r \in Requests, Rollback(r)
  PROVE  TypeOK'
<1>1. Typed
  BY DEF TypeOK
<1>2. pc' \in [Requests -> Labels]
  BY <1>1, DoneInOrder, GotoType DEF Rollback
<1>3. lock' \in [Users \union {Setting} -> Requests \union {NoOne}]
  BY <1>1, ReleasedType DEF Rollback
<1>4. tx' \in [Requests -> Transaction]
  BY <1>1, BlankTypes, TransactionType DEF Rollback
<1>5. job' \in [Requests -> Job]
  BY <1>1, BlankTypes DEF Rollback, Typed
<1>6. \A q \in Requests : JobInOrder(job[q], pc[q])'
  BY DoneInOrder, OrderGiven DEF Rollback
<1>7. Typed'
  BY <1>1, <1>2, <1>3, <1>4, <1>5 DEF Rollback, Typed, tables
<1>8. QED
  BY <1>6, <1>7 DEF Rollback, TypeOK, tables

\* An update of an account's row keeps TypeOK.
LEMMA UpdateUserType ==
  ASSUME TypeOK, NEW r \in Requests, NEW u \in Users, NEW new \in Row, NEW next \in Labels,
         JobInOrder(job[r], next), UpdateUser(r, u, new, next)
  PROVE  TypeOK'
<1>1. Typed
  BY DEF TypeOK
<1>2. pc' \in [Requests -> Labels]
  BY <1>1, GotoType DEF UpdateUser
<1>3. lock' \in [Users \union {Setting} -> Requests \union {NoOne}]
  BY <1>1 DEF UpdateUser, Typed
<1>4. tx' \in [Requests -> Transaction]
  <2>1. RunningSessions(u) \in SUBSET Sessions
    BY DEF RunningSessions
  <2>2. tx[r] \in Transaction
    BY <1>1 DEF Typed
  <2>3. [tx[r] EXCEPT !.draft = new, !.running = RunningSessions(u)] \in Transaction
    BY <2>1, <2>2 DEF Transaction
  <2>4. [tx[r] EXCEPT !.missed = TRUE] \in Transaction
    BY <2>2 DEF Transaction
  <2>5. QED
    BY <1>1, <2>3, <2>4 DEF UpdateUser, Typed
<1>5. \A q \in Requests : JobInOrder(job[q], pc[q])'
  BY OrderKept DEF UpdateUser
<1>6. Typed'
  BY <1>1, <1>2, <1>3, <1>4 DEF UpdateUser, Typed, tables
<1>7. QED
  BY <1>5, <1>6 DEF UpdateUser, TypeOK, tables

\* Adding a record keeps TypeOK.
LEMMA RecordActionType ==
  ASSUME TypeOK, NEW r \in Requests, NEW record \in Record, NEW next \in Labels,
         JobInOrder(job[r], next), RecordAction(r, record, next)
  PROVE  TypeOK'
<1>1. CASE IsAdmin(r)
  <2>1. Typed /\ tx[r] \in Transaction
    BY DEF TypeOK, Typed
  <2>2. pc' \in [Requests -> Labels]
    BY <1>1, <2>1, GotoType DEF RecordAction
  <2>3. Append(tx[r].records, record) \in Seq(Record)
    BY <2>1 DEF Transaction
  <2>4. [tx[r] EXCEPT !.records = Append(@, record)] \in Transaction
    BY <2>1, <2>3 DEF Transaction
  <2>5. tx' = [tx EXCEPT ![r] = [tx[r] EXCEPT !.records = Append(@, record)]]
    BY <1>1 DEF RecordAction
  <2>6. tx' \in [Requests -> Transaction]
    BY <2>1, <2>4, <2>5, TransactionType
  <2>7. \A q \in Requests : JobInOrder(job[q], pc[q])'
    BY <1>1, OrderKept DEF RecordAction
  <2>8. Typed'
    BY <1>1, <2>1, <2>2, <2>6 DEF RecordAction, Typed, tables
  <2>9. QED
    BY <1>1, <2>7, <2>8 DEF RecordAction, TypeOK, tables
<1>2. CASE ~IsAdmin(r)
  BY <1>2, RollbackType DEF RecordAction
<1>3. QED
  BY <1>1, <1>2

\* Letting a request in keeps TypeOK.
LEMMA ServeType ==
  ASSUME TypeOK, NEW r \in Requests, NEW s \in Sessions, NEW j \in Job, NEW label \in Labels,
         Serve(r, s, j, label),
         Holder(s) \in Users => JobInOrder([j EXCEPT !.actor = Holder(s)], label)
  PROVE  TypeOK'
<1>1. Typed
  BY DEF TypeOK
<1>2. Holder(s) \in Users
  BY DEF TypeOK, Serve, Holder
<1>3. pc' \in [Requests -> Labels]
  BY <1>1, GotoType DEF Serve
<1>4. job' \in [Requests -> Job]
  <2>1. [j EXCEPT !.actor = Holder(s)] \in Job
    BY <1>2 DEF Job
  <2>2. QED
    BY <1>1, <2>1 DEF Serve, Typed
<1>5. tx' \in [Requests -> Transaction]
  <2>1. users[Holder(s)] \in Row /\ tx[r] \in Transaction
    BY <1>1, <1>2 DEF Typed
  <2>2. [tx[r] EXCEPT !.read = users[Holder(s)]] \in Transaction
    BY <2>1 DEF Transaction
  <2>3. QED
    BY <1>1, <2>2 DEF Serve, Typed
<1>6. \A q \in Requests : JobInOrder(job[q], pc[q])'
  BY <1>2, OrderGiven DEF Serve
<1>7. Typed'
  BY <1>1, <1>3, <1>4, <1>5 DEF Serve, Typed, tables
<1>8. QED
  BY <1>6, <1>7 DEF Serve, TypeOK, tables

-----------------------------------------------------------------------------
(* Every action keeps TypeOK.                                              *)

\* An update refused by the trigger is undone.
LEMMA GuardedUpdateType ==
  ASSUME TypeOK, NEW r \in Requests, NEW u \in Users, NEW new \in Row, NEW next \in Labels,
         JobInOrder(job[r], next), UpdateUser(r, u, new, next) \/ GuardRefuses(r, u, new)
  PROVE  TypeOK'
  BY UpdateUserType, RollbackType DEF GuardRefuses

\* Ending a session where it is past a limit keeps TypeOK.
LEMMA EndAtRequestType ==
  ASSUME TypeOK, NEW r \in Requests, NEW s \in Sessions, EndAtRequest(r, s)
  PROVE  TypeOK'
<1>1. Typed /\ job[r] \in Job
  BY DEF TypeOK, Typed
<1>2. PICK reason \in Endings : sessions' = [sessions EXCEPT ![s].ended = reason]
  BY DEF EndAtRequest, Endings
<1>3. sessions' \in [Sessions -> SessionRow]
  BY <1>1, <1>2 DEF Typed, SessionRow
<1>4. \A t \in Sessions : sessions'[t].ended = "running" => sessions'[t].owner \in Users
  BY <1>1, <1>2 DEF TypeOK, Typed, SessionRow, EndAtRequest
<1>5. JobInOrder(job[r], "done")
  <2>1. JobInOrder(job[r], "idle")
    BY DEF TypeOK, EndAtRequest
  <2>2. QED
    BY <2>1, <1>1 DEF JobInOrder, StatementsOf, Job
<1>6. Typed'
  BY <1>1, <1>3, DoneInOrder, GotoType DEF EndAtRequest, Typed
<1>7. \A q \in Requests : JobInOrder(job[q], pc[q])'
  BY <1>5, OrderKept DEF EndAtRequest
<1>8. QED
  BY <1>4, <1>6, <1>7 DEF TypeOK

\* A request not arrived has no job yet, so it may be done as well.
LEMMA IdleInOrder ==
  ASSUME TypeOK, NEW r \in Requests, pc[r] = "idle"
  PROVE  JobInOrder(job[r], "done")
<1>1. JobInOrder(job[r], "idle") /\ job[r] \in Job
  BY DEF TypeOK, Typed
<1>2. QED
  BY <1>1 DEF JobInOrder, StatementsOf, Job

\* A step that only answers the request keeps TypeOK.
LEMMA AnswerType ==
  ASSUME TypeOK, NEW r \in Requests, pc[r] = "idle", Goto(r, "done"),
         UNCHANGED <<tables, lock, job, tx>>
  PROVE  TypeOK'
<1>1. \A q \in Requests : JobInOrder(job[q], pc[q])'
  BY IdleInOrder, OrderKept
<1>2. Typed'
  BY DoneInOrder, GotoType DEF TypeOK, Typed, tables
<1>3. QED
  BY <1>1, <1>2 DEF TypeOK, tables

\* The requests an admin makes, and the password change, are let in with a job
\* in order.
LEMMA AskType ==
  ASSUME TypeOK, NEW r \in Requests, NEW s \in Sessions
  PROVE  /\ \A u \in Users, patch \in Patches : AskChangeAccount(r, s, u, patch) => TypeOK'
         /\ \A u \in Users : AskResetPassword(r, s, u) => TypeOK'
         /\ \A u \in Users, role \in Role : AskAddPerson(r, s, u, role) => TypeOK'
         /\ \A change \in LimitChange : AskChangeLimits(r, s, change) => TypeOK'
         /\ AskReplacePassword(r, s) => TypeOK'
<1>1. ASSUME NEW u \in Users, NEW patch \in Patches, AskChangeAccount(r, s, u, patch)
      PROVE  TypeOK'
  <2> DEFINE j == [NoJob EXCEPT !.op = "change_account", !.subject = u, !.patch = patch]
  <2>1. j \in Job /\ "person" \in Labels
    BY BlankTypes DEF Job, Labels, NoJob
  <2>2. Holder(s) \in Users => JobInOrder([j EXCEPT !.actor = Holder(s)], "person")
    BY DEF JobInOrder, StatementsOf, NoJob
  <2> HIDE DEF j
  <2>3. Serve(r, s, j, "person")
    BY <1>1 DEF AskChangeAccount, j
  <2>4. QED
    BY <2>1, <2>2, <2>3, ServeType
<1>2. ASSUME NEW u \in Users, AskResetPassword(r, s, u)
      PROVE  TypeOK'
  <2> DEFINE j == [NoJob EXCEPT !.op = "reset_password", !.subject = u]
  <2>1. j \in Job /\ "person" \in Labels
    BY BlankTypes DEF Job, Labels, NoJob
  <2>2. Holder(s) \in Users => JobInOrder([j EXCEPT !.actor = Holder(s)], "person")
    BY DEF JobInOrder, StatementsOf, NoJob
  <2> HIDE DEF j
  <2>3. Serve(r, s, j, "person")
    BY <1>2 DEF AskResetPassword, j
  <2>4. QED
    BY <2>1, <2>2, <2>3, ServeType
<1>3. ASSUME NEW u \in Users, NEW role \in Role, AskAddPerson(r, s, u, role)
      PROVE  TypeOK'
  <2> DEFINE j == [NoJob EXCEPT !.op = "add_person", !.subject = u, !.patch.role = role]
  <2>1. j \in Job /\ "add" \in Labels
    BY BlankTypes DEF Job, Labels, NoJob, Patch
  <2>2. Holder(s) \in Users => JobInOrder([j EXCEPT !.actor = Holder(s)], "add")
    BY DEF JobInOrder, StatementsOf, NoJob
  <2> HIDE DEF j
  <2>3. Serve(r, s, j, "add")
    BY <1>3 DEF AskAddPerson, j
  <2>4. QED
    BY <2>1, <2>2, <2>3, ServeType
<1>4. ASSUME NEW change \in LimitChange, AskChangeLimits(r, s, change)
      PROVE  TypeOK'
  <2> DEFINE j == [NoJob EXCEPT !.op = "change_session_limits", !.limits = change]
  <2>1. j \in Job /\ "limits" \in Labels
    BY BlankTypes DEF Job, Labels, NoJob
  <2>2. Holder(s) \in Users => JobInOrder([j EXCEPT !.actor = Holder(s)], "limits")
    BY DEF JobInOrder, StatementsOf, NoJob
  <2> HIDE DEF j
  <2>3. Serve(r, s, j, "limits")
    BY <1>4 DEF AskChangeLimits, j
  <2>4. QED
    BY <2>1, <2>2, <2>3, ServeType
<1>5. ASSUME AskReplacePassword(r, s)
      PROVE  TypeOK'
  <2> DEFINE j == [NoJob EXCEPT !.op = "replace_password", !.subject = Holder(s)]
  <2>1. Holder(s) \in Users
    BY <1>5 DEF AskReplacePassword, TypeOK, Holder
  <2>2. j \in Job /\ "new_password" \in Labels
    BY <2>1, BlankTypes DEF Job, Labels, NoJob
  <2>3. JobInOrder([j EXCEPT !.actor = Holder(s)], "new_password")
    BY <2>1 DEF JobInOrder, StatementsOf, NoJob
  <2> HIDE DEF j
  <2>4. Serve(r, s, j, "new_password")
    BY <1>5 DEF AskReplacePassword, j
  <2>5. QED
    BY <2>2, <2>3, <2>4, ServeType
<1>6. QED
  BY <1>1, <1>2, <1>3, <1>4, <1>5

\* What is known of a request at a statement: its account, its row and its record.
LEMMA AtStatement ==
  ASSUME TypeOK, NEW r \in Requests
  PROVE  /\ Typed
         /\ job[r] \in Job /\ tx[r] \in Transaction /\ pc[r] \in Labels
         /\ JobInOrder(job[r], pc[r])
         /\ \A u \in Users : RowSeen(r, u) \in Row
  BY RowSeenType DEF TypeOK, Typed

\* Reading the person, and their role and state, keeps TypeOK.
LEMMA ReadPersonType ==
  ASSUME TypeOK, NEW r \in Requests, ReadPerson(r)
  PROVE  TypeOK'
<1> DEFINE u == job[r].subject
           next == IF job[r].op = "reset_password" THEN "reset"
                   ELSE IF RoleChanges(job[r].patch, RowSeen(r, u)) THEN "record_role"
                   ELSE IF StateChanges(job[r].patch, RowSeen(r, u)) THEN "record_state"
                   ELSE "finish"
<1>1. Typed /\ job[r] \in Job /\ tx[r] \in Transaction /\ JobInOrder(job[r], "person")
  BY AtStatement DEF ReadPerson
<1>2. u \in Users /\ job[r].op \in {"change_account", "reset_password"}
  BY <1>1 DEF JobInOrder, StatementsOf, Job
<1>3. CASE Rollback(r)
  BY <1>3, RollbackType
<1>4. CASE ~Rollback(r)
  <2>1. RowSeen(r, u) \in Row
    BY <1>1, <1>2, RowSeenType
  <2>2. JobInOrder(job[r], next) /\ next \in Labels
    BY <1>1, <1>2 DEF JobInOrder, StatementsOf, Labels, RoleChanges, Job, Patch
  <2>3. /\ tx' = [tx EXCEPT ![r].read = RowSeen(r, u)]
        /\ Goto(r, next)
        /\ UNCHANGED <<tables, lock, job>>
    BY <1>4 DEF ReadPerson
  <2> HIDE DEF u, next
  <2>4. [tx[r] EXCEPT !.read = RowSeen(r, u)] \in Transaction
    BY <1>1, <2>1 DEF Transaction
  <2>5. tx' \in [Requests -> Transaction]
    BY <1>1, <2>3, <2>4 DEF Typed
  <2>6. Typed'
    BY <1>1, <2>2, <2>3, <2>5, GotoType DEF Typed, tables
  <2>7. \A q \in Requests : JobInOrder(job[q], pc[q])'
    BY <2>2, <2>3, OrderKept
  <2>8. QED
    BY <2>3, <2>6, <2>7 DEF TypeOK, tables
<1>5. QED
  BY <1>3, <1>4

\* Each record added is a record of the action and its subject.
LEMMA RecordOfType ==
  ASSUME TypeOK, NEW r \in Requests, job[r].op # "none",
         NEW action \in {"first_admin_created", "person_added", "role_changed",
                    "account_disabled", "account_enabled", "password_reset",
                    "session_limits_changed"}
  PROVE  RecordOf(r, action) \in Record
<1>1. job[r] \in Job /\ job[r].actor \in Users
  BY AtStatement DEF JobInOrder
<1>2. QED
  BY <1>1 DEF RecordOf, Record, Job, NoLimitChange, LimitChange, Keep

\* Recording a role or state change keeps TypeOK.
LEMMA RecordRoleOrStateType ==
  ASSUME TypeOK, NEW r \in Requests, RecordRole(r) \/ RecordState(r)
  PROVE  TypeOK'
<1>1. JobInOrder(job[r], pc[r]) /\ job[r] \in Job
  BY AtStatement
<1>2. CASE RecordRole(r)
  <2>1. job[r].op = "change_account" /\ job[r].patch.role \in Role
    BY <1>1, <1>2 DEF RecordRole, JobInOrder, StatementsOf, Job
  <2>2. JobInOrder(job[r], "change_role") /\ "change_role" \in Labels
    BY <1>1, <1>2, <2>1 DEF RecordRole, JobInOrder, StatementsOf, Labels
  <2>3. RecordOf(r, "role_changed") \in Record
    BY <2>1, RecordOfType
  <2>4. [RecordOf(r, "role_changed") EXCEPT !.role = job[r].patch.role] \in Record
    BY <2>1, <2>3 DEF Record
  <2>5. QED
    BY <1>2, <2>2, <2>4, RecordActionType DEF RecordRole
<1>3. CASE RecordState(r)
  <2>1. job[r].op = "change_account"
    BY <1>1, <1>3 DEF RecordState, JobInOrder, StatementsOf, Job
  <2>2. JobInOrder(job[r], "change_state") /\ "change_state" \in Labels
    BY <1>1, <1>3, <2>1 DEF RecordState, JobInOrder, StatementsOf, Labels
  <2>3. RecordOf(r, "account_disabled") \in Record /\ RecordOf(r, "account_enabled") \in Record
    BY <2>1, RecordOfType
  <2>4. QED
    BY <1>3, <2>2, <2>3, RecordActionType DEF RecordState
<1>4. QED
  BY <1>2, <1>3

\* The rows a reset, a rehash and a new password leave.
LEMMA RowUpdates ==
  ASSUME NEW row \in Row, NEW password \in {"chosen", "issued"}
  PROVE  /\ [row EXCEPT !.password = "issued", !.must_change_password = TRUE,
                        !.outdated = FALSE] \in Row
         /\ [row EXCEPT !.password = password, !.outdated = FALSE] \in Row
         /\ [row EXCEPT !.password = "chosen", !.outdated = FALSE,
                        !.must_change_password = FALSE] \in Row
         /\ \A disabled \in BOOLEAN : [row EXCEPT !.disabled = disabled] \in Row
  BY DEF Row

\* The updates of an account's row: each leaves a row.
LEMMA UpdatesType ==
  ASSUME TypeOK, NEW r \in Requests
  PROVE  /\ ChangeRole(r) => TypeOK'
         /\ ChangeState(r) => TypeOK'
         /\ Reset(r) => TypeOK'
         /\ Rehash(r) => TypeOK'
         /\ NewPassword(r) => TypeOK'
<1> DEFINE u == job[r].subject
<1>1. /\ JobInOrder(job[r], pc[r])
      /\ job[r] \in Job
      /\ \A v \in Users : RowSeen(r, v) \in Row
  BY AtStatement
<1>2. ASSUME ChangeRole(r) PROVE TypeOK'
  <2> DEFINE new == [RowSeen(r, u) EXCEPT !.role = job[r].patch.role]
             next == IF StateChanges(job[r].patch, tx[r].read) THEN "record_state" ELSE "finish"
  <2>1. u \in Users /\ job[r].op = "change_account" /\ job[r].patch.role \in Role
    BY <1>1, <1>2 DEF ChangeRole, JobInOrder, StatementsOf, Job
  <2>2. new \in Row
    BY <1>1, <2>1 DEF Row
  <2>3. JobInOrder(job[r], next) /\ next \in Labels
    BY <1>1, <2>1 DEF JobInOrder, StatementsOf, Labels
  <2>4. UpdateUser(r, u, new, next) \/ GuardRefuses(r, u, new)
    BY <1>2 DEF ChangeRole
  <2> HIDE DEF u, new, next
  <2>5. QED
    BY <2>1, <2>2, <2>3, <2>4, GuardedUpdateType
<1>3. ASSUME ChangeState(r) PROVE TypeOK'
  <2> DEFINE disable == job[r].patch.disabled = "yes"
             new == [RowSeen(r, u) EXCEPT !.disabled = disable]
             next == IF disable THEN "end_sessions" ELSE "finish"
  <2>1. u \in Users /\ job[r].op = "change_account"
    BY <1>1, <1>3 DEF ChangeState, JobInOrder, StatementsOf, Job
  <2>2. new \in Row
    <3>1. RowSeen(r, u) \in Row /\ disable \in BOOLEAN
      BY <1>1, <2>1
    <3> HIDE DEF disable
    <3>2. QED
      BY <3>1, RowUpdates
  <2>3. JobInOrder(job[r], next) /\ next \in Labels
    BY <1>1, <2>1 DEF JobInOrder, StatementsOf, Labels
  <2>4. UpdateUser(r, u, new, next) \/ GuardRefuses(r, u, new)
    BY <1>3 DEF ChangeState
  <2> HIDE DEF u, new, next
  <2>5. QED
    BY <2>1, <2>2, <2>3, <2>4, GuardedUpdateType
<1>4. ASSUME Reset(r) PROVE TypeOK'
  <2> DEFINE new == [RowSeen(r, u) EXCEPT !.password = "issued",
                       !.must_change_password = TRUE, !.outdated = FALSE]
  <2>1. u \in Users /\ job[r].op = "reset_password"
    BY <1>1, <1>4 DEF Reset, JobInOrder, StatementsOf, Job
  <2>2. new \in Row
    <3>1. RowSeen(r, u) \in Row
      BY <1>1, <2>1
    <3>2. QED
      BY <3>1, RowUpdates
  <2>3. JobInOrder(job[r], "end_sessions") /\ "end_sessions" \in Labels
    BY <1>1, <2>1 DEF JobInOrder, StatementsOf, Labels
  <2>4. UpdateUser(r, u, new, "end_sessions")
    BY <1>4 DEF Reset
  <2> HIDE DEF u, new
  <2>5. QED
    BY <2>1, <2>2, <2>3, <2>4, UpdateUserType
<1>5. ASSUME Rehash(r) PROVE TypeOK'
  <2> DEFINE new == [RowSeen(r, u) EXCEPT !.password = job[r].password, !.outdated = FALSE]
  <2>1. u \in Users /\ job[r].op = "sign_in"
    BY <1>1, <1>5 DEF Rehash, JobInOrder, StatementsOf, Job
  <2>2. new \in Row
    BY <1>1, <2>1, RowUpdates DEF Job
  <2>3. JobInOrder(job[r], "finish") /\ "finish" \in Labels
    BY <1>1, <2>1 DEF JobInOrder, StatementsOf, Labels
  <2>4. UpdateUser(r, u, new, "finish")
    BY <1>5 DEF Rehash
  <2> HIDE DEF u, new
  <2>5. QED
    BY <2>1, <2>2, <2>3, <2>4, UpdateUserType
<1>6. ASSUME NewPassword(r) PROVE TypeOK'
  <2> DEFINE new == [RowSeen(r, u) EXCEPT !.password = "chosen", !.outdated = FALSE,
                       !.must_change_password = FALSE]
  <2>1. u \in Users /\ job[r].op = "replace_password"
    BY <1>1, <1>6 DEF NewPassword, JobInOrder, StatementsOf, Job
  <2>2. new \in Row
    BY <1>1, <2>1, RowUpdates
  <2>3. JobInOrder(job[r], "finish") /\ "finish" \in Labels
    BY <1>1, <2>1 DEF JobInOrder, StatementsOf, Labels
  <2>4. UpdateUser(r, u, new, "finish")
    BY <1>6 DEF NewPassword
  <2> HIDE DEF u, new
  <2>5. QED
    BY <2>1, <2>2, <2>3, <2>4, UpdateUserType
<1>7. QED
  BY <1>2, <1>3, <1>4, <1>5, <1>6

\* Ending the subject's sessions keeps TypeOK.
LEMMA EndSessionsType ==
  ASSUME TypeOK, NEW r \in Requests, EndSessions(r)
  PROVE  TypeOK'
<1> DEFINE u == job[r].subject
           next == IF job[r].op = "reset_password" THEN "record" ELSE "finish"
<1>1. Typed /\ job[r] \in Job /\ tx[r] \in Transaction /\ JobInOrder(job[r], "end_sessions")
  BY AtStatement DEF EndSessions
<1>2. JobInOrder(job[r], next) /\ next \in Labels
  BY <1>1 DEF JobInOrder, StatementsOf, Labels, Job
<1>3. RunningSessions(u) \in SUBSET Sessions
  BY DEF RunningSessions
<1>4. /\ \/ tx' = [tx EXCEPT ![r].ends = RunningSessions(u)]
         \/ tx' = [tx EXCEPT ![r].missed = TRUE]
      /\ Goto(r, next)
      /\ UNCHANGED <<tables, lock, job>>
  BY DEF EndSessions
<1> HIDE DEF u, next
<1>5. [tx[r] EXCEPT !.ends = RunningSessions(u)] \in Transaction
  BY <1>1, <1>3 DEF Transaction
<1>6. [tx[r] EXCEPT !.missed = TRUE] \in Transaction
  BY <1>1 DEF Transaction
<1>7. tx' \in [Requests -> Transaction]
  BY <1>1, <1>4, <1>5, <1>6 DEF Typed
<1>8. Typed'
  BY <1>1, <1>2, <1>4, <1>7, GotoType DEF Typed, tables
<1>9. \A q \in Requests : JobInOrder(job[q], pc[q])'
  BY <1>2, <1>4, OrderKept
<1>10. QED
  BY <1>4, <1>8, <1>9 DEF TypeOK, tables

\* A new account is a row.
LEMMA NewRowType ==
  ASSUME NEW role \in Role, NEW password \in {"chosen", "issued"}
  PROVE  NewRow(role, password) \in Row
  BY BlankTypes DEF NewRow, Row, NoRow

\* Adding a person keeps TypeOK.
LEMMA AddType ==
  ASSUME TypeOK, NEW r \in Requests, Add(r)
  PROVE  TypeOK'
<1> DEFINE u == job[r].subject
           new == NewRow(job[r].patch.role, "issued")
<1>1. Typed /\ job[r] \in Job /\ tx[r] \in Transaction /\ JobInOrder(job[r], "add")
  BY AtStatement DEF Add
<1>2. u \in Users /\ job[r].op = "add_person" /\ job[r].patch.role \in Role
  BY <1>1 DEF JobInOrder, StatementsOf, Job
<1>3. CASE Rollback(r)
  BY <1>3, RollbackType
<1>4. CASE ~Rollback(r)
  <2>1. new \in Row
    BY <1>2, NewRowType
  <2>2. JobInOrder(job[r], "record") /\ "record" \in Labels
    BY <1>1, <1>2 DEF JobInOrder, StatementsOf, Labels
  <2>3. /\ lock' = [lock EXCEPT ![u] = r]
        /\ tx' = [tx EXCEPT ![r].draft = new]
        /\ Goto(r, "record")
        /\ UNCHANGED <<tables, job>>
    BY <1>4 DEF Add
  <2> HIDE DEF u, new
  <2>4. [tx[r] EXCEPT !.draft = new] \in Transaction
    BY <1>1, <2>1 DEF Transaction
  <2>5. tx' \in [Requests -> Transaction]
    BY <1>1, <2>3, <2>4 DEF Typed
  <2>6. lock' \in [Users \union {Setting} -> Requests \union {NoOne}]
    BY <1>1, <2>3 DEF Typed
  <2>7. Typed'
    BY <1>1, <2>2, <2>3, <2>5, <2>6, GotoType DEF Typed, tables
  <2>8. \A q \in Requests : JobInOrder(job[q], pc[q])'
    BY <2>2, <2>3, OrderKept
  <2>9. QED
    BY <2>3, <2>7, <2>8 DEF TypeOK, tables
<1>5. QED
  BY <1>3, <1>4

\* Creating the first admin keeps TypeOK.
LEMMA SetUpType ==
  ASSUME TypeOK, NEW r \in Requests, NEW u \in Users, SetUp(r, u)
  PROVE  TypeOK'
<1> DEFINE j == [NoJob EXCEPT !.op = "setup", !.actor = u, !.subject = u]
           new == NewRow("admin", "chosen")
<1>1. Typed /\ tx[r] \in Transaction
  BY AtStatement
<1>2. CASE Goto(r, "done") /\ UNCHANGED <<tables, lock, job, tx>>
  BY <1>2, AnswerType DEF SetUp
<1>3. CASE ~(Goto(r, "done") /\ UNCHANGED <<tables, lock, job, tx>>)
  <2>1. new \in Row
    BY NewRowType DEF Role
  <2>2. j \in Job /\ JobInOrder(j, "record") /\ "record" \in Labels
    BY BlankTypes DEF Job, NoJob, JobInOrder, StatementsOf, Labels
  <2>3. /\ lock' = [lock EXCEPT ![u] = r]
        /\ tx' = [tx EXCEPT ![r].draft = new]
        /\ job' = [job EXCEPT ![r] = j]
        /\ Goto(r, "record")
        /\ UNCHANGED tables
    BY <1>3 DEF SetUp
  <2> HIDE DEF j, new
  <2>4. [tx[r] EXCEPT !.draft = new] \in Transaction
    BY <1>1, <2>1 DEF Transaction
  <2>5. /\ tx' \in [Requests -> Transaction]
        /\ lock' \in [Users \union {Setting} -> Requests \union {NoOne}]
        /\ job' \in [Requests -> Job]
    BY <1>1, <2>2, <2>3, <2>4 DEF Typed
  <2>6. Typed'
    BY <1>1, <2>2, <2>3, <2>5, GotoType DEF Typed, tables
  <2>7. \A q \in Requests : JobInOrder(job[q], pc[q])'
    BY <2>2, <2>3, OrderGiven
  <2>8. QED
    BY <2>3, <2>6, <2>7 DEF TypeOK, tables
<1>4. QED
  BY <1>2, <1>3

\* Limits laid over limits are limits.
LEMMA OverTypes ==
  ASSUME NEW change \in LimitChange
  PROVE  /\ \A old \in SessionLimits : Over(change, old) \in SessionLimits
         /\ SessionLimits \subseteq LimitChange
  BY DEF LimitChange, SessionLimits, Over

\* Reading and changing the session limits keeps TypeOK.
LEMMA LimitsType ==
  ASSUME TypeOK, NEW r \in Requests
  PROVE  /\ ReadLimits(r) => TypeOK'
         /\ ChangeLimits(r) => TypeOK'
<1>1. Typed /\ job[r] \in Job /\ tx[r] \in Transaction /\ JobInOrder(job[r], pc[r])
  BY AtStatement
<1>2. ASSUME ReadLimits(r) PROVE TypeOK'
  <2> DEFINE asked == job[r].limits
             changed == [idle |-> IF asked.idle = limits.idle THEN 0 ELSE asked.idle,
                         max  |-> IF asked.max = limits.max THEN 0 ELSE asked.max]
  <2>1. CASE Rollback(r)
    BY <2>1, RollbackType
  <2>2. CASE ~Rollback(r)
    <3>1. job[r].op = "change_session_limits"
      BY <1>1, <1>2 DEF ReadLimits, JobInOrder, StatementsOf, Job
    <3>2. asked \in LimitChange /\ limits \in SessionLimits
      BY <1>1 DEF Job, Typed
    <3>3. changed \in LimitChange
      BY <3>2 DEF LimitChange
    <3>4. Over(asked, limits) \in LimitChange
      BY <3>2, OverTypes
    <3>5. /\ job' = [job EXCEPT ![r].limits = changed]
          /\ tx' = [tx EXCEPT ![r].values = Over(asked, limits)]
          /\ Goto(r, "record")
          /\ UNCHANGED <<tables, lock>>
      BY <1>2, <2>2 DEF ReadLimits
    <3> HIDE DEF asked, changed
    <3>6. /\ [job[r] EXCEPT !.limits = changed] \in Job
          /\ JobInOrder([job[r] EXCEPT !.limits = changed], "record")
          /\ "record" \in Labels
      <4>1. job[r].actor \in Users
        BY <1>1, <3>1 DEF JobInOrder
      <4>2. [job[r] EXCEPT !.limits = changed] \in Job
        BY <1>1, <3>3 DEF Job
      <4>3. /\ [job[r] EXCEPT !.limits = changed].op = "change_session_limits"
            /\ [job[r] EXCEPT !.limits = changed].actor \in Users
        BY <1>1, <3>1, <4>1 DEF Job
      <4>4. QED
        BY <4>2, <4>3 DEF JobInOrder, StatementsOf, Labels
    <3>7. [tx[r] EXCEPT !.values = Over(asked, limits)] \in Transaction
      BY <1>1, <3>4 DEF Transaction
    <3>8. job' \in [Requests -> Job] /\ tx' \in [Requests -> Transaction]
      BY <1>1, <3>5, <3>6, <3>7 DEF Typed
    <3>9. Typed'
      BY <1>1, <3>5, <3>6, <3>8, GotoType DEF Typed, tables
    <3>10. job' = [job EXCEPT ![r] = [job[r] EXCEPT !.limits = changed]]
      BY <3>5
    <3>11. \A q \in Requests : JobInOrder(job[q], pc[q])'
      BY <3>5, <3>6, <3>10, OrderGiven
    <3>12. QED
      BY <3>5, <3>9, <3>11 DEF TypeOK, tables
  <2>3. QED
    BY <2>1, <2>2
<1>3. ASSUME ChangeLimits(r) PROVE TypeOK'
  <2>1. job[r].op = "change_session_limits"
    BY <1>1, <1>3 DEF ChangeLimits, JobInOrder, StatementsOf, Job
  <2>2. JobInOrder(job[r], "finish") /\ "finish" \in Labels
    BY <1>1, <2>1 DEF JobInOrder, StatementsOf, Labels
  <2>3. [tx[r] EXCEPT !.limits = tx[r].values] \in Transaction
    BY <1>1 DEF Transaction
  <2>4. [tx[r] EXCEPT !.missed = TRUE] \in Transaction
    BY <1>1 DEF Transaction
  <2>5. /\ tx' \in [Requests -> Transaction]
        /\ lock' \in [Users \union {Setting} -> Requests \union {NoOne}]
    <3>1. \/ /\ tx' = [tx EXCEPT ![r].limits = tx[r].values]
             /\ lock' = [lock EXCEPT ![Setting] = r]
          \/ /\ tx' = [tx EXCEPT ![r].missed = TRUE]
             /\ UNCHANGED lock
      BY <1>3 DEF ChangeLimits
    <3>2. tx' \in [Requests -> Transaction]
      BY <1>1, <2>3, <2>4, <3>1 DEF Typed
    <3>3. QED
      BY <1>1, <3>1, <3>2 DEF Typed
  <2>6. Typed'
    BY <1>1, <1>3, <2>2, <2>5, GotoType DEF ChangeLimits, Typed, tables
  <2>7. \A q \in Requests : JobInOrder(job[q], pc[q])'
    BY <1>3, <2>2, OrderKept DEF ChangeLimits
  <2>8. QED
    BY <1>3, <2>6, <2>7 DEF ChangeLimits, TypeOK, tables
<1>4. QED
  BY <1>2, <1>3

\* Recording the change keeps TypeOK.
LEMMA RecordChangeType ==
  ASSUME TypeOK, NEW r \in Requests, RecordChange(r)
  PROVE  TypeOK'
<1>1. job[r] \in Job /\ JobInOrder(job[r], "record")
  BY AtStatement DEF RecordChange
<1>2. /\ "finish" \in Labels /\ "change_limits" \in Labels
      /\ job[r].op # "change_session_limits" => JobInOrder(job[r], "finish")
      /\ job[r].op = "change_session_limits" => JobInOrder(job[r], "change_limits")
  BY <1>1 DEF JobInOrder, StatementsOf, Labels, Job
<1>3. job[r].op # "none"
  BY <1>1 DEF JobInOrder, StatementsOf
<1>4. /\ RecordOf(r, "password_reset") \in Record
      /\ RecordOf(r, "person_added") \in Record
      /\ RecordOf(r, "first_admin_created") \in Record
      /\ RecordOf(r, "session_limits_changed") \in Record
  BY <1>3, RecordOfType
<1>5. /\ [RecordOf(r, "person_added") EXCEPT !.role = job[r].patch.role] \in Record
      /\ [RecordOf(r, "session_limits_changed") EXCEPT !.limits = job[r].limits] \in Record
  BY <1>1, <1>4 DEF Record, Job, Patch
<1>6. QED
  BY <1>2, <1>4, <1>5, RecordActionType DEF RecordChange

\* Signing in and out keeps TypeOK.
LEMMA SignInType ==
  ASSUME TypeOK, NEW r \in Requests, NEW u \in Users, NEW password \in {"chosen", "issued"},
         SignIn(r, u, password)
  PROVE  TypeOK'
<1> DEFINE j == [NoJob EXCEPT !.op = "sign_in", !.actor = u, !.subject = u, !.password = password]
           next == IF users[u].outdated THEN "rehash" ELSE "finish"
<1>1. Typed
  BY DEF TypeOK
<1>2. CASE Goto(r, "done") /\ UNCHANGED job
  BY <1>2, AnswerType DEF SignIn
<1>3. CASE ~(Goto(r, "done") /\ UNCHANGED job)
  <2>1. j \in Job /\ JobInOrder(j, next) /\ next \in Labels
    BY BlankTypes DEF Job, NoJob, JobInOrder, StatementsOf, Labels
  <2>2. /\ job' = [job EXCEPT ![r] = j]
        /\ Goto(r, next)
        /\ UNCHANGED <<tables, lock, tx>>
    BY <1>3 DEF SignIn
  <2> HIDE DEF j, next
  <2>3. job' \in [Requests -> Job]
    BY <1>1, <2>1, <2>2 DEF Typed
  <2>4. Typed'
    BY <1>1, <2>1, <2>2, <2>3, GotoType DEF Typed, tables
  <2>5. \A q \in Requests : JobInOrder(job[q], pc[q])'
    BY <2>1, <2>2, OrderGiven
  <2>6. QED
    BY <2>2, <2>4, <2>5 DEF TypeOK, tables
<1>4. QED
  BY <1>2, <1>3

\* Starting to sign out keeps TypeOK.
LEMMA StartSignOutType ==
  ASSUME TypeOK, NEW r \in Requests, NEW s \in Sessions, StartSignOut(r, s)
  PROVE  TypeOK'
<1> DEFINE j == [NoJob EXCEPT !.op = "sign_out", !.actor = Holder(s), !.session = s]
<1>1. Typed
  BY DEF TypeOK
<1>2. Holder(s) \in Users
  BY DEF TypeOK, StartSignOut, Holder
<1>3. j \in Job /\ JobInOrder(j, "sign_out") /\ "sign_out" \in Labels
  BY <1>2, BlankTypes DEF Job, NoJob, JobInOrder, StatementsOf, Labels
<1>4. /\ job' = [job EXCEPT ![r] = j]
      /\ Goto(r, "sign_out")
      /\ UNCHANGED <<tables, lock, tx>>
  BY DEF StartSignOut
<1> HIDE DEF j
<1>5. job' \in [Requests -> Job]
  BY <1>1, <1>3, <1>4 DEF Typed
<1>6. Typed'
  BY <1>1, <1>3, <1>4, <1>5, GotoType DEF Typed, tables
<1>7. \A q \in Requests : JobInOrder(job[q], pc[q])'
  BY <1>3, <1>4, OrderGiven
<1>8. QED
  BY <1>4, <1>6, <1>7 DEF TypeOK, tables

\* Signing out keeps TypeOK.
LEMMA SignOutType ==
  ASSUME TypeOK, NEW r \in Requests, SignOut(r)
  PROVE  TypeOK'
<1>1. Typed /\ JobInOrder(job[r], "sign_out") /\ job[r] \in Job
  BY AtStatement DEF SignOut
<1>2. job[r].session \in Sessions
  BY <1>1 DEF JobInOrder, StatementsOf, Job
<1>3. sessions' \in [Sessions -> SessionRow]
  <2>1. \A row \in SessionRow : [row EXCEPT !.ended = "signed_out"] \in SessionRow
    BY DEF SessionRow, Endings
  <2>2. QED
    BY <1>1, <1>2, <2>1 DEF SignOut, Typed
<1>4. \A s \in Sessions : sessions'[s].ended = "running" => sessions'[s].owner \in Users
  BY <1>1, <1>2 DEF SignOut, TypeOK, Typed, SessionRow
<1>5. job' \in [Requests -> Job]
  BY <1>1, BlankTypes DEF SignOut, Typed
<1>6. Typed'
  BY <1>1, <1>3, <1>5, DoneInOrder, GotoType DEF SignOut, Typed
<1>7. \A q \in Requests : JobInOrder(job[q], pc[q])'
  BY DoneInOrder, OrderGiven DEF SignOut
<1>8. QED
  BY <1>4, <1>6, <1>7 DEF TypeOK

\* Reading the person once more keeps TypeOK.
LEMMA ReadLastType ==
  ASSUME TypeOK, NEW r \in Requests, pc[r] = "finish",
         job[r].op \in {"change_account", "reset_password"},
         Goto(r, "commit") /\ UNCHANGED <<tables, lock, job, tx>>
  PROVE  TypeOK'
<1>1. Typed /\ JobInOrder(job[r], "finish")
  BY AtStatement
<1>2. JobInOrder(job[r], "commit") /\ "commit" \in Labels
  BY <1>1 DEF JobInOrder, StatementsOf, Labels
<1>3. Typed' /\ \A q \in Requests : JobInOrder(job[q], pc[q])'
  BY <1>1, <1>2, GotoType, OrderKept DEF Typed, tables
<1>4. QED
  BY <1>3 DEF TypeOK, tables

\* A commit keeps TypeOK.
LEMMA CommitType ==
  ASSUME TypeOK, NEW r \in Requests, pc[r] \in {"finish", "commit"}, Commit(r)
  PROVE  TypeOK'
<1>1. /\ Typed /\ job[r] \in Job /\ tx[r] \in Transaction
      /\ JobInOrder(job[r], pc[r]) /\ pc[r] \in {"finish", "commit"} /\ Commit(r)
      /\ \A u \in Users : RowSeen(r, u) \in Row
  BY AtStatement
<1>2. job[r].actor \in Users
  BY <1>1 DEF JobInOrder, StatementsOf
<1>3. users' \in [Users -> Row]
  BY <1>1 DEF Commit
<1>4. audit' \in Seq(Record)
  BY <1>1 DEF Commit, Typed, Transaction
<1>5. limits' \in SessionLimits
  BY <1>1, OverTypes DEF Commit, Typed, Transaction
<1>6. ASSUME NEW s \in Sessions
      PROVE  /\ sessions'[s] \in SessionRow
             /\ sessions'[s].ended = "running" => sessions'[s].owner \in Users
  <2>1. sessions[s] \in SessionRow /\ (sessions[s].ended = "running" => sessions[s].owner \in Users)
    BY DEF TypeOK, Typed
  <2>2. Reason(r) \in Endings
    BY DEF Reason, Endings
  <2>3. CASE s = r /\ job[r].op \in {"sign_in", "setup"}
    <3>1. sessions'[s] = [owner |-> job[r].actor, ended |-> "running"]
      BY <2>3 DEF Commit
    <3>2. QED
      BY <1>2, <3>1 DEF SessionRow
  <2>4. CASE ~(s = r /\ job[r].op \in {"sign_in", "setup"})
    <3>1. \/ sessions'[s] = sessions[s]
          \/ /\ sessions[s].ended = "running"
             /\ sessions'[s] = [sessions[s] EXCEPT !.ended = Reason(r)]
      BY <2>4 DEF Commit
    <3>2. QED
      BY <2>1, <2>2, <3>1 DEF SessionRow
  <2>5. QED
    BY <2>3, <2>4
<1>7. sessions' \in [Sessions -> SessionRow]
  BY <1>6 DEF Commit
<1>8. lock' \in [Users \union {Setting} -> Requests \union {NoOne}]
  BY <1>1, ReleasedType DEF Commit
<1>9. tx' \in [Requests -> Transaction] /\ job' \in [Requests -> Job]
  BY <1>1, BlankTypes DEF Commit, Typed
<1>10. Typed'
  BY <1>1, <1>3, <1>4, <1>5, <1>7, <1>8, <1>9, DoneInOrder, GotoType DEF Commit, Typed
<1>11. \A q \in Requests : JobInOrder(job[q], pc[q])'
  BY DoneInOrder, OrderGiven DEF Commit
<1>12. QED
  BY <1>6, <1>10, <1>11 DEF TypeOK

\* The first states are typed and in order.
LEMMA InitType == Init => TypeOK
<1> SUFFICES ASSUME Init
             PROVE  TypeOK
  OBVIOUS
<1>1. Settled \subseteq Row
  BY DEF Settled
<1>2. users \in [Users -> Row]
  BY <1>1, BlankTypes DEF Init
<1>3. ASSUME NEW s \in Sessions
      PROVE  sessions[s] \in SessionRow /\ (sessions[s].ended = "running" => sessions[s].owner \in Users)
  BY DEF Init, SessionRow, Endings
<1>4. sessions \in [Sessions -> SessionRow]
  BY <1>3 DEF Init
<1>5. pc \in [Requests -> Labels]
  BY DEF Init, Labels
<1>6. /\ job \in [Requests -> Job] /\ tx \in [Requests -> Transaction]
      /\ \A r \in Requests : job[r] = NoJob /\ pc[r] = "idle"
  BY BlankTypes DEF Init
<1>7. JobInOrder(NoJob, "idle")
  BY DEF JobInOrder, NoJob, StatementsOf
<1>8. Typed
  BY <1>2, <1>4, <1>5, <1>6 DEF Init, Typed
<1>9. QED
  BY <1>3, <1>6, <1>7, <1>8 DEF TypeOK

\* Every step keeps TypeOK.
LEMMA NextType == TypeOK /\ [Next]_vars => TypeOK'
<1> SUFFICES ASSUME TypeOK, [Next]_vars
             PROVE  TypeOK'
  OBVIOUS
<1>1. ASSUME NEW r \in Requests, Arrive(r)
      PROVE  TypeOK'
  <2>1. ASSUME NEW s \in Sessions, TurnAway(r, s)
        PROVE  TypeOK'
    BY <2>1, AnswerType DEF TurnAway
  <2>2. QED
    BY <1>1, <2>1, EndAtRequestType, AskType, StartSignOutType, SetUpType, SignInType
       DEF Arrive
<1>2. ASSUME NEW r \in Requests, Statement(r)
      PROVE  TypeOK'
  <2>1. Finish(r) \/ CommitAnswered(r) => TypeOK'
    BY CommitType, RollbackType, ReadLastType DEF Finish, CommitAnswered
  <2>2. QED
    BY <1>2, <2>1, ReadPersonType, RecordRoleOrStateType, UpdatesType, EndSessionsType, AddType,
       LimitsType, RecordChangeType, SignOutType
       DEF Statement
<1>3. CASE UNCHANGED vars
  BY <1>3 DEF vars, TypeOK, Typed
<1>4. QED
  BY <1>1, <1>2, <1>3 DEF Next, AllDone

\* Every variable keeps its type, a running session its owner, and every request
\* its statements, whatever requests interleave.
THEOREM TypeCorrect == Spec => []TypeOK
  BY InitType, NextType, PTL DEF Spec

-----------------------------------------------------------------------------
(* What holds of a transaction under way.                                  *)

Enabled(row) == row.role = "admin" /\ ~row.disabled

\* Whether the transaction adds a record of the action on its subject.
Adds(r, action) ==
  \E i \in 1 .. Len(tx[r].records) :
    tx[r].records[i].action = action /\ tx[r].records[i].subject = job[r].subject

AddsRole(r, role) ==
  \E i \in 1 .. Len(tx[r].records) : /\ tx[r].records[i].action = "role_changed"
                                     /\ tx[r].records[i].subject = job[r].subject
                                     /\ tx[r].records[i].role = role

\* A request that is at no statement has no job and has written nothing; one that
\* ends a session, or the limits, is about no account.
Bare(r) ==
  /\ job[r].op = "none" => job[r] = NoJob /\ tx[r] = NoTransaction
  /\ job[r].op = "sign_out" => job[r].subject = NoOne /\ tx[r] = NoTransaction
  /\ job[r].op = "change_session_limits" => job[r].subject = NoOne

\* A transaction writes the row of its subject alone, a new row where it adds the
\* account and a row that is there everywhere else.
Writes(r) ==
  \A u \in Users : lock[u] = r =>
    /\ u = job[r].subject
    /\ tx[r].draft.role # "none"
    /\ users[u].role = "none" <=> job[r].op \in {"add_person", "setup"}
    /\ users[u].role = "none" => ~tx[r].draft.disabled
    /\ job[r].op = "setup" => tx[r].draft.role = "admin"

\* The record of a change is there before the change is, or by the commit.
Records(r) ==
  /\ pc[r] = "change_role" => AddsRole(r, job[r].patch.role)
  /\ pc[r] = "change_state" =>
       Adds(r, IF job[r].patch.disabled = "yes" THEN "account_disabled" ELSE "account_enabled")
  /\ pc[r] = "change_limits" => Adds(r, "session_limits_changed")
  /\ pc[r] \in {"finish", "commit"} =>
       /\ job[r].op = "add_person" => Adds(r, "person_added")
       /\ job[r].op = "setup" => Adds(r, "first_admin_created")
       /\ job[r].op = "reset_password" => Adds(r, "password_reset")
       /\ job[r].op = "change_session_limits" => Adds(r, "session_limits_changed")
  /\ tx[r].limits # NoLimitChange => job[r].op = "change_session_limits" /\ pc[r] = "finish"
  /\ \A i \in 1 .. Len(tx[r].records) :
       tx[r].records[i].action = "first_admin_created" => job[r].op = "setup"

\* What sets the row written apart from the one committed: each difference is
\* recorded, and the last admin but one is not taken for the last but two.
Changes(r) ==
  \A u \in Users :
    lock[u] = r /\ users[u].role # "none" =>
      LET old == users[u]
          new == tx[r].draft
      IN  /\ new.role # old.role => AddsRole(r, new.role)
          /\ ~old.disabled /\ new.disabled => Adds(r, "account_disabled")
          /\ old.disabled /\ ~new.disabled => Adds(r, "account_enabled")
          /\ ~old.must_change_password /\ new.must_change_password => job[r].op = "reset_password"
          /\ Enabled(old) /\ ~Enabled(new)
               => (\E v \in Users \ {u} : Enabled(users[v])) \/ Removed \ {u} # {}

\* Whether the transaction disables its subject, and whether it ends sessions.
Disables(r) == \E u \in Users : lock[u] = r /\ ~users[u].disabled /\ tx[r].draft.disabled

MustEnd(r) == job[r].op = "reset_password" \/ (job[r].op = "change_account" /\ Disables(r))

\* The sessions seen running at the change are the subject's; none of them runs
\* past the statement that ends them but those the commit ends.
EndsSessions(r) ==
  /\ \A s \in tx[r].running : sessions[s].ended # "none" /\ sessions[s].owner = job[r].subject
  /\ job[r].op = "change_account" /\ pc[r] \notin {"end_sessions", "finish", "commit"} => ~Disables(r)
  /\ pc[r] \in {"record", "finish", "commit"} /\ MustEnd(r) /\ ~tx[r].missed
       => \A s \in tx[r].running : s \in tx[r].ends \/ sessions[s].ended # "running"

\* A setup under way has the table to itself, and there is no admin yet.
SetsUpAlone(r) ==
  job[r].op = "setup" =>
    /\ lock[job[r].subject] = r
    /\ \A v \in Users : users[v].role # "admin" /\ lock[v] \in {r, NoOne}

UnderWay(r) == Bare(r) /\ Writes(r) /\ Records(r) /\ Changes(r) /\ EndsSessions(r) /\ SetsUpAlone(r)

\* What is committed: a username nobody has is blank, someone adds accounts, a
\* session is opened by its own request alone, and one signed out of was opened.
Settling ==
  /\ \A u \in Users : users[u].role = "none" => users[u] = NoRow
  /\ \A r \in Requests : job[r].op = "add_person" => users[job[r].actor].role # "none"
  /\ \A r \in Requests : pc[r] # "done" => sessions[r].ended = "none"
  /\ \A r \in Requests : job[r].op = "sign_out" => sessions[job[r].session].ended # "none"

IInv ==
  /\ TypeOK
  /\ Settling
  /\ \A r \in Requests : UnderWay(r)
  /\ LastAdminFallsToTwo

-----------------------------------------------------------------------------
(* A step of one request leaves the others alone.                          *)

Untouched(q) ==
  /\ pc'[q] = pc[q] /\ job'[q] = job[q] /\ tx'[q] = tx[q]
  /\ \A u \in Users : lock'[u] = q <=> lock[u] = q

\* A request that takes a row of app_user does it while no setup is under way.
TakesFairly(r) ==
  \A u \in Users, q \in Requests \ {r} : job[q].op = "setup" /\ lock'[u] = r => lock[u] = r

\* A request refused gives up its rows and takes none.
LEMMA RollbackLeaves ==
  ASSUME TypeOK, NEW r \in Requests, Rollback(r)
  PROVE  (\A q \in Requests \ {r} : Untouched(q)) /\ TakesFairly(r)
<1>1. Typed /\ NoOne \notin Requests
  BY DEF TypeOK, ConstantsAssumption
<1>2. QED
  BY <1>1 DEF Rollback, Goto, Released, Untouched, TakesFairly, Typed

\* A setup is at one of two statements.
LEMMA SetupStatements ==
  ASSUME TypeOK, NEW q \in Requests, job[q].op = "setup"
  PROVE  pc[q] \in {"record", "finish"}
  BY AtStatement DEF JobInOrder, StatementsOf

\* An update takes a row nobody has, and none at all while a setup is under way.
LEMMA UpdateLeaves ==
  ASSUME TypeOK, NEW r \in Requests, NEW u \in Users, NEW new, NEW next, UpdateUser(r, u, new, next)
  PROVE  (\A q \in Requests \ {r} : Untouched(q)) /\ TakesFairly(r)
<1>1. Typed /\ NoOne \notin Requests /\ u # Setting
  BY DEF TypeOK, ConstantsAssumption
<1>2. \A q \in Requests \ {r} : pc'[q] = pc[q] /\ job'[q] = job[q] /\ tx'[q] = tx[q]
  BY <1>1 DEF UpdateUser, Goto, Typed
<1>3. CASE MayLock(r, u) /\ lock' = [lock EXCEPT ![u] = r]
  <2>1. \A q \in Requests \ {r} : job[q].op # "setup"
    BY <1>1, <1>3, SetupStatements DEF MayLock
  <2>2. \A q \in Requests \ {r}, v \in Users : lock'[v] = q <=> lock[v] = q
    BY <1>1, <1>3 DEF MayLock, Typed
  <2>3. QED
    BY <1>2, <2>1, <2>2 DEF Untouched, TakesFairly
<1>4. CASE UNCHANGED lock
  BY <1>2, <1>4 DEF Untouched, TakesFairly
<1>5. QED
  BY <1>3, <1>4 DEF UpdateUser

\* A record added to the transaction takes no row of app_user.
LEMMA RecordLeaves ==
  ASSUME TypeOK, NEW r \in Requests, NEW record, NEW next, RecordAction(r, record, next)
  PROVE  (\A q \in Requests \ {r} : Untouched(q)) /\ TakesFairly(r)
<1>1. CASE Rollback(r)
  BY <1>1, RollbackLeaves
<1>2. CASE IsAdmin(r)
  BY <1>2 DEF RecordAction, Goto, Untouched, TakesFairly, TypeOK, Typed
<1>3. QED
  BY <1>1, <1>2 DEF RecordAction

\* A request that arrives takes no row.
LEMMA ServeLeaves ==
  ASSUME TypeOK, NEW r \in Requests, NEW s, NEW j, NEW label, Serve(r, s, j, label)
  PROVE  (\A q \in Requests \ {r} : Untouched(q)) /\ TakesFairly(r)
  BY DEF Serve, Goto, Untouched, TakesFairly, TypeOK, Typed

\* Whatever step a request takes, the others stay where they are.
LEMMA StepLeavesOthers ==
  ASSUME TypeOK, \A q \in Requests : SetsUpAlone(q),
         NEW r \in Requests, Arrive(r) \/ Statement(r)
  PROVE  (\A q \in Requests \ {r} : Untouched(q)) /\ TakesFairly(r)
<1> DEFINE Leaves == (\A q \in Requests \ {r} : Untouched(q)) /\ TakesFairly(r)
<1>1. Typed /\ NoOne \notin Requests /\ Setting \notin Users
  BY DEF TypeOK, ConstantsAssumption
<1>2. job[r].op \in {"change_account", "reset_password", "add_person", "sign_in", "replace_password"}
        => job[r].subject \in Users
  BY AtStatement DEF JobInOrder
<1>3. ASSUME Arrive(r) PROVE Leaves
  <2>1. ASSUME NEW s \in Sessions,
               EndAtRequest(r, s) \/ TurnAway(r, s) \/ StartSignOut(r, s)
        PROVE  Leaves
    BY <1>1, <2>1 DEF EndAtRequest, TurnAway, StartSignOut, Goto, Untouched, TakesFairly, Typed, tables
  <2>2. ASSUME NEW s \in Sessions,
               \/ \E u \in Users, patch \in Patches : AskChangeAccount(r, s, u, patch)
               \/ \E u \in Users : AskResetPassword(r, s, u)
               \/ \E u \in Users, role \in Role : AskAddPerson(r, s, u, role)
               \/ \E change \in LimitChange : AskChangeLimits(r, s, change)
               \/ AskReplacePassword(r, s)
        PROVE  Leaves
    BY <2>2, ServeLeaves DEF AskChangeAccount, AskResetPassword, AskAddPerson, AskChangeLimits,
       AskReplacePassword
  <2>3. ASSUME NEW u \in Users, SetUp(r, u) PROVE Leaves
    <3>1. CASE Goto(r, "done") /\ UNCHANGED <<tables, lock, job, tx>>
      BY <1>1, <3>1 DEF Goto, Untouched, TakesFairly, Typed, tables
    <3>2. CASE ~(Goto(r, "done") /\ UNCHANGED <<tables, lock, job, tx>>)
      <4>1. /\ lock' = [lock EXCEPT ![u] = r]
            /\ \E t : tx' = [tx EXCEPT ![r].draft = t]
            /\ \E j : job' = [job EXCEPT ![r] = j]
            /\ Goto(r, "record")
            /\ TableFree(r)
        BY <2>3, <3>2 DEF SetUp
      <4>2. \A q \in Requests \ {r} : Untouched(q)
        BY <1>1, <4>1 DEF TableFree, Goto, Untouched, Typed
      <4>3. ASSUME NEW q \in Requests \ {r}, job[q].op = "setup"
            PROVE  FALSE
        <5>1. job[q].subject \in Users /\ lock[job[q].subject] = q
          BY <4>3, AtStatement DEF JobInOrder, SetsUpAlone
        <5>2. QED
          BY <1>1, <4>1, <4>3, <5>1 DEF TableFree
      <4>4. QED
        BY <4>2, <4>3 DEF TakesFairly
    <3>3. QED
      BY <3>1, <3>2
  <2>4. ASSUME NEW u \in Users, NEW password \in {"chosen", "issued"}, SignIn(r, u, password)
        PROVE  Leaves
    BY <1>1, <2>4 DEF SignIn, Goto, Untouched, TakesFairly, Typed, tables
  <2>5. QED
    BY <1>3, <2>1, <2>2, <2>3, <2>4 DEF Arrive
<1>4. ASSUME Statement(r) PROVE Leaves
  <2>1. ReadPerson(r) => Leaves
    BY <1>1, RollbackLeaves DEF ReadPerson, Goto, Untouched, TakesFairly, Typed, tables
  <2>2. RecordRole(r) \/ RecordState(r) \/ RecordChange(r) => Leaves
    BY RecordLeaves DEF RecordRole, RecordState, RecordChange
  <2>3. ChangeRole(r) \/ ChangeState(r) \/ Reset(r) \/ Rehash(r) \/ NewPassword(r) => Leaves
    BY UpdateLeaves, RollbackLeaves, AtStatement
       DEF ChangeRole, ChangeState, Reset, Rehash, NewPassword, GuardRefuses, JobInOrder, StatementsOf
  <2>4. EndSessions(r) => Leaves
    BY <1>1 DEF EndSessions, Goto, Untouched, TakesFairly, Typed, tables
  <2>5. ASSUME Add(r) PROVE Leaves
    <3>1. job[r].subject \in Users
      BY <2>5, AtStatement DEF Add, JobInOrder, StatementsOf
    <3>2. CASE Rollback(r)
      BY <3>2, RollbackLeaves
    <3>3. CASE ~Rollback(r)
      <4>1. /\ MayLock(r, job[r].subject)
            /\ lock' = [lock EXCEPT ![job[r].subject] = r]
            /\ \E t : tx' = [tx EXCEPT ![r].draft = t]
            /\ Goto(r, "record")
            /\ UNCHANGED job
        BY <2>5, <3>3 DEF Add
      <4>2. \A q \in Requests \ {r} : job[q].op # "setup"
        BY <1>1, <3>1, <4>1, SetupStatements DEF MayLock
      <4>3. \A q \in Requests \ {r} : Untouched(q)
        BY <1>1, <3>1, <4>1 DEF MayLock, Goto, Untouched, Typed
      <4>4. QED
        BY <4>2, <4>3 DEF TakesFairly
    <3>4. QED
      BY <3>2, <3>3
  <2>6. ReadLimits(r) => Leaves
    BY <1>1, RollbackLeaves DEF ReadLimits, Goto, Untouched, TakesFairly, Typed, tables
  <2>7. ASSUME ChangeLimits(r) PROVE Leaves
    <3>1. \A q \in Requests \ {r} : pc'[q] = pc[q] /\ job'[q] = job[q] /\ tx'[q] = tx[q]
      BY <1>1, <2>7 DEF ChangeLimits, Goto, Typed
    <3>2. \A u \in Users : lock'[u] = lock[u]
      BY <1>1, <2>7 DEF ChangeLimits, Typed
    <3>3. QED
      BY <3>1, <3>2 DEF Untouched, TakesFairly
  <2>8. SignOut(r) => Leaves
    BY <1>1 DEF SignOut, Goto, Untouched, TakesFairly, Typed
  <2>9. Finish(r) \/ CommitAnswered(r) => Leaves
    <3>1. ASSUME Commit(r) PROVE Leaves
      BY <1>1, <3>1 DEF Commit, Goto, Released, Untouched, TakesFairly, Typed
    <3>2. QED
      BY <1>1, <3>1, RollbackLeaves
         DEF Finish, CommitAnswered, Goto, Untouched, TakesFairly, Typed, tables
  <2>10. QED
    BY <1>4, <2>1, <2>2, <2>3, <2>4, <2>5, <2>6, <2>7, <2>8, <2>9 DEF Statement
<1>5. QED
  BY <1>3, <1>4
-----------------------------------------------------------------------------
(* What a request that a step leaves alone keeps.                          *)

\* Sessions that were opened stay their owner's and never run again once ended.
SessionsSettle ==
  \A s \in Sessions : sessions[s].ended # "none" =>
    /\ sessions'[s].ended # "none" /\ sessions'[s].owner = sessions[s].owner
    /\ sessions'[s].ended = "running" => sessions[s].ended = "running"

\* Where an admin is lost, or one was, the removal is on record.
LossesRecorded ==
  /\ Removed \subseteq Removed'
  /\ \A v \in Users : Enabled(users[v]) /\ ~Enabled(users'[v]) => v \in Removed'

\* A request left alone stays as it was, whatever its neighbour commits.
LEMMA UntouchedKeeps ==
  ASSUME TypeOK, NEW q \in Requests, UnderWay(q), Untouched(q), SessionsSettle, LossesRecorded,
         \A u \in Users : lock[u] = q => users'[u] = users[u],
         job[q].op = "setup" => \A v \in Users : users'[v].role # "admin" /\ lock'[v] \in {q, NoOne}
  PROVE  UnderWay(q)'
<1>1. \A action : Adds(q, action)' <=> Adds(q, action)
  BY DEF Untouched, Adds
<1>2. \A role : AddsRole(q, role)' <=> AddsRole(q, role)
  BY DEF Untouched, AddsRole
<1>3. Disables(q)' <=> Disables(q)
  BY DEF Disables, Untouched
<1>4. MustEnd(q)' <=> MustEnd(q)
  BY <1>3 DEF MustEnd, Untouched
<1>5. Bare(q)'
  BY DEF UnderWay, Bare, Untouched
<1>6. Writes(q)'
  BY DEF UnderWay, Writes, Untouched
<1>7. Records(q)'
  <2>1. Adds(q, IF job[q].patch.disabled = "yes" THEN "account_disabled" ELSE "account_enabled")
          => Adds(q, IF job[q].patch.disabled = "yes" THEN "account_disabled" ELSE "account_enabled")'
    BY <1>1 DEF Untouched
  <2>2. AddsRole(q, job[q].patch.role) => AddsRole(q, job[q].patch.role)'
    BY <1>2 DEF Untouched
  <2>3. QED
    BY <1>1, <2>1, <2>2 DEF UnderWay, Records, Untouched
<1>8. Changes(q)'
  <2>1. ASSUME NEW u \in Users, lock'[u] = q, users'[u].role # "none"
        PROVE  /\ lock[u] = q /\ users'[u] = users[u] /\ tx'[q] = tx[q] /\ job'[q] = job[q]
               /\ (\E v \in Users \ {u} : Enabled(users[v])) \/ Removed \ {u} # {}
                    => (\E v \in Users \ {u} : Enabled(users'[v])) \/ Removed' \ {u} # {}
    BY <2>1 DEF Untouched, LossesRecorded
  <2>2. AddsRole(q, tx[q].draft.role) => AddsRole(q, tx[q].draft.role)'
    BY <1>2 DEF Untouched
  <2>3. Changes(q)
    BY DEF UnderWay
  <2>4. QED
    BY <1>1, <2>1, <2>2, <2>3 DEF Changes
<1>9. EndsSessions(q)'
  <2>1. \A s \in tx[q].running : s \in Sessions
    BY DEF TypeOK, Typed, Transaction
  <2>2. QED
    BY <1>3, <1>4, <2>1 DEF UnderWay, EndsSessions, Untouched, SessionsSettle
<1>10. SetsUpAlone(q)'
  BY AtStatement DEF UnderWay, SetsUpAlone, Untouched, JobInOrder
<1>11. QED
  BY <1>5, <1>6, <1>7, <1>8, <1>9, <1>10 DEF UnderWay

\* What no step of one request may do to another's setup, nothing committed.
LEMMA QuietKeeps ==
  ASSUME TypeOK, TypeOK', NEW r \in Requests, NEW q \in Requests \ {r}, UnderWay(q), Untouched(q),
         TakesFairly(r), UNCHANGED <<users, audit>>, SessionsSettle,
         \A p \in Requests \ {r} : Untouched(p)
  PROVE  UnderWay(q)'
<1>1. LossesRecorded
  BY DEF LossesRecorded, Removed, Removals
<1>2. job[q].op = "setup" => \A v \in Users : users'[v].role # "admin" /\ lock'[v] \in {q, NoOne}
  <2>1. ASSUME job[q].op = "setup", NEW v \in Users
        PROVE  lock'[v] \in {q, NoOne}
    <3>1. lock[v] \in {q, NoOne} /\ NoOne \notin Requests
      BY <2>1 DEF UnderWay, SetsUpAlone, ConstantsAssumption
    <3>2. lock'[v] # r
      BY <2>1, <3>1 DEF TakesFairly
    <3>3. lock'[v] \in Requests \union {NoOne}
      BY DEF TypeOK, Typed
    <3>4. QED
      BY <3>1, <3>2, <3>3 DEF Untouched
  <2>2. QED
    BY <2>1 DEF UnderWay, SetsUpAlone
<1>3. QED
  BY <1>1, <1>2, UntouchedKeeps

\* A request without a job is under way in no sense.
LEMMA DoneUnderWay ==
  ASSUME NEW r \in Requests, job'[r] = NoJob, tx'[r] = NoTransaction, pc'[r] \in {"idle", "done"},
         \A u \in Users : lock'[u] # r
  PROVE  UnderWay(r)'
<1>1. Bare(r)' /\ Writes(r)' /\ Changes(r)' /\ SetsUpAlone(r)'
  BY DEF Bare, Writes, Changes, SetsUpAlone, NoJob
<1>2. Records(r)'
  BY DEF Records, NoTransaction, NoJob
<1>3. EndsSessions(r)'
  BY DEF EndsSessions, NoTransaction, NoJob
<1>4. QED
  BY <1>1, <1>2, <1>3 DEF UnderWay

\* So does one that was undone.
LEMMA RollbackUnderWay ==
  ASSUME TypeOK, NEW r \in Requests, Rollback(r)
  PROVE  UnderWay(r)'
<1>1. job'[r] = NoJob /\ tx'[r] = NoTransaction /\ pc'[r] = "done"
  BY DEF Rollback, Goto, TypeOK, Typed
<1>2. \A u \in Users : lock'[u] # r
  BY DEF Rollback, Released, TypeOK, Typed, ConstantsAssumption
<1>3. QED
  BY <1>1, <1>2, DoneUnderWay

\* A request that holds no row: it has no job, or one that writes none.
LEMMA BareHoldsNothing ==
  ASSUME NEW r \in Requests, Writes(r), job[r].subject = NoOne
  PROVE  \A u \in Users : lock[u] # r
  BY DEF Writes, ConstantsAssumption

-----------------------------------------------------------------------------
(* What the request that takes the step keeps, where nothing is committed.  *)

\* A record added is one the transaction adds, and those before it stay.
LEMMA AppendAdds ==
  ASSUME NEW r \in Requests, tx[r].records \in Seq(Record), NEW record \in Record,
         tx'[r].records = Append(tx[r].records, record), job'[r].subject = job[r].subject
  PROVE  /\ \A action : Adds(r, action) => Adds(r, action)'
         /\ \A role : AddsRole(r, role) => AddsRole(r, role)'
         /\ record.subject = job[r].subject => Adds(r, record.action)'
         /\ record.subject = job[r].subject /\ record.action = "role_changed"
              => AddsRole(r, record.role)'
         /\ \A i \in 1 .. Len(tx'[r].records) :
              \/ tx'[r].records[i] = record
              \/ \E k \in 1 .. Len(tx[r].records) : tx'[r].records[i] = tx[r].records[k]
<1> DEFINE old == tx[r].records
           new == Append(old, record)
<1>1. /\ Len(new) = Len(old) + 1 /\ Len(old) \in Nat
      /\ new[Len(old) + 1] = record
      /\ \A i \in 1 .. Len(old) : new[i] = old[i]
  OBVIOUS
<1>2. \A i \in 1 .. Len(old) : i \in 1 .. Len(new)
  BY <1>1
<1>3. Len(old) + 1 \in 1 .. Len(new)
  BY <1>1
<1>4. \A i \in 1 .. Len(new) : i = Len(old) + 1 \/ i \in 1 .. Len(old)
  BY <1>1
<1>5. tx[r].records = old /\ tx'[r].records = new
  OBVIOUS
<1> HIDE DEF old, new
<1>6. ASSUME NEW action, Adds(r, action) PROVE Adds(r, action)'
  BY <1>1, <1>2, <1>5, <1>6 DEF Adds
<1>7. ASSUME NEW role, AddsRole(r, role) PROVE AddsRole(r, role)'
  BY <1>1, <1>2, <1>5, <1>7 DEF AddsRole
<1>8. record.subject = job[r].subject => Adds(r, record.action)'
  BY <1>1, <1>3, <1>5 DEF Adds
<1>9. record.subject = job[r].subject /\ record.action = "role_changed" => AddsRole(r, record.role)'
  BY <1>1, <1>3, <1>5 DEF AddsRole
<1>10. QED
  BY <1>1, <1>4, <1>5, <1>6, <1>7, <1>8, <1>9

\* Where the rest of a transaction stays, so does what it says of its changes.
LEMMA ChangesKept ==
  ASSUME NEW r \in Requests, Changes(r), UNCHANGED <<users, audit>>,
         tx'[r].draft = tx[r].draft, job'[r].op = job[r].op,
         \A u \in Users : lock'[u] = r => lock[u] = r,
         \A action : Adds(r, action) => Adds(r, action)',
         \A role : AddsRole(r, role) => AddsRole(r, role)'
  PROVE  Changes(r)'
<1>1. Removed' = Removed
  BY DEF Removed, Removals
<1>2. \A u \in Users : AddsRole(r, tx[r].draft.role) => AddsRole(r, tx[r].draft.role)'
  OBVIOUS
<1>3. QED
  BY <1>1, <1>2 DEF Changes

\* Adding a record keeps what is under way, where the statement that follows is
\* one the record is for.
LEMMA RecordUnderWay ==
  ASSUME TypeOK, NEW r \in Requests, UnderWay(r), SessionsSettle,
         NEW record \in Record, record.subject = job[r].subject,
         NEW next \in {"change_role", "change_state", "change_limits", "finish"},
         pc[r] \in {"record_role", "record_state", "record"},
         RecordAction(r, record, next),
         next = "change_role" => record.action = "role_changed" /\ record.role = job[r].patch.role,
         next = "change_state" =>
           record.action = (IF job[r].patch.disabled = "yes" THEN "account_disabled" ELSE "account_enabled"),
         next = "change_limits" => record.action = "session_limits_changed",
         next = "finish" =>
           /\ pc[r] = "record"
           /\ job[r].op = "add_person" => record.action = "person_added"
           /\ job[r].op = "setup" => record.action = "first_admin_created"
           /\ job[r].op = "reset_password" => record.action = "password_reset"
           /\ job[r].op # "change_session_limits"
           /\ job[r].op # "change_account",
         record.action = "first_admin_created" => job[r].op = "setup"
  PROVE  UnderWay(r)'
<1>1. CASE Rollback(r)
  BY <1>1, RollbackUnderWay
<1>2. CASE ~Rollback(r)
  <2>1. tx[r] \in Transaction /\ tx[r].records \in Seq(Record) /\ job[r] \in Job
    BY DEF TypeOK, Typed, Transaction
  <2>2. /\ tx' = [tx EXCEPT ![r].records = Append(tx[r].records, record)]
        /\ Goto(r, next)
        /\ UNCHANGED <<tables, lock, job>>
    BY <1>2 DEF RecordAction
  <2>3. tx'[r] = [tx[r] EXCEPT !.records = Append(tx[r].records, record)]
    BY <2>2 DEF TypeOK, Typed
  <2>4. /\ tx'[r].records = Append(tx[r].records, record)
        /\ tx'[r].draft = tx[r].draft /\ tx'[r].ends = tx[r].ends /\ tx'[r].limits = tx[r].limits
        /\ tx'[r].missed = tx[r].missed /\ tx'[r].running = tx[r].running
    BY <2>1, <2>3 DEF Transaction
  <2>5. pc'[r] = next /\ job' = job /\ lock' = lock /\ users' = users /\ audit' = audit
    BY <2>2 DEF Goto, TypeOK, Typed, tables
  <2>6. /\ \A action : Adds(r, action) => Adds(r, action)'
        /\ \A role : AddsRole(r, role) => AddsRole(r, role)'
        /\ Adds(r, record.action)'
        /\ record.action = "role_changed" => AddsRole(r, record.role)'
        /\ \A i \in 1 .. Len(tx'[r].records) :
              \/ tx'[r].records[i] = record
              \/ \E k \in 1 .. Len(tx[r].records) : tx'[r].records[i] = tx[r].records[k]
    BY <2>1, <2>4, <2>5, AppendAdds
  <2>7. Bare(r)'
    <3>1. job[r].op \notin {"none", "sign_out"}
      BY <2>1, AtStatement DEF JobInOrder, StatementsOf, Job
    <3>2. QED
      BY <2>5, <3>1 DEF UnderWay, Bare
  <2>8. Writes(r)'
    BY <2>4, <2>5 DEF UnderWay, Writes
  <2>9. Records(r)'
    <3>1. tx[r].limits = NoLimitChange
      BY DEF UnderWay, Records
    <3>2. \A i \in 1 .. Len(tx'[r].records) :
            tx'[r].records[i].action = "first_admin_created" => job[r].op = "setup"
      BY <2>6 DEF UnderWay, Records
    <3>3. next = "change_role" => AddsRole(r, job[r].patch.role)'
      BY <2>5, <2>6
    <3>4. next = "change_state" =>
            Adds(r, IF job[r].patch.disabled = "yes" THEN "account_disabled" ELSE "account_enabled")'
      BY <2>5, <2>6
    <3>5. next = "change_limits" => Adds(r, "session_limits_changed")'
      BY <2>6
    <3>6. next = "finish" =>
            /\ job[r].op = "add_person" => Adds(r, "person_added")'
            /\ job[r].op = "setup" => Adds(r, "first_admin_created")'
            /\ job[r].op = "reset_password" => Adds(r, "password_reset")'
      BY <2>6
    <3>7. QED
      BY <2>4, <2>5, <3>1, <3>2, <3>3, <3>4, <3>5, <3>6 DEF Records
  <2>10. Changes(r)'
    BY <2>4, <2>5, <2>6, ChangesKept DEF UnderWay
  <2>11. EndsSessions(r)'
    <3>1. /\ Disables(r)' <=> Disables(r)
          /\ MustEnd(r)' <=> MustEnd(r)
      BY <2>4, <2>5 DEF Disables, MustEnd
    <3>2. tx[r].running \subseteq Sessions
      BY <2>1 DEF Transaction
    <3>3. pc[r] = "record" => job[r].op # "change_account"
      BY <2>1, AtStatement DEF JobInOrder, StatementsOf, Job
    <3>4. QED
      BY <2>4, <2>5, <3>1, <3>2, <3>3 DEF UnderWay, EndsSessions, SessionsSettle
  <2>12. SetsUpAlone(r)'
    BY <2>5 DEF UnderWay, SetsUpAlone
  <2>13. QED
    BY <2>7, <2>8, <2>9, <2>10, <2>11, <2>12 DEF UnderWay
<1>3. QED
  BY <1>1, <1>2

\* The three statements that add a record.
LEMMA RecordsUnderWay ==
  ASSUME TypeOK, NEW r \in Requests, UnderWay(r), SessionsSettle,
         RecordRole(r) \/ RecordState(r) \/ RecordChange(r)
  PROVE  UnderWay(r)'
<1>1. JobInOrder(job[r], pc[r]) /\ job[r] \in Job
  BY AtStatement
<1>2. CASE RecordRole(r)
  <2> DEFINE record == [RecordOf(r, "role_changed") EXCEPT !.role = job[r].patch.role]
  <2>1. job[r].op = "change_account" /\ job[r].patch.role \in Role
    BY <1>1, <1>2 DEF RecordRole, JobInOrder, StatementsOf, Job
  <2>2. RecordOf(r, "role_changed") \in Record
    BY <2>1, RecordOfType
  <2>3. /\ record \in Record /\ record.subject = job[r].subject
        /\ record.action = "role_changed" /\ record.role = job[r].patch.role
    BY <2>1, <2>2 DEF Record, RecordOf
  <2>4. RecordAction(r, record, "change_role") /\ pc[r] = "record_role"
    BY <1>2 DEF RecordRole
  <2> HIDE DEF record
  <2>5. QED
    BY <2>3, <2>4, RecordUnderWay
<1>3. CASE RecordState(r)
  <2> DEFINE action == IF job[r].patch.disabled = "yes" THEN "account_disabled" ELSE "account_enabled"
             record == RecordOf(r, action)
  <2>1. job[r].op = "change_account"
    BY <1>1, <1>3 DEF RecordState, JobInOrder, StatementsOf, Job
  <2>2. action \in {"account_disabled", "account_enabled"}
    OBVIOUS
  <2>3. RecordAction(r, record, "change_state") /\ pc[r] = "record_state"
    BY <1>3 DEF RecordState
  <2>4. record \in Record /\ record.subject = job[r].subject /\ record.action = action
    <3> HIDE DEF action
    <3>1. record \in Record
      BY <2>1, <2>2, RecordOfType
    <3>2. QED
      BY <3>1 DEF RecordOf
  <2>5. record.action # "first_admin_created"
    BY <2>2, <2>4
  <2>6. record.action = (IF job[r].patch.disabled = "yes" THEN "account_disabled" ELSE "account_enabled")
    BY <2>4
  <2> HIDE DEF record, action
  <2>7. QED
    BY <2>3, <2>4, <2>5, <2>6, RecordUnderWay
<1>4. CASE RecordChange(r)
  <2>1. job[r].op \in {"reset_password", "add_person", "setup", "change_session_limits"}
    BY <1>4 DEF RecordChange
  <2>2. /\ RecordOf(r, "password_reset") \in Record
        /\ RecordOf(r, "person_added") \in Record
        /\ RecordOf(r, "first_admin_created") \in Record
        /\ RecordOf(r, "session_limits_changed") \in Record
    BY <2>1, RecordOfType
  <2>3. CASE job[r].op = "reset_password"
    <3>1. RecordAction(r, RecordOf(r, "password_reset"), "finish") /\ pc[r] = "record"
      BY <1>4, <2>3 DEF RecordChange
    <3>2. /\ RecordOf(r, "password_reset").action = "password_reset"
          /\ RecordOf(r, "password_reset").subject = job[r].subject
      BY DEF RecordOf
    <3>3. QED
      BY <2>2, <2>3, <3>1, <3>2, RecordUnderWay
  <2>4. CASE job[r].op = "add_person"
    <3> DEFINE record == [RecordOf(r, "person_added") EXCEPT !.role = job[r].patch.role]
    <3>1. RecordAction(r, record, "finish") /\ pc[r] = "record"
      BY <1>4, <2>4 DEF RecordChange
    <3>2. /\ record \in Record /\ record.action = "person_added"
          /\ record.subject = job[r].subject
      BY <1>1, <2>2 DEF RecordOf, Record, Job, Patch
    <3> HIDE DEF record
    <3>3. QED
      BY <2>4, <3>1, <3>2, RecordUnderWay
  <2>5. CASE job[r].op = "setup"
    <3>1. RecordAction(r, RecordOf(r, "first_admin_created"), "finish") /\ pc[r] = "record"
      BY <1>4, <2>5 DEF RecordChange
    <3>2. /\ RecordOf(r, "first_admin_created").action = "first_admin_created"
          /\ RecordOf(r, "first_admin_created").subject = job[r].subject
      BY DEF RecordOf
    <3>3. QED
      BY <2>2, <2>5, <3>1, <3>2, RecordUnderWay
  <2>6. CASE job[r].op = "change_session_limits"
    <3> DEFINE record == [RecordOf(r, "session_limits_changed") EXCEPT !.limits = job[r].limits]
    <3>1. RecordAction(r, record, "change_limits") /\ pc[r] = "record"
      BY <1>4, <2>6 DEF RecordChange
    <3>2. /\ record \in Record /\ record.action = "session_limits_changed"
          /\ record.subject = job[r].subject
      BY <1>1, <2>2 DEF RecordOf, Record, Job
    <3> HIDE DEF record
    <3>3. QED
      BY <2>6, <3>1, <3>2, RecordUnderWay
  <2>7. QED
    BY <2>1, <2>3, <2>4, <2>5, <2>6
<1>5. QED
  BY <1>2, <1>3, <1>4

\* An update of the subject's row keeps what is under way, where each column it
\* changes is on record and the guard let it through.
LEMMA UpdateUnderWay ==
  ASSUME TypeOK, NEW r \in Requests, UnderWay(r), SessionsSettle,
         NEW u \in Users, u = job[r].subject, NEW new \in Row,
         NEW next \in {"record_state", "end_sessions", "finish"},
         pc[r] \in {"change_role", "change_state", "reset", "rehash", "new_password"},
         UpdateUser(r, u, new, next),
         RowSeen(r, u).role # "none" => new.role # "none",
         new.role # RowSeen(r, u).role => AddsRole(r, new.role),
         RowSeen(r, u).disabled # new.disabled =>
           Adds(r, IF new.disabled THEN "account_disabled" ELSE "account_enabled"),
         ~RowSeen(r, u).must_change_password /\ new.must_change_password => job[r].op = "reset_password",
         next = "finish" => job[r].op # "reset_password",
         next # "end_sessions" /\ new.disabled => RowSeen(r, u).disabled,
         job[r].op = "change_account" => pc[r] \in {"change_role", "change_state"}
  PROVE  UnderWay(r)'
<1>1. Typed /\ tx[r] \in Transaction /\ job[r] \in Job /\ JobInOrder(job[r], pc[r])
  BY AtStatement
<1>2. job[r].op \in {"change_account", "reset_password", "sign_in", "replace_password"}
  BY <1>1 DEF JobInOrder, StatementsOf, Job
<1>3. /\ pc'[r] = next /\ UNCHANGED <<users, sessions, audit, job>>
  BY <1>1 DEF UpdateUser, Goto, Typed, tables
<1>4. tx[r].limits = NoLimitChange
  BY DEF UnderWay, Records
<1>5. CASE ~(RowSeen(r, u).role # "none" /\ Reaches(r, u))
  <2>1. tx' = [tx EXCEPT ![r].missed = TRUE] /\ UNCHANGED lock
    BY <1>5 DEF UpdateUser
  <2>2. tx'[r] = [tx[r] EXCEPT !.missed = TRUE]
    BY <1>1, <2>1 DEF Typed
  <2>3. /\ tx'[r].records = tx[r].records /\ tx'[r].draft = tx[r].draft
        /\ tx'[r].limits = tx[r].limits /\ tx'[r].running = tx[r].running /\ tx'[r].missed = TRUE
    BY <1>1, <2>2 DEF Transaction
  <2>4. /\ \A action : Adds(r, action) => Adds(r, action)'
        /\ \A role : AddsRole(r, role) => AddsRole(r, role)'
    BY <1>3, <2>3 DEF Adds, AddsRole
  <2>5. Bare(r)' /\ Writes(r)' /\ SetsUpAlone(r)'
    BY <1>2, <1>3, <2>1, <2>3 DEF UnderWay, Bare, Writes, SetsUpAlone
  <2>6. Records(r)'
    BY <1>2, <1>3, <1>4, <2>3 DEF UnderWay, Records
  <2>7. Changes(r)'
    BY <1>3, <2>1, <2>3, <2>4, ChangesKept DEF UnderWay
  <2>8. EndsSessions(r)'
    <3>1. Disables(r)' <=> Disables(r)
      BY <1>3, <2>1, <2>3 DEF Disables
    <3>2. tx[r].running \subseteq Sessions
      BY <1>1 DEF Transaction
    <3>3. QED
      BY <1>3, <2>3, <3>1, <3>2 DEF UnderWay, EndsSessions, SessionsSettle
  <2>9. QED
    BY <2>5, <2>6, <2>7, <2>8 DEF UnderWay
<1>6. CASE RowSeen(r, u).role # "none" /\ Reaches(r, u)
  <2>1. /\ Guard(r, u, new)
        /\ lock' = [lock EXCEPT ![u] = r]
        /\ tx' = [tx EXCEPT ![r].draft = new, ![r].running = RunningSessions(u)]
    BY <1>6 DEF UpdateUser
  <2>2. tx'[r] = [tx[r] EXCEPT !.draft = new, !.running = RunningSessions(u)]
    BY <1>1, <2>1 DEF Typed
  <2>3. /\ tx'[r].records = tx[r].records /\ tx'[r].draft = new
        /\ tx'[r].limits = tx[r].limits /\ tx'[r].running = RunningSessions(u)
        /\ tx'[r].ends = tx[r].ends
    BY <1>1, <2>2 DEF Transaction
  <2>4. /\ \A action : Adds(r, action) <=> Adds(r, action)'
        /\ \A role : AddsRole(r, role) <=> AddsRole(r, role)'
    BY <1>3, <2>3 DEF Adds, AddsRole
  <2>5. \A v \in Users : lock'[v] = r <=> v = u \/ lock[v] = r
    BY <1>1, <2>1 DEF Typed
  <2>6. \A v \in Users : lock[v] = r => v = u
    BY DEF UnderWay, Writes
  <2>7. users[u].role # "none"
    <3>1. CASE lock[u] = r
      BY <1>2, <3>1 DEF UnderWay, Writes
    <3>2. CASE lock[u] # r
      BY <1>6, <3>2 DEF RowSeen
    <3>3. QED
      BY <3>1, <3>2
  <2>8. Bare(r)' /\ SetsUpAlone(r)'
    BY <1>2, <1>3 DEF UnderWay, Bare, SetsUpAlone
  <2>9. Writes(r)'
    BY <1>2, <1>3, <1>6, <2>3, <2>5, <2>6, <2>7 DEF Writes
  <2>10. Records(r)'
    BY <1>2, <1>3, <1>4, <2>3 DEF UnderWay, Records
  <2>11. Removed' = Removed
    BY <1>3 DEF Removed, Removals
  <2>12. new.role # users[u].role => AddsRole(r, new.role)
    <3>1. CASE lock[u] = r
      <4>1. RowSeen(r, u) = tx[r].draft
        BY <3>1 DEF RowSeen
      <4>2. tx[r].draft.role # users[u].role => AddsRole(r, tx[r].draft.role)
        BY <2>7, <3>1 DEF UnderWay, Changes
      <4>3. QED
        BY <4>1, <4>2
    <3>2. CASE lock[u] # r
      BY <3>2 DEF RowSeen
    <3>3. QED
      BY <3>1, <3>2
  <2>13. /\ ~users[u].disabled /\ new.disabled => Adds(r, "account_disabled")
         /\ users[u].disabled /\ ~new.disabled => Adds(r, "account_enabled")
    <3>1. CASE lock[u] = r
      <4>1. RowSeen(r, u) = tx[r].draft /\ tx[r].draft \in Row
        BY <1>1, <3>1 DEF RowSeen, Transaction
      <4>2. /\ ~users[u].disabled /\ tx[r].draft.disabled => Adds(r, "account_disabled")
            /\ users[u].disabled /\ ~tx[r].draft.disabled => Adds(r, "account_enabled")
        BY <2>7, <3>1 DEF UnderWay, Changes
      <4>3. tx[r].draft.disabled \in BOOLEAN /\ new.disabled \in BOOLEAN
        BY <4>1 DEF Row
      <4>4. QED
        BY <4>1, <4>2, <4>3
    <3>2. CASE lock[u] # r
      <4>1. RowSeen(r, u) = users[u] /\ users[u].disabled \in BOOLEAN /\ new.disabled \in BOOLEAN
        BY <1>1, <3>2 DEF RowSeen, Typed, Row
      <4>2. QED
        BY <4>1
    <3>3. QED
      BY <3>1, <3>2
  <2>14. ~users[u].must_change_password /\ new.must_change_password => job[r].op = "reset_password"
    BY <2>7 DEF RowSeen, UnderWay, Changes
  <2>15. Enabled(users[u]) /\ ~Enabled(new)
           => (\E v \in Users \ {u} : Enabled(users[v])) \/ Removed \ {u} # {}
    <3>1. CASE lock[u] = r
      <4>1. RowSeen(r, u) = tx[r].draft
        BY <3>1 DEF RowSeen
      <4>2. Enabled(users[u]) /\ ~Enabled(tx[r].draft)
              => (\E v \in Users \ {u} : Enabled(users[v])) \/ Removed \ {u} # {}
        BY <2>7, <3>1 DEF UnderWay, Changes
      <4>3. Enabled(tx[r].draft) /\ ~Enabled(new) => \E v \in Users \ {u} : Enabled(users[v])
        BY <2>1, <4>1 DEF Guard, Enabled
      <4>4. QED
        BY <4>2, <4>3
    <3>2. CASE lock[u] # r
      BY <2>1, <3>2 DEF RowSeen, Guard, Enabled
    <3>3. QED
      BY <3>1, <3>2
  <2>16. Changes(r)'
    <3>1. ASSUME NEW v \in Users, lock'[v] = r
          PROVE  v = u
      BY <2>5, <2>6, <3>1
    <3>2. new.role # users[u].role => AddsRole(r, tx[r].draft.role)'
      BY <2>3, <2>4, <2>12
    <3>3. QED
      BY <1>3, <2>3, <2>4, <2>11, <2>13, <2>14, <2>15, <3>1, <3>2 DEF Changes
  <2>17. EndsSessions(r)'
    <3>1. \A s \in tx'[r].running : sessions'[s].ended # "none" /\ sessions'[s].owner = job'[r].subject
      BY <1>3, <2>3 DEF RunningSessions
    <3>2. job[r].op = "change_account" /\ next # "end_sessions" => ~Disables(r)'
      <4>1. ASSUME job[r].op = "change_account", next # "end_sessions", ~users[u].disabled
            PROVE  ~new.disabled
        <5>1. CASE lock[u] = r
          BY <4>1, <5>1 DEF RowSeen, UnderWay, EndsSessions, Disables
        <5>2. CASE lock[u] # r
          BY <4>1, <5>2 DEF RowSeen
        <5>3. QED
          BY <5>1, <5>2
      <4>2. QED
        BY <1>3, <2>3, <2>5, <2>6, <4>1 DEF Disables
    <3>3. QED
      BY <1>2, <1>3, <3>1, <3>2 DEF EndsSessions, MustEnd
  <2>18. QED
    BY <2>8, <2>9, <2>10, <2>16, <2>17 DEF UnderWay
<1>7. QED
  BY <1>5, <1>6

\* An update the trigger refuses is undone.
LEMMA GuardedUnderWay ==
  ASSUME TypeOK, NEW r \in Requests, NEW u, NEW new, GuardRefuses(r, u, new)
  PROVE  UnderWay(r)'
  BY RollbackUnderWay DEF GuardRefuses

\* The five updates of an account's row.
LEMMA UpdatesUnderWay ==
  ASSUME TypeOK, NEW r \in Requests, UnderWay(r), SessionsSettle
  PROVE  /\ ChangeRole(r) => UnderWay(r)'
         /\ ChangeState(r) => UnderWay(r)'
         /\ Reset(r) => UnderWay(r)'
         /\ Rehash(r) => UnderWay(r)'
         /\ NewPassword(r) => UnderWay(r)'
<1> DEFINE u == job[r].subject
           row == RowSeen(r, u)
<1>1. /\ JobInOrder(job[r], pc[r]) /\ job[r] \in Job
      /\ \A v \in Users : RowSeen(r, v) \in Row
  BY AtStatement
<1>2. ASSUME ChangeRole(r) PROVE UnderWay(r)'
  <2> DEFINE new == [row EXCEPT !.role = job[r].patch.role]
             next == IF StateChanges(job[r].patch, tx[r].read) THEN "record_state" ELSE "finish"
  <2>1. u \in Users /\ job[r].op = "change_account" /\ job[r].patch.role \in Role
    BY <1>1, <1>2 DEF ChangeRole, JobInOrder, StatementsOf, Job
  <2>2. row \in Row
    BY <1>1, <2>1
  <2>3. /\ new \in Row /\ new.role = job[r].patch.role /\ new.role # "none"
        /\ new.disabled = row.disabled /\ new.must_change_password = row.must_change_password
    BY <2>1, <2>2 DEF Row, Role
  <2>4. AddsRole(r, new.role)
    BY <1>2, <2>3 DEF ChangeRole, UnderWay, Records
  <2>5. next \in {"record_state", "end_sessions", "finish"} /\ pc[r] = "change_role"
    BY <1>2 DEF ChangeRole
  <2>6. UpdateUser(r, u, new, next) \/ GuardRefuses(r, u, new)
    BY <1>2 DEF ChangeRole
  <2> HIDE DEF u, new, next
  <2>7. u = job[r].subject /\ row = RowSeen(r, u)
    BY DEF u
  <2> HIDE DEF row
  <2>8. QED
    BY <2>1, <2>3, <2>4, <2>5, <2>6, <2>7, UpdateUnderWay, GuardedUnderWay
<1>3. ASSUME ChangeState(r) PROVE UnderWay(r)'
  <2> DEFINE disable == job[r].patch.disabled = "yes"
             new == [row EXCEPT !.disabled = disable]
             next == IF disable THEN "end_sessions" ELSE "finish"
  <2>1. u \in Users /\ job[r].op = "change_account"
    BY <1>1, <1>3 DEF ChangeState, JobInOrder, StatementsOf, Job
  <2>2. row \in Row
    BY <1>1, <2>1
  <2>3. Adds(r, IF job[r].patch.disabled = "yes" THEN "account_disabled" ELSE "account_enabled")
    BY <1>3 DEF ChangeState, UnderWay, Records
  <2>4. disable \in BOOLEAN
    OBVIOUS
  <2>5. Adds(r, IF disable THEN "account_disabled" ELSE "account_enabled")
    BY <2>3
  <2>6. next \in {"record_state", "end_sessions", "finish"} /\ pc[r] = "change_state"
    BY <1>3 DEF ChangeState
  <2>7. UpdateUser(r, u, new, next) \/ GuardRefuses(r, u, new)
    BY <1>3 DEF ChangeState
  <2>8. next # "end_sessions" => ~disable
    OBVIOUS
  <2>9. u = job[r].subject /\ row = RowSeen(r, u)
    OBVIOUS
  <2> HIDE DEF u, row, disable
  <2>10. /\ new \in Row /\ new.role = row.role /\ new.disabled = disable
         /\ new.must_change_password = row.must_change_password
    BY <2>2, <2>4 DEF Row
  <2> HIDE DEF new, next
  <2>11. CASE GuardRefuses(r, u, new)
    BY <2>11, GuardedUnderWay
  <2>12. CASE UpdateUser(r, u, new, next)
    BY <2>1, <2>5, <2>6, <2>8, <2>9, <2>10, <2>12, UpdateUnderWay
  <2>13. QED
    BY <2>7, <2>11, <2>12
<1>4. ASSUME Reset(r) PROVE UnderWay(r)'
  <2> DEFINE new == [row EXCEPT !.password = "issued", !.must_change_password = TRUE,
                                !.outdated = FALSE]
  <2>1. u \in Users /\ job[r].op = "reset_password"
    BY <1>1, <1>4 DEF Reset, JobInOrder, StatementsOf, Job
  <2>2. row \in Row
    BY <1>1, <2>1
  <2>3. new \in Row /\ new.role = row.role /\ new.disabled = row.disabled
    BY <2>2 DEF Row
  <2>4. UpdateUser(r, u, new, "end_sessions") /\ pc[r] = "reset"
    BY <1>4 DEF Reset
  <2>5. u = job[r].subject /\ row = RowSeen(r, u)
    OBVIOUS
  <2> HIDE DEF u, row, new
  <2>6. QED
    BY <2>1, <2>3, <2>4, <2>5, UpdateUnderWay
<1>5. ASSUME Rehash(r) PROVE UnderWay(r)'
  <2> DEFINE new == [row EXCEPT !.password = job[r].password, !.outdated = FALSE]
  <2>1. u \in Users /\ job[r].op = "sign_in" /\ job[r].password \in {"chosen", "issued"}
    BY <1>1, <1>5 DEF Rehash, JobInOrder, StatementsOf, Job
  <2>2. row \in Row
    BY <1>1, <2>1
  <2>3. /\ new \in Row /\ new.role = row.role /\ new.disabled = row.disabled
        /\ new.must_change_password = row.must_change_password
    BY <2>1, <2>2 DEF Row
  <2>4. UpdateUser(r, u, new, "finish") /\ pc[r] = "rehash"
    BY <1>5 DEF Rehash
  <2>5. u = job[r].subject /\ row = RowSeen(r, u)
    OBVIOUS
  <2> HIDE DEF u, row, new
  <2>6. QED
    BY <2>1, <2>3, <2>4, <2>5, UpdateUnderWay
<1>6. ASSUME NewPassword(r) PROVE UnderWay(r)'
  <2> DEFINE new == [row EXCEPT !.password = "chosen", !.outdated = FALSE,
                                !.must_change_password = FALSE]
  <2>1. u \in Users /\ job[r].op = "replace_password"
    BY <1>1, <1>6 DEF NewPassword, JobInOrder, StatementsOf, Job
  <2>2. row \in Row
    BY <1>1, <2>1
  <2>3. /\ new \in Row /\ new.role = row.role /\ new.disabled = row.disabled
        /\ ~new.must_change_password
    BY <2>2 DEF Row
  <2>4. UpdateUser(r, u, new, "finish") /\ pc[r] = "new_password"
    BY <1>6 DEF NewPassword
  <2>5. u = job[r].subject /\ row = RowSeen(r, u)
    OBVIOUS
  <2> HIDE DEF u, row, new
  <2>6. QED
    BY <2>1, <2>3, <2>4, <2>5, UpdateUnderWay
<1>7. QED
  BY <1>2, <1>3, <1>4, <1>5, <1>6

\* What a statement that writes no row keeps of the rows and records.
LEMMA StatementKeeps ==
  ASSUME TypeOK, NEW r \in Requests, UnderWay(r), UNCHANGED <<users, audit, lock, job>>,
         tx'[r].draft = tx[r].draft, tx'[r].records = tx[r].records,
         job[r].op \notin {"none", "sign_out"}
  PROVE  Bare(r)' /\ Writes(r)' /\ Changes(r)' /\ SetsUpAlone(r)'
<1>1. /\ \A action : Adds(r, action) => Adds(r, action)'
      /\ \A role : AddsRole(r, role) => AddsRole(r, role)'
  BY DEF Adds, AddsRole
<1>2. Changes(r)'
  BY <1>1, ChangesKept DEF UnderWay
<1>3. QED
  BY <1>2 DEF UnderWay, Bare, Writes, SetsUpAlone

\* Reading the person.
LEMMA ReadPersonUnderWay ==
  ASSUME TypeOK, NEW r \in Requests, UnderWay(r), SessionsSettle, ReadPerson(r)
  PROVE  UnderWay(r)'
<1>1. CASE Rollback(r)
  BY <1>1, RollbackUnderWay
<1>2. CASE ~Rollback(r)
  <2>1. Typed /\ tx[r] \in Transaction /\ job[r] \in Job /\ JobInOrder(job[r], "person")
    BY AtStatement DEF ReadPerson
  <2>2. job[r].op \in {"change_account", "reset_password"}
    BY <2>1 DEF JobInOrder, StatementsOf, Job
  <2>3. \E row : tx' = [tx EXCEPT ![r].read = row]
    BY <1>2 DEF ReadPerson
  <2>4. /\ UNCHANGED <<users, sessions, audit, lock, job>>
        /\ pc'[r] \in {"reset", "record_role", "record_state", "finish"}
        /\ pc'[r] = "finish" => job[r].op # "reset_password"
    BY <1>2, <2>1 DEF ReadPerson, Goto, tables, Typed
  <2>5. /\ tx'[r].records = tx[r].records /\ tx'[r].draft = tx[r].draft
        /\ tx'[r].limits = tx[r].limits /\ tx'[r].running = tx[r].running
        /\ tx'[r].ends = tx[r].ends /\ tx'[r].missed = tx[r].missed
    BY <2>1, <2>3 DEF Typed, Transaction
  <2>6. Bare(r)' /\ Writes(r)' /\ Changes(r)' /\ SetsUpAlone(r)'
    BY <2>2, <2>4, <2>5, StatementKeeps
  <2>7. tx[r].limits = NoLimitChange
    BY DEF UnderWay, Records, ReadPerson
  <2>8. Records(r)'
    BY <2>2, <2>4, <2>5, <2>7 DEF UnderWay, Records
  <2>9. EndsSessions(r)'
    <3>1. Disables(r)' <=> Disables(r)
      BY <2>4, <2>5 DEF Disables
    <3>2. pc[r] = "person"
      BY DEF ReadPerson
    <3>3. QED
      BY <2>2, <2>4, <2>5, <3>1, <3>2 DEF UnderWay, EndsSessions, MustEnd
  <2>10. QED
    BY <2>6, <2>8, <2>9 DEF UnderWay
<1>3. QED
  BY <1>1, <1>2

\* Ending the subject's sessions: what ran at the change and runs still is ended.
LEMMA EndSessionsUnderWay ==
  ASSUME TypeOK, NEW r \in Requests, UnderWay(r), SessionsSettle, EndSessions(r)
  PROVE  UnderWay(r)'
<1>1. Typed /\ tx[r] \in Transaction /\ job[r] \in Job /\ JobInOrder(job[r], "end_sessions")
  BY AtStatement DEF EndSessions
<1>2. job[r].op \in {"change_account", "reset_password"}
  BY <1>1 DEF JobInOrder, StatementsOf, Job
<1>3. /\ UNCHANGED <<users, sessions, audit, lock, job>>
      /\ pc'[r] = IF job[r].op = "reset_password" THEN "record" ELSE "finish"
  BY <1>1 DEF EndSessions, Goto, tables, Typed
<1>4. \/ /\ tx' = [tx EXCEPT ![r].ends = RunningSessions(job[r].subject)]
         /\ tx'[r] = [tx[r] EXCEPT !.ends = RunningSessions(job[r].subject)]
      \/ /\ tx' = [tx EXCEPT ![r].missed = TRUE]
         /\ tx'[r] = [tx[r] EXCEPT !.missed = TRUE]
  BY <1>1 DEF EndSessions, Typed
<1>5. /\ tx'[r].records = tx[r].records /\ tx'[r].draft = tx[r].draft
      /\ tx'[r].limits = tx[r].limits /\ tx'[r].running = tx[r].running
      /\ tx'[r].missed \/ tx'[r].ends = RunningSessions(job[r].subject)
  BY <1>1, <1>4 DEF Transaction
<1>6. Bare(r)' /\ Writes(r)' /\ Changes(r)' /\ SetsUpAlone(r)'
  BY <1>2, <1>3, <1>5, StatementKeeps
<1>7. tx[r].limits = NoLimitChange
  BY DEF UnderWay, Records, EndSessions
<1>8. Records(r)'
  BY <1>2, <1>3, <1>5, <1>7 DEF UnderWay, Records
<1>9. EndsSessions(r)'
  <2>1. tx[r].running \subseteq Sessions
    BY <1>1 DEF Transaction
  <2>2. \A s \in tx[r].running :
          ~tx'[r].missed => s \in tx'[r].ends \/ sessions[s].ended # "running"
    BY <1>5, <2>1 DEF UnderWay, EndsSessions, RunningSessions
  <2>3. QED
    BY <1>3, <1>5, <2>1, <2>2 DEF UnderWay, EndsSessions, SessionsSettle
<1>10. QED
  BY <1>6, <1>8, <1>9 DEF UnderWay

\* Adding the account.
LEMMA AddUnderWay ==
  ASSUME TypeOK, NEW r \in Requests, UnderWay(r), Settling, SessionsSettle, Add(r)
  PROVE  UnderWay(r)'
<1>1. CASE Rollback(r)
  BY <1>1, RollbackUnderWay
<1>2. CASE ~Rollback(r)
  <2> DEFINE u == job[r].subject
             new == NewRow(job[r].patch.role, "issued")
  <2>1. Typed /\ tx[r] \in Transaction /\ job[r] \in Job /\ JobInOrder(job[r], "add")
    BY AtStatement DEF Add
  <2>2. job[r].op = "add_person" /\ u \in Users /\ job[r].patch.role \in Role
    BY <2>1 DEF JobInOrder, StatementsOf, Job
  <2>3. /\ lock' = [lock EXCEPT ![u] = r] /\ tx' = [tx EXCEPT ![r].draft = new]
        /\ Goto(r, "record") /\ UNCHANGED <<tables, job>>
        /\ users[u].role = "none"
    BY <1>2 DEF Add
  <2>4. new.role # "none" /\ ~new.disabled
    BY <2>2 DEF NewRow, NoRow, Role
  <2> HIDE DEF new
  <2>5. tx'[r] = [tx[r] EXCEPT !.draft = new]
    BY <2>1, <2>3 DEF Typed
  <2>6. /\ tx'[r].records = tx[r].records /\ tx'[r].draft = new
        /\ tx'[r].limits = tx[r].limits /\ tx'[r].running = tx[r].running
    BY <2>1, <2>5 DEF Transaction
  <2>7. /\ pc'[r] = "record" /\ users' = users /\ job' = job /\ sessions' = sessions
        /\ \A v \in Users : lock'[v] = r <=> v = u \/ lock[v] = r
    BY <2>1, <2>3 DEF Goto, tables, Typed
  <2>8. \A v \in Users : lock'[v] = r => v = u
    BY <2>7 DEF UnderWay, Writes
  <2>9. Bare(r)' /\ SetsUpAlone(r)'
    BY <2>2, <2>7 DEF Bare, SetsUpAlone
  <2>10. Writes(r)'
    <3>1. ASSUME NEW v \in Users, lock'[v] = r
          PROVE  v = u /\ users'[v].role = "none" /\ job'[r].op = "add_person" /\ job'[r].subject = u
      BY <2>2, <2>3, <2>7, <2>8, <3>1
    <3>2. tx'[r].draft.role # "none" /\ ~tx'[r].draft.disabled
      BY <2>4, <2>6
    <3>3. QED
      BY <3>1, <3>2 DEF Writes
  <2>11. Records(r)'
    BY <2>2, <2>6, <2>7 DEF UnderWay, Records, Add
  <2>12. Changes(r)'
    BY <2>3, <2>7, <2>8 DEF Changes
  <2>13. EndsSessions(r)'
    BY <2>2, <2>6, <2>7 DEF UnderWay, EndsSessions, MustEnd
  <2>14. QED
    BY <2>9, <2>10, <2>11, <2>12, <2>13 DEF UnderWay
<1>3. QED
  BY <1>1, <1>2

\* Reading and changing the limits.
LEMMA LimitsUnderWay ==
  ASSUME TypeOK, NEW r \in Requests, UnderWay(r), SessionsSettle
  PROVE  /\ ReadLimits(r) => UnderWay(r)'
         /\ ChangeLimits(r) => UnderWay(r)'
<1>1. Typed /\ tx[r] \in Transaction /\ job[r] \in Job /\ JobInOrder(job[r], pc[r])
  BY AtStatement
<1>2. job[r].op = "change_session_limits" => job[r].subject = NoOne
  BY DEF UnderWay, Bare
<1>3. ASSUME ReadLimits(r) PROVE UnderWay(r)'
  <2>1. CASE Rollback(r)
    BY <2>1, RollbackUnderWay
  <2>2. CASE ~Rollback(r)
    <3>1. job[r].op = "change_session_limits"
      BY <1>1, <1>3 DEF ReadLimits, JobInOrder, StatementsOf, Job
    <3>2. /\ \E change : job' = [job EXCEPT ![r].limits = change]
          /\ \E values : tx' = [tx EXCEPT ![r].values = values]
          /\ Goto(r, "record") /\ UNCHANGED <<tables, lock>>
      BY <1>3, <2>2 DEF ReadLimits
    <3>3. job'[r].op = job[r].op /\ job'[r].subject = job[r].subject
      BY <1>1, <3>2 DEF Typed, Job
    <3>4. /\ tx'[r].records = tx[r].records /\ tx'[r].limits = tx[r].limits
          /\ tx'[r].running = tx[r].running
      BY <1>1, <3>2 DEF Typed, Transaction
    <3>5. pc'[r] = "record" /\ lock' = lock /\ users' = users /\ sessions' = sessions
      BY <1>1, <3>2 DEF Goto, Typed, tables
    <3>6. \A u \in Users : lock[u] # r
      BY <1>2, <3>1, BareHoldsNothing DEF UnderWay
    <3>7. Bare(r)' /\ Writes(r)' /\ Changes(r)' /\ SetsUpAlone(r)'
      BY <1>2, <3>1, <3>3, <3>5, <3>6 DEF Bare, Writes, Changes, SetsUpAlone
    <3>8. Records(r)'
      BY <1>3, <3>1, <3>3, <3>4, <3>5 DEF UnderWay, Records, ReadLimits
    <3>9. EndsSessions(r)'
      BY <3>1, <3>3, <3>4, <3>5 DEF UnderWay, EndsSessions, MustEnd
    <3>10. QED
      BY <3>7, <3>8, <3>9 DEF UnderWay
  <2>3. QED
    BY <2>1, <2>2
<1>4. ASSUME ChangeLimits(r) PROVE UnderWay(r)'
  <2>1. job[r].op = "change_session_limits"
    BY <1>1, <1>4 DEF ChangeLimits, JobInOrder, StatementsOf, Job
  <2>2. \E t : tx' = [tx EXCEPT ![r].limits = t] \/ tx' = [tx EXCEPT ![r].missed = TRUE]
    BY <1>4 DEF ChangeLimits
  <2>3. tx'[r].records = tx[r].records /\ tx'[r].running = tx[r].running
    BY <1>1, <2>2 DEF Typed, Transaction
  <2>4. /\ pc'[r] = "finish" /\ users' = users /\ job' = job /\ sessions' = sessions
        /\ \A u \in Users : lock'[u] = lock[u]
    BY <1>1, <1>4 DEF ChangeLimits, Goto, Typed, tables, ConstantsAssumption
  <2>5. \A u \in Users : lock[u] # r
    BY <1>2, <2>1, BareHoldsNothing DEF UnderWay
  <2>6. Bare(r)' /\ Writes(r)' /\ Changes(r)' /\ SetsUpAlone(r)'
    BY <1>2, <2>1, <2>4, <2>5 DEF Bare, Writes, Changes, SetsUpAlone
  <2>7. Records(r)'
    <3>1. Adds(r, "session_limits_changed") => Adds(r, "session_limits_changed")'
      BY <2>3, <2>4 DEF Adds
    <3>2. QED
      BY <1>4, <2>1, <2>3, <2>4, <3>1 DEF UnderWay, Records, ChangeLimits
  <2>8. EndsSessions(r)'
    BY <2>1, <2>3, <2>4 DEF UnderWay, EndsSessions, MustEnd
  <2>9. QED
    BY <2>6, <2>7, <2>8 DEF UnderWay
<1>5. QED
  BY <1>3, <1>4

-----------------------------------------------------------------------------
(* A request that arrives.                                                 *)

\* One not arrived yet has no job, no transaction and no row.
LEMMA IdleBare ==
  ASSUME TypeOK, NEW r \in Requests, UnderWay(r), pc[r] \in {"idle", "done"}
  PROVE  job[r] = NoJob /\ tx[r] = NoTransaction /\ \A u \in Users : lock[u] # r
<1>1. job[r].op = "none"
  BY AtStatement DEF JobInOrder, StatementsOf, Job
<1>2. job[r] = NoJob /\ tx[r] = NoTransaction
  BY <1>1 DEF UnderWay, Bare
<1>3. QED
  BY <1>2, BareHoldsNothing DEF UnderWay, NoJob

\* A request answered at once.
LEMMA AnswerUnderWay ==
  ASSUME TypeOK, NEW r \in Requests, UnderWay(r), pc[r] = "idle", Goto(r, "done"),
         UNCHANGED <<lock, job, tx>>
  PROVE  UnderWay(r)'
<1>1. pc'[r] = "done"
  BY DEF Goto, TypeOK, Typed
<1>2. QED
  BY <1>1, IdleBare, DoneUnderWay

\* A request given a job that holds no row and has written nothing.
LEMMA GivenUnderWay ==
  ASSUME NEW r \in Requests, tx'[r].records = <<>>, tx'[r].running = {}, tx'[r].limits = NoLimitChange,
         \A u \in Users : lock'[u] # r,
         job'[r].op \notin {"none", "setup"},
         job'[r].op = "sign_out" => job'[r].subject = NoOne /\ tx'[r] = NoTransaction,
         job'[r].op = "change_session_limits" => job'[r].subject = NoOne,
         pc'[r] \in {"person", "add", "limits", "new_password", "rehash", "sign_out", "finish"},
         pc'[r] = "finish" => job'[r].op = "sign_in"
  PROVE  UnderWay(r)'
<1>1. Bare(r)' /\ Writes(r)' /\ Changes(r)' /\ SetsUpAlone(r)'
  BY DEF Bare, Writes, Changes, SetsUpAlone
<1>2. Records(r)'
  BY DEF Records
<1>3. EndsSessions(r)'
  BY DEF EndsSessions, Disables
<1>4. QED
  BY <1>1, <1>2, <1>3 DEF UnderWay

\* Letting a request in.
LEMMA ServeUnderWay ==
  ASSUME TypeOK, NEW r \in Requests, UnderWay(r), NEW s \in Sessions, NEW j \in Job,
         NEW label \in {"person", "add", "limits", "new_password"},
         j.op \notin {"none", "setup", "sign_out"},
         j.op = "change_session_limits" => j.subject = NoOne,
         Serve(r, s, j, label)
  PROVE  UnderWay(r)'
<1>1. tx[r] = NoTransaction /\ \A u \in Users : lock[u] # r
  BY IdleBare DEF Serve
<1>2. job'[r] = [j EXCEPT !.actor = Holder(s)] /\ pc'[r] = label /\ lock' = lock
  BY DEF Serve, Goto, TypeOK, Typed
<1>3. job'[r].op = j.op /\ job'[r].subject = j.subject
  BY <1>2 DEF Job
<1>4. tx'[r] = [NoTransaction EXCEPT !.read = users[Holder(s)]]
  BY <1>1 DEF Serve, TypeOK, Typed
<1>5. tx'[r].records = <<>> /\ tx'[r].running = {} /\ tx'[r].limits = NoLimitChange
  BY <1>4 DEF NoTransaction
<1>6. QED
  BY <1>1, <1>2, <1>3, <1>5, GivenUnderWay

\* Every request that arrives begins in order.
LEMMA ArriveUnderWay ==
  ASSUME TypeOK, NEW r \in Requests, UnderWay(r), Arrive(r),
         \A q \in Requests : SetsUpAlone(q)
  PROVE  UnderWay(r)'
<1>1. Typed
  BY DEF TypeOK
<1>2. ASSUME NEW s \in Sessions, EndAtRequest(r, s) \/ TurnAway(r, s)
      PROVE  UnderWay(r)'
  BY <1>2, AnswerUnderWay DEF EndAtRequest, TurnAway
<1>3. ASSUME NEW s \in Sessions, NEW u \in Users, NEW patch \in Patches, AskChangeAccount(r, s, u, patch)
      PROVE  UnderWay(r)'
  <2> DEFINE j == [NoJob EXCEPT !.op = "change_account", !.subject = u, !.patch = patch]
  <2>1. j \in Job /\ j.op = "change_account"
    BY BlankTypes, ConstantsAssumption DEF Job, NoJob, ConstantsAssumption
  <2> HIDE DEF j
  <2>2. Serve(r, s, j, "person")
    BY <1>3 DEF AskChangeAccount, j
  <2>3. QED
    BY <2>1, <2>2, ServeUnderWay
<1>4. ASSUME NEW s \in Sessions, NEW u \in Users, AskResetPassword(r, s, u)
      PROVE  UnderWay(r)'
  <2> DEFINE j == [NoJob EXCEPT !.op = "reset_password", !.subject = u]
  <2>1. j \in Job /\ j.op = "reset_password"
    BY BlankTypes DEF Job, NoJob
  <2> HIDE DEF j
  <2>2. Serve(r, s, j, "person")
    BY <1>4 DEF AskResetPassword, j
  <2>3. QED
    BY <2>1, <2>2, ServeUnderWay
<1>5. ASSUME NEW s \in Sessions, NEW u \in Users, NEW role \in Role, AskAddPerson(r, s, u, role)
      PROVE  UnderWay(r)'
  <2> DEFINE j == [NoJob EXCEPT !.op = "add_person", !.subject = u, !.patch.role = role]
  <2>1. j \in Job /\ j.op = "add_person"
    BY BlankTypes DEF Job, NoJob, Patch
  <2> HIDE DEF j
  <2>2. Serve(r, s, j, "add")
    BY <1>5 DEF AskAddPerson, j
  <2>3. QED
    BY <2>1, <2>2, ServeUnderWay
<1>6. ASSUME NEW s \in Sessions, NEW change \in LimitChange, AskChangeLimits(r, s, change)
      PROVE  UnderWay(r)'
  <2> DEFINE j == [NoJob EXCEPT !.op = "change_session_limits", !.limits = change]
  <2>1. j \in Job /\ j.op = "change_session_limits" /\ j.subject = NoOne
    BY BlankTypes DEF Job, NoJob
  <2> HIDE DEF j
  <2>2. Serve(r, s, j, "limits")
    BY <1>6 DEF AskChangeLimits, j
  <2>3. QED
    BY <2>1, <2>2, ServeUnderWay
<1>7. ASSUME NEW s \in Sessions, AskReplacePassword(r, s)
      PROVE  UnderWay(r)'
  <2> DEFINE j == [NoJob EXCEPT !.op = "replace_password", !.subject = Holder(s)]
  <2>1. Holder(s) \in Users
    BY <1>7 DEF AskReplacePassword, TypeOK, Holder
  <2>2. j \in Job /\ j.op = "replace_password"
    BY <2>1, BlankTypes DEF Job, NoJob
  <2> HIDE DEF j
  <2>3. Serve(r, s, j, "new_password")
    BY <1>7 DEF AskReplacePassword, j
  <2>4. QED
    BY <2>2, <2>3, ServeUnderWay
<1>8. ASSUME NEW s \in Sessions, StartSignOut(r, s)
      PROVE  UnderWay(r)'
  <2>1. tx[r] = NoTransaction /\ \A u \in Users : lock[u] # r
    BY <1>8, IdleBare DEF StartSignOut
  <2>2. /\ job'[r].op = "sign_out" /\ job'[r].subject = NoOne /\ pc'[r] = "sign_out"
        /\ lock' = lock /\ tx' = tx
    BY <1>1, <1>8 DEF StartSignOut, Goto, Typed, NoJob
  <2>3. tx'[r].records = <<>> /\ tx'[r].running = {} /\ tx'[r].limits = NoLimitChange
    BY <2>1, <2>2 DEF NoTransaction
  <2>4. QED
    BY <2>1, <2>2, <2>3, GivenUnderWay
<1>9. ASSUME NEW u \in Users, NEW password \in {"chosen", "issued"}, SignIn(r, u, password)
      PROVE  UnderWay(r)'
  <2>1. CASE Goto(r, "done") /\ UNCHANGED job
    BY <1>9, <2>1, AnswerUnderWay DEF SignIn
  <2>2. CASE ~(Goto(r, "done") /\ UNCHANGED job)
    <3>1. tx[r] = NoTransaction /\ \A v \in Users : lock[v] # r
      BY <1>9, IdleBare DEF SignIn
    <3>2. /\ job' = [job EXCEPT ![r] = [NoJob EXCEPT !.op = "sign_in", !.actor = u, !.subject = u,
                                                    !.password = password]]
          /\ Goto(r, IF users[u].outdated THEN "rehash" ELSE "finish")
          /\ lock' = lock /\ tx' = tx
      BY <1>9, <2>2 DEF SignIn
    <3>3. job'[r].op = "sign_in"
      BY <1>1, <3>2 DEF Typed, NoJob
    <3>4. pc'[r] \in {"rehash", "finish"}
      BY <1>1, <3>2 DEF Typed, Goto
    <3>5. tx'[r].records = <<>> /\ tx'[r].running = {} /\ tx'[r].limits = NoLimitChange
      BY <3>1, <3>2 DEF NoTransaction
    <3>6. QED
      BY <3>1, <3>2, <3>3, <3>4, <3>5, GivenUnderWay
  <2>3. QED
    BY <2>1, <2>2
<1>10. ASSUME NEW u \in Users, SetUp(r, u)
       PROVE  UnderWay(r)'
  <2>1. CASE Goto(r, "done") /\ UNCHANGED <<tables, lock, job, tx>>
    BY <1>10, <2>1, AnswerUnderWay DEF SetUp
  <2>2. CASE ~(Goto(r, "done") /\ UNCHANGED <<tables, lock, job, tx>>)
    <3> DEFINE new == NewRow("admin", "chosen")
               j == [NoJob EXCEPT !.op = "setup", !.actor = u, !.subject = u]
    <3>1. tx[r] = NoTransaction /\ \A v \in Users : lock[v] # r
      BY <1>10, IdleBare DEF SetUp
    <3>2. /\ TableFree(r) /\ \A v \in Users : users[v].role # "admin"
          /\ users[u].role = "none"
          /\ lock' = [lock EXCEPT ![u] = r] /\ tx' = [tx EXCEPT ![r].draft = new]
          /\ job' = [job EXCEPT ![r] = j] /\ Goto(r, "record") /\ UNCHANGED tables
      BY <1>10, <2>2 DEF SetUp
    <3>3. new.role = "admin" /\ ~new.disabled
      BY DEF NewRow, NoRow
    <3> HIDE DEF new
    <3>4. tx'[r] = [NoTransaction EXCEPT !.draft = new]
      BY <1>1, <3>1, <3>2 DEF Typed
    <3>5. /\ tx'[r].records = <<>> /\ tx'[r].running = {} /\ tx'[r].limits = NoLimitChange
          /\ tx'[r].draft = new
      BY <3>4 DEF NoTransaction
    <3>6. job'[r].op = "setup" /\ job'[r].subject = u /\ pc'[r] = "record" /\ users' = users
      BY <1>1, <3>2 DEF Typed, NoJob, Goto, tables
    <3>7. \A v \in Users : /\ lock'[v] \in {r, NoOne}
                           /\ lock'[v] = r <=> v = u
      BY <1>1, <3>1, <3>2 DEF Typed, TableFree
    <3>8. Bare(r)' /\ SetsUpAlone(r)'
      BY <3>2, <3>6, <3>7 DEF Bare, SetsUpAlone
    <3>9. Writes(r)'
      <4>1. tx'[r].draft.role = "admin" /\ ~tx'[r].draft.disabled
        BY <3>3, <3>5
      <4>2. QED
        BY <3>2, <3>6, <3>7, <4>1 DEF Writes
    <3>10. Changes(r)' /\ Records(r)' /\ EndsSessions(r)'
      BY <3>2, <3>5, <3>6, <3>7 DEF Changes, Records, EndsSessions
    <3>11. QED
      BY <3>8, <3>9, <3>10 DEF UnderWay
  <2>3. QED
    BY <2>1, <2>2
<1>11. QED
  BY <1>2, <1>3, <1>4, <1>5, <1>6, <1>7, <1>8, <1>9, <1>10 DEF Arrive

-----------------------------------------------------------------------------
(* What is committed.                                                      *)

\* The records a commit adds are the transaction's, after those there were.
LEMMA Appended ==
  ASSUME NEW r \in Requests, audit \in Seq(Record), tx[r].records \in Seq(Record),
         audit' = audit \o tx[r].records
  PROVE  /\ \A i \in 1 .. Len(tx[r].records) :
              /\ Len(audit) + i \in Len(audit) + 1 .. Len(audit')
              /\ audit'[Len(audit) + i] = tx[r].records[i]
         /\ \A i \in 1 .. Len(audit) : i \in 1 .. Len(audit') /\ audit'[i] = audit[i]
         /\ \A i \in Len(audit) + 1 .. Len(audit') :
              \E k \in 1 .. Len(tx[r].records) : audit'[i] = tx[r].records[k]
<1> DEFINE old == audit
           new == tx[r].records
           all == old \o new
<1>1. /\ Len(old) \in Nat /\ Len(new) \in Nat /\ Len(all) = Len(old) + Len(new)
      /\ \A i \in 1 .. Len(old) : all[i] = old[i]
      /\ \A i \in Len(old) + 1 .. Len(old) + Len(new) : all[i] = new[i - Len(old)]
  OBVIOUS
<1>2. audit' = all /\ audit = old /\ tx[r].records = new
  OBVIOUS
<1> HIDE DEF old, new, all
<1>3. ASSUME NEW i \in 1 .. Len(new)
      PROVE  /\ Len(old) + i \in Len(old) + 1 .. Len(all)
             /\ all[Len(old) + i] = new[i]
  <2>1. Len(old) + i \in Len(old) + 1 .. Len(old) + Len(new) /\ (Len(old) + i) - Len(old) = i
    BY <1>1
  <2>2. QED
    BY <1>1, <2>1
<1>4. ASSUME NEW i \in 1 .. Len(old)
      PROVE  i \in 1 .. Len(all) /\ all[i] = old[i]
  BY <1>1
<1>5. ASSUME NEW i \in Len(old) + 1 .. Len(all)
      PROVE  \E k \in 1 .. Len(new) : all[i] = new[k]
  <2>1. i - Len(old) \in 1 .. Len(new) /\ all[i] = new[i - Len(old)]
    BY <1>1
  <2>2. QED
    BY <2>1
<1>6. QED
  BY <1>2, <1>3, <1>4, <1>5

\* What a transaction adds is newly recorded by its commit.
LEMMA AddsRecorded ==
  ASSUME TypeOK, NEW r \in Requests, Commit(r)
  PROVE  /\ \A action : Adds(r, action) => NewlyRecorded(action, job[r].subject)
         /\ \A action, u : NewlyRecorded(action, u) =>
              \E k \in 1 .. Len(tx[r].records) : tx[r].records[k].action = action
         /\ \A role : AddsRole(r, role) =>
              \E i \in Len(audit) + 1 .. Len(audit') :
                /\ audit'[i].action = "role_changed" /\ audit'[i].role = role
                /\ audit'[i].subject = job[r].subject
         /\ Removed \subseteq Removed'
<1>1. /\ audit \in Seq(Record) /\ tx[r].records \in Seq(Record)
      /\ audit' = audit \o tx[r].records
  BY DEF TypeOK, Typed, Transaction, Commit
<1>2. /\ \A i \in 1 .. Len(tx[r].records) :
           /\ Len(audit) + i \in Len(audit) + 1 .. Len(audit')
           /\ audit'[Len(audit) + i] = tx[r].records[i]
      /\ \A i \in 1 .. Len(audit) : i \in 1 .. Len(audit') /\ audit'[i] = audit[i]
      /\ \A i \in Len(audit) + 1 .. Len(audit') :
           \E k \in 1 .. Len(tx[r].records) : audit'[i] = tx[r].records[k]
  BY <1>1, Appended
<1>3. ASSUME NEW action, Adds(r, action) PROVE NewlyRecorded(action, job[r].subject)
  BY <1>2, <1>3 DEF Adds, NewlyRecorded
<1>4. ASSUME NEW role, AddsRole(r, role)
      PROVE  \E i \in Len(audit) + 1 .. Len(audit') :
               /\ audit'[i].action = "role_changed" /\ audit'[i].role = role
               /\ audit'[i].subject = job[r].subject
  BY <1>2, <1>4 DEF AddsRole
<1>5. Removed \subseteq Removed'
  <2>1. \A i \in Removals : i \in Removals' /\ audit'[i] = audit[i]
    BY <1>2 DEF Removals
  <2>2. QED
    BY <2>1 DEF Removed
<1>6. ASSUME NEW action, NEW u, NewlyRecorded(action, u)
      PROVE  \E k \in 1 .. Len(tx[r].records) : tx[r].records[k].action = action
  BY <1>2, <1>6 DEF NewlyRecorded
<1>7. QED
  BY <1>3, <1>4, <1>5, <1>6

\* The one row a commit may change is the subject's, and the row it leaves.
LEMMA RowCommitted ==
  ASSUME TypeOK, NEW r \in Requests, UnderWay(r), Commit(r), NEW u \in Users
  PROVE  \/ users'[u] = users[u]
         \/ /\ lock[u] = r /\ u = job[r].subject
            /\ users'[u] = tx[r].draft /\ users'[u].role # "none"
  BY DEF Commit, RowSeen, UnderWay, Writes

\* Taking the role or the account from an admin is recorded as a removal.
LEMMA LossRecorded ==
  ASSUME TypeOK, NEW r \in Requests, UnderWay(r), Commit(r),
         NEW u \in Users, Enabled(users[u]), ~Enabled(users'[u])
  PROVE  u \in Removed'
<1>1. lock[u] = r /\ u = job[r].subject /\ users'[u] = tx[r].draft /\ users'[u].role # "none"
  BY RowCommitted
<1>2. users[u].role = "admin" /\ ~users[u].disabled
  BY DEF Enabled
<1>3. tx[r].draft \in Row /\ tx[r].draft.role \in Role
  BY <1>1 DEF TypeOK, Typed, Transaction, Row
<1>4. Len(audit) \in Nat
  BY DEF TypeOK, Typed
<1>5. CASE tx[r].draft.role # "admin"
  <2>1. AddsRole(r, "member")
    BY <1>1, <1>2, <1>3, <1>5 DEF UnderWay, Changes, Role
  <2>2. PICK i \in Len(audit) + 1 .. Len(audit') :
               /\ audit'[i].action = "role_changed" /\ audit'[i].role = "member"
               /\ audit'[i].subject = job[r].subject
    BY <2>1, AddsRecorded
  <2>3. i \in 1 .. Len(audit')
    BY <1>4, <2>2
  <2>4. QED
    BY <1>1, <2>2, <2>3 DEF Removed, Removals
<1>6. CASE tx[r].draft.role = "admin"
  <2>1. tx[r].draft.disabled
    BY <1>1, <1>6 DEF Enabled
  <2>2. Adds(r, "account_disabled")
    BY <1>1, <1>2, <2>1 DEF UnderWay, Changes
  <2>3. PICK i \in Len(audit) + 1 .. Len(audit') :
               audit'[i].action = "account_disabled" /\ audit'[i].subject = job[r].subject
    BY <2>2, AddsRecorded DEF NewlyRecorded
  <2>4. i \in 1 .. Len(audit')
    BY <1>4, <2>3
  <2>5. QED
    BY <1>1, <2>3, <2>4 DEF Removed, Removals
<1>7. QED
  BY <1>5, <1>6

\* A commit that loses an admin has recorded the removal.
LEMMA CommitLosses ==
  ASSUME TypeOK, NEW r \in Requests, UnderWay(r), Commit(r)
  PROVE  LossesRecorded
  BY AddsRecorded, LossRecorded DEF LossesRecorded

\* The last admin falls to a second removal: the guard saw another, and that one
\* fell to a removal too.
LEMMA CommitLastAdmin ==
  ASSUME TypeOK, TypeOK', Settling, LastAdminFallsToTwo, NEW r \in Requests, UnderWay(r),
         pc[r] \in {"finish", "commit"}, Commit(r)
  PROVE  LastAdminFallsToTwo'
<1> SUFFICES ASSUME EnabledAdmins' = {}, \E u \in Users : users'[u].role # "none"
             PROVE  \E u, v \in Removed' : u # v
  BY DEF LastAdminFallsToTwo
<1>1. Removed \subseteq Removed'
  BY AddsRecorded
<1>4. CASE EnabledAdmins = {} /\ \E u \in Users : users[u].role # "none"
  <2>1. \E u, v \in Removed : u # v
    BY <1>4 DEF LastAdminFallsToTwo
  <2>2. QED
    BY <1>1, <2>1
<1>5. CASE \A u \in Users : users[u].role = "none"
  <2>1. PICK u \in Users : users'[u].role # "none"
    OBVIOUS
  <2>2. lock[u] = r /\ u = job[r].subject /\ users'[u] = tx[r].draft
    BY <1>5, <2>1, RowCommitted
  <2>3. job[r].op \in {"add_person", "setup"} /\ ~tx[r].draft.disabled
    BY <1>5, <2>2 DEF UnderWay, Writes
  <2>4. job[r].op # "add_person"
    BY <1>5, AtStatement DEF Settling, JobInOrder
  <2>5. tx[r].draft.role = "admin"
    BY <2>2, <2>3, <2>4 DEF UnderWay, Writes
  <2>6. u \in EnabledAdmins'
    BY <2>2, <2>3, <2>5 DEF EnabledAdmins
  <2>7. QED
    BY <2>6
<1>6. CASE EnabledAdmins # {}
  <2>1. PICK u \in Users : Enabled(users[u])
    BY <1>6 DEF EnabledAdmins, Enabled
  <2>2. \A v \in Users : ~Enabled(users'[v])
    BY DEF EnabledAdmins, Enabled
  <2>3. lock[u] = r /\ u = job[r].subject /\ users'[u] = tx[r].draft
    BY <2>1, <2>2, RowCommitted
  <2>4. \A v \in Users \ {u} : ~Enabled(users[v])
    <3>1. ASSUME NEW v \in Users \ {u} PROVE users'[v] = users[v]
      BY <2>3, RowCommitted
    <3>2. QED
      BY <2>2, <3>1
  <2>5. Removed \ {u} # {}
    <3>1. users[u].role # "none" /\ ~Enabled(tx[r].draft)
      BY <2>1, <2>2, <2>3 DEF Enabled
    <3>2. QED
      BY <2>1, <2>3, <2>4, <3>1 DEF UnderWay, Changes
  <2>6. u \in Removed'
    BY <2>1, <2>2, LossRecorded
  <2>7. PICK v \in Removed' : v # u
    BY <1>1, <2>5
  <2>8. QED
    BY <2>6, <2>7
<1>7. QED
  BY <1>4, <1>5, <1>6

-----------------------------------------------------------------------------
(* The invariant.                                                          *)

\* The steps that change a table: everything else leaves them all alone.
LEMMA StepTables ==
  ASSUME TypeOK, NEW r \in Requests, Arrive(r) \/ Statement(r)
  PROVE  \/ UNCHANGED tables
         \/ \E s \in Sessions : EndAtRequest(r, s)
         \/ SignOut(r)
         \/ (pc[r] \in {"finish", "commit"} /\ Commit(r))
<1>1. ASSUME NEW u, NEW new, NEW next, UpdateUser(r, u, new, next) \/ GuardRefuses(r, u, new)
      PROVE  UNCHANGED tables
  BY <1>1 DEF UpdateUser, GuardRefuses, Rollback
<1>2. ASSUME NEW record, NEW next, RecordAction(r, record, next)
      PROVE  UNCHANGED tables
  BY <1>2 DEF RecordAction, Rollback
<1>3. ASSUME NEW s, NEW j, NEW label, Serve(r, s, j, label)
      PROVE  UNCHANGED tables
  BY <1>3 DEF Serve
<1>4. ASSUME Arrive(r)
      PROVE  UNCHANGED tables \/ \E s \in Sessions : EndAtRequest(r, s)
  BY <1>3, <1>4 DEF Arrive, TurnAway, AskChangeAccount, AskResetPassword, AskAddPerson,
     AskChangeLimits, AskReplacePassword, StartSignOut, SetUp, SignIn
<1>5. ASSUME Statement(r)
      PROVE  UNCHANGED tables \/ SignOut(r) \/ (pc[r] \in {"finish", "commit"} /\ Commit(r))
  <2>1. ChangeRole(r) \/ ChangeState(r) \/ Reset(r) \/ Rehash(r) \/ NewPassword(r)
          => UNCHANGED tables
    BY <1>1 DEF ChangeRole, ChangeState, Reset, Rehash, NewPassword
  <2>2. RecordRole(r) \/ RecordState(r) \/ RecordChange(r) => UNCHANGED tables
    BY <1>2 DEF RecordRole, RecordState, RecordChange
  <2>3. ReadPerson(r) \/ EndSessions(r) \/ Add(r) \/ ReadLimits(r) \/ ChangeLimits(r)
          => UNCHANGED tables
    BY DEF ReadPerson, EndSessions, Add, ReadLimits, ChangeLimits, Rollback, tables
  <2>4. Finish(r) \/ CommitAnswered(r)
          => UNCHANGED tables \/ (pc[r] \in {"finish", "commit"} /\ Commit(r))
    BY DEF Finish, CommitAnswered, Rollback
  <2>5. QED
    BY <1>5, <2>1, <2>2, <2>3, <2>4 DEF Statement
<1>6. QED
  BY <1>4, <1>5

\* Accounts, limits and records change by a commit alone.
LEMMA StepCommitted ==
  ASSUME TypeOK, NEW r \in Requests, Arrive(r) \/ Statement(r)
  PROVE  UNCHANGED <<users, audit, limits>> \/ (pc[r] \in {"finish", "commit"} /\ Commit(r))
  BY StepTables DEF EndAtRequest, SignOut, tables

\* Every step settles the sessions.
LEMMA StepSettles ==
  ASSUME TypeOK, Settling, NEW r \in Requests, Arrive(r) \/ Statement(r)
  PROVE  /\ SessionsSettle
         /\ \A q \in Requests \ {r} : sessions[q].ended = "none" => sessions'[q].ended = "none"
         /\ pc'[r] # "done" => sessions'[r] = sessions[r]
<1>1. Typed /\ Users \intersect Requests = {} /\ Requests \subseteq Sessions
  BY DEF TypeOK, ConstantsAssumption, Sessions
<1>2. CASE sessions' = sessions
  BY <1>2 DEF SessionsSettle
<1>3. ASSUME NEW s \in Sessions, EndAtRequest(r, s)
      PROVE  /\ SessionsSettle /\ pc'[r] = "done"
             /\ \A q \in Requests \ {r} : sessions[q].ended = "none" => sessions'[q].ended = "none"
  <2>1. PICK reason \in Endings : sessions' = [sessions EXCEPT ![s].ended = reason]
    BY <1>3 DEF EndAtRequest, Endings
  <2>2. sessions'[s] = [sessions[s] EXCEPT !.ended = reason] /\ sessions[s] \in SessionRow
    BY <1>1, <2>1 DEF Typed
  <2>3. sessions'[s].ended = reason /\ sessions'[s].owner = sessions[s].owner
    BY <2>2 DEF SessionRow
  <2>4. sessions[s].ended = "running" /\ reason \notin {"none", "running"}
    BY <1>3, <2>1 DEF EndAtRequest, Endings
  <2>5. \A t \in Sessions \ {s} : sessions'[t] = sessions[t]
    BY <1>1, <2>1 DEF Typed
  <2>6. pc'[r] = "done"
    BY <1>1, <1>3 DEF EndAtRequest, Goto, Typed
  <2>7. QED
    BY <1>1, <2>3, <2>4, <2>5, <2>6 DEF SessionsSettle
<1>4. CASE SignOut(r)
  <2> DEFINE s == job[r].session
  <2>1. job[r].op = "sign_out" /\ s \in Sessions
    BY <1>4, AtStatement DEF SignOut, JobInOrder, StatementsOf, Job
  <2>2. sessions'[s] = [sessions[s] EXCEPT !.ended = "signed_out"] /\ sessions[s] \in SessionRow
    BY <1>1, <1>4, <2>1 DEF SignOut, Typed
  <2>3. sessions'[s].ended = "signed_out" /\ sessions'[s].owner = sessions[s].owner
    BY <2>2 DEF SessionRow
  <2>4. sessions[s].ended # "none"
    BY <2>1 DEF Settling
  <2>5. \A t \in Sessions \ {s} : sessions'[t] = sessions[t]
    BY <1>1, <1>4, <2>1 DEF SignOut, Typed
  <2>6. pc'[r] = "done"
    BY <1>1, <1>4 DEF SignOut, Goto, Typed
  <2>7. QED
    BY <1>1, <2>3, <2>4, <2>5, <2>6 DEF SessionsSettle
<1>5. CASE pc[r] \in {"finish", "commit"} /\ Commit(r)
  <2>1. sessions[r].ended = "none"
    BY <1>5 DEF Settling
  <2>2. ASSUME NEW s \in Sessions, s # r
        PROVE  \/ sessions'[s] = sessions[s]
               \/ /\ sessions[s].ended = "running"
                  /\ sessions'[s] = [sessions[s] EXCEPT !.ended = Reason(r)]
    BY <1>5, <2>2 DEF Commit
  <2>3. Reason(r) \notin {"none", "running"}
    BY DEF Reason
  <2>4. \A s \in Sessions : sessions[s] \in SessionRow
    BY <1>1 DEF Typed
  <2>5. ASSUME NEW s \in Sessions, s # r, sessions[s].ended # "none"
        PROVE  /\ sessions'[s].ended # "none" /\ sessions'[s].owner = sessions[s].owner
               /\ sessions'[s].ended = "running" => sessions[s].ended = "running"
    BY <2>2, <2>3, <2>4, <2>5 DEF SessionRow
  <2>6. \A q \in Requests \ {r} : sessions[q].ended = "none" => sessions'[q].ended = "none"
    BY <1>1, <2>2
  <2>7. pc'[r] = "done"
    BY <1>1, <1>5 DEF Commit, Goto, Typed
  <2>8. QED
    BY <2>1, <2>5, <2>6, <2>7 DEF SessionsSettle
<1>6. QED
  BY <1>1, <1>2, <1>3, <1>4, <1>5, StepTables DEF tables

\* Nothing is left to do for a request that is done.
LEMMA DoneStays ==
  ASSUME TypeOK, NEW r \in Requests, Arrive(r) \/ Statement(r)
  PROVE  pc[r] # "done"
<1>1. Arrive(r) => pc[r] = "idle"
  BY DEF Arrive, EndAtRequest, TurnAway, AskChangeAccount, AskResetPassword, AskAddPerson,
     AskChangeLimits, AskReplacePassword, StartSignOut, SetUp, SignIn, Serve
<1>2. Statement(r) => pc[r] \notin {"idle", "done"}
  BY DEF Statement, ReadPerson, RecordRole, ChangeRole, RecordState, ChangeState, Reset, EndSessions,
     Add, ReadLimits, RecordChange, ChangeLimits, Rehash, NewPassword, SignOut, Finish, CommitAnswered
<1>3. QED
  BY <1>1, <1>2

\* What a request asks for is settled when it arrives.
LEMMA StepJobs ==
  ASSUME TypeOK, Settling, NEW r \in Requests, UnderWay(r), Arrive(r) \/ Statement(r)
  PROVE  /\ job'[r].op = "add_person" => users[job'[r].actor].role # "none"
         /\ job'[r].op = "sign_out" => sessions[job'[r].session].ended # "none"
<1> DEFINE Fits(j) == /\ j.op = "add_person" => users[j.actor].role # "none"
                      /\ j.op = "sign_out" => sessions[j.session].ended # "none"
<1>1. Typed /\ job[r] \in Job /\ Fits(job[r]) /\ Fits(NoJob)
  BY DEF TypeOK, Typed, Settling, NoJob
<1>2. ASSUME NEW u, NEW new, NEW next, UpdateUser(r, u, new, next) \/ GuardRefuses(r, u, new)
      PROVE  Fits(job'[r])
  BY <1>1, <1>2 DEF UpdateUser, GuardRefuses, Rollback, Typed
<1>3. ASSUME NEW record, NEW next, RecordAction(r, record, next)
      PROVE  Fits(job'[r])
  BY <1>1, <1>3 DEF RecordAction, Rollback, Typed
<1>4. ASSUME Arrive(r)
      PROVE  Fits(job'[r])
  <2>1. ASSUME NEW s \in Sessions, NEW j, NEW label, Serve(r, s, j, label),
               j.op \notin {"add_person", "sign_out"}, j \in Job
        PROVE  Fits(job'[r])
    <3>1. job'[r] = [j EXCEPT !.actor = Holder(s)]
      BY <1>1, <2>1 DEF Serve, Typed
    <3>2. job'[r].op = j.op
      BY <2>1, <3>1 DEF Job
    <3>3. QED
      BY <2>1, <3>2
  <2>2. ASSUME NEW t \in Sessions, EndAtRequest(r, t) \/ TurnAway(r, t)
        PROVE  Fits(job'[r])
    BY <1>1, <2>2 DEF EndAtRequest, TurnAway
  <2>3. ASSUME NEW t \in Sessions, NEW u \in Users, NEW patch \in Patches, AskChangeAccount(r, t, u, patch)
        PROVE  Fits(job'[r])
    <3> DEFINE j == [NoJob EXCEPT !.op = "change_account", !.subject = u, !.patch = patch]
    <3>1. j \in Job /\ j.op = "change_account"
      BY BlankTypes DEF Job, NoJob, ConstantsAssumption
    <3>2. QED
      BY <2>1, <2>3, <3>1 DEF AskChangeAccount
  <2>4. ASSUME NEW t \in Sessions, NEW u \in Users, AskResetPassword(r, t, u)
        PROVE  Fits(job'[r])
    <3> DEFINE j == [NoJob EXCEPT !.op = "reset_password", !.subject = u]
    <3>1. j \in Job /\ j.op = "reset_password"
      BY BlankTypes DEF Job, NoJob
    <3>2. QED
      BY <2>1, <2>4, <3>1 DEF AskResetPassword
  <2>5. ASSUME NEW t \in Sessions, NEW u \in Users, NEW role \in Role, AskAddPerson(r, t, u, role)
        PROVE  Fits(job'[r])
    <3> DEFINE j == [NoJob EXCEPT !.op = "add_person", !.subject = u, !.patch.role = role]
    <3>1. j.op = "add_person" /\ j \in Job
      BY BlankTypes DEF Job, NoJob, Patch
    <3>2. Serve(r, t, j, "add") /\ users[Holder(t)].role = "admin"
      BY <2>5 DEF AskAddPerson, MayAdminister
    <3> HIDE DEF j
    <3>3. job'[r] = [j EXCEPT !.actor = Holder(t)]
      BY <1>1, <3>2 DEF Serve, Typed
    <3>4. job'[r].op = "add_person" /\ job'[r].actor = Holder(t)
      BY <3>1, <3>3 DEF Job
    <3>5. QED
      BY <3>2, <3>4
  <2>6. ASSUME NEW t \in Sessions, NEW change \in LimitChange, AskChangeLimits(r, t, change)
        PROVE  Fits(job'[r])
    <3> DEFINE j == [NoJob EXCEPT !.op = "change_session_limits", !.limits = change]
    <3>1. j \in Job /\ j.op = "change_session_limits"
      BY BlankTypes DEF Job, NoJob
    <3>2. QED
      BY <2>1, <2>6, <3>1 DEF AskChangeLimits
  <2>7. ASSUME NEW t \in Sessions, AskReplacePassword(r, t)
        PROVE  Fits(job'[r])
    <3> DEFINE j == [NoJob EXCEPT !.op = "replace_password", !.subject = Holder(t)]
    <3>1. Holder(t) \in Users
      BY <2>7 DEF AskReplacePassword, TypeOK, Holder
    <3>2. j \in Job /\ j.op = "replace_password"
      BY <3>1, BlankTypes DEF Job, NoJob
    <3>3. QED
      BY <2>1, <2>7, <3>2 DEF AskReplacePassword
  <2>8. ASSUME NEW t \in Sessions, StartSignOut(r, t)
        PROVE  Fits(job'[r])
    BY <1>1, <2>8 DEF StartSignOut, Typed, NoJob
  <2>9. ASSUME NEW u \in Users, SetUp(r, u)
        PROVE  Fits(job'[r])
    <3>1. CASE job' = job
      BY <1>1, <3>1
    <3>2. CASE job' # job
      <4>1. job' = [job EXCEPT ![r] = [NoJob EXCEPT !.op = "setup", !.actor = u, !.subject = u]]
        BY <2>9, <3>2 DEF SetUp
      <4>2. job'[r].op = "setup"
        BY <1>1, <4>1 DEF Typed, NoJob
      <4>3. QED
        BY <4>2
    <3>3. QED
      BY <3>1, <3>2
  <2>10. ASSUME NEW u \in Users, NEW password \in {"chosen", "issued"}, SignIn(r, u, password)
         PROVE  Fits(job'[r])
    <3>1. CASE job' = job
      BY <1>1, <3>1
    <3>2. CASE job' # job
      <4>1. job' = [job EXCEPT ![r] = [NoJob EXCEPT !.op = "sign_in", !.actor = u, !.subject = u,
                                                    !.password = password]]
        BY <2>10, <3>2 DEF SignIn
      <4>2. job'[r].op = "sign_in"
        BY <1>1, <4>1 DEF Typed, NoJob
      <4>3. QED
        BY <4>2
    <3>3. QED
      BY <3>1, <3>2
  <2>11. QED
    BY <1>4, <2>2, <2>3, <2>4, <2>5, <2>6, <2>7, <2>8, <2>9, <2>10 DEF Arrive
<1>5. ASSUME Statement(r)
      PROVE  Fits(job'[r])
  <2>1. ChangeRole(r) \/ ChangeState(r) \/ Reset(r) \/ Rehash(r) \/ NewPassword(r)
          => Fits(job'[r])
    BY <1>2 DEF ChangeRole, ChangeState, Reset, Rehash, NewPassword
  <2>2. RecordRole(r) \/ RecordState(r) \/ RecordChange(r) => Fits(job'[r])
    BY <1>3 DEF RecordRole, RecordState, RecordChange
  <2>3. job' = job \/ job' = [job EXCEPT ![r] = NoJob] => Fits(job'[r])
    BY <1>1 DEF Typed
  <2>4. ReadPerson(r) \/ EndSessions(r) \/ Add(r) \/ ChangeLimits(r) \/ SignOut(r) \/ Finish(r)
       \/ CommitAnswered(r) => job' = job \/ job' = [job EXCEPT ![r] = NoJob]
    BY DEF ReadPerson, EndSessions, Add, ChangeLimits, SignOut, Finish, CommitAnswered, Commit, Rollback
  <2>5. ASSUME ReadLimits(r) PROVE Fits(job'[r])
    <3>1. CASE Rollback(r)
      BY <2>3, <3>1 DEF Rollback
    <3>2. CASE ~Rollback(r)
      <4>1. \E change : job' = [job EXCEPT ![r].limits = change]
        BY <2>5, <3>2 DEF ReadLimits
      <4>2. job'[r].op = job[r].op /\ job'[r].actor = job[r].actor /\ job'[r].session = job[r].session
        BY <1>1, <4>1 DEF Typed, Job
      <4>3. QED
        BY <1>1, <4>2
    <3>3. QED
      BY <3>1, <3>2
  <2> HIDE DEF Fits
  <2>6. QED
    BY <1>5, <2>1, <2>2, <2>3, <2>4, <2>5 DEF Statement
<1> HIDE DEF Fits
<1>6. Fits(job'[r])
  BY <1>4, <1>5
<1>7. QED
  BY <1>6 DEF Fits

\* Every step keeps what is settled.
LEMMA StepKeepsSettling ==
  ASSUME TypeOK, TypeOK', Settling, \A q \in Requests : UnderWay(q),
         NEW r \in Requests, Arrive(r) \/ Statement(r)
  PROVE  Settling'
<1>1. \A q \in Requests \ {r} : Untouched(q)
  BY StepLeavesOthers DEF UnderWay
<1>2. /\ SessionsSettle
      /\ \A q \in Requests \ {r} : sessions[q].ended = "none" => sessions'[q].ended = "none"
      /\ pc'[r] # "done" => sessions'[r] = sessions[r]
  BY StepSettles
<1>3. \A u \in Users : users'[u] = users[u] \/ users'[u].role # "none"
  BY RowCommitted, StepCommitted
<1>4. \A u \in Users : users[u].role # "none" => users'[u].role # "none"
  BY <1>3
<1>5. /\ job'[r].op = "add_person" => users[job'[r].actor].role # "none"
      /\ job'[r].op = "sign_out" => sessions[job'[r].session].ended # "none"
  BY StepJobs
<1>6. ASSUME NEW q \in Requests
      PROVE  /\ job'[q].op = "add_person" =>
                  job'[q].actor \in Users /\ users[job'[q].actor].role # "none"
             /\ job'[q].op = "sign_out" =>
                  job'[q].session \in Sessions /\ sessions[job'[q].session].ended # "none"
  <2>1. JobInOrder(job'[q], pc'[q])
    BY DEF TypeOK, JobInOrder
  <2>2. QED
    BY <1>1, <1>5, <2>1 DEF Untouched, Settling, JobInOrder
<1>7. ASSUME NEW q \in Requests, pc'[q] # "done"
      PROVE  sessions'[q].ended = "none"
  <2>1. CASE q = r
    <3>1. pc[r] # "done"
      BY <2>1, DoneStays
    <3>2. QED
      BY <1>2, <1>7, <2>1, <3>1 DEF Settling
  <2>2. CASE q # r
    BY <1>1, <1>2, <1>7, <2>2 DEF Settling, Untouched
  <2>3. QED
    BY <2>1, <2>2
<1>8. QED
  BY <1>2, <1>3, <1>4, <1>6, <1>7 DEF Settling, SessionsSettle

\* A commit and a sign-out leave their request done.
LEMMA EndUnderWay ==
  ASSUME TypeOK, NEW r \in Requests, UnderWay(r), SignOut(r) \/ Commit(r)
  PROVE  UnderWay(r)'
<1>1. job'[r] = NoJob /\ pc'[r] = "done"
  BY DEF SignOut, Commit, Goto, TypeOK, Typed
<1>2. tx'[r] = NoTransaction /\ \A u \in Users : lock'[u] # r
  <2>1. CASE SignOut(r)
    <3>1. job[r].op = "sign_out"
      BY <2>1, AtStatement DEF SignOut, JobInOrder, StatementsOf, Job
    <3>2. tx[r] = NoTransaction /\ \A u \in Users : lock[u] # r
      BY <3>1, BareHoldsNothing DEF UnderWay, Bare
    <3>3. QED
      BY <2>1, <3>2 DEF SignOut
  <2>2. CASE Commit(r)
    BY <2>2 DEF Commit, Released, TypeOK, Typed, ConstantsAssumption
  <2>3. QED
    BY <2>1, <2>2
<1>3. QED
  BY <1>1, <1>2, DoneUnderWay

\* Reading the person once more changes nothing of the transaction.
LEMMA ReadLastUnderWay ==
  ASSUME TypeOK, NEW r \in Requests, UnderWay(r), pc[r] = "finish",
         job[r].op \in {"change_account", "reset_password"},
         Goto(r, "commit") /\ UNCHANGED <<tables, lock, job, tx>>
  PROVE  UnderWay(r)'
<1>1. /\ pc'[r] = "commit" /\ UNCHANGED <<users, sessions, audit>>
      /\ tx'[r] = tx[r] /\ job'[r] = job[r] /\ lock' = lock
  BY DEF Goto, TypeOK, Typed, tables
<1>2. /\ \A action : Adds(r, action)' <=> Adds(r, action)
      /\ Disables(r)' <=> Disables(r)
      /\ MustEnd(r)' <=> MustEnd(r)
  BY <1>1 DEF Adds, Disables, MustEnd
<1>3. Bare(r)' /\ Writes(r)' /\ Changes(r)' /\ SetsUpAlone(r)'
  BY <1>1, StatementKeeps DEF tables
<1>4. Records(r)'
  BY <1>1, <1>2 DEF UnderWay, Records
<1>5. EndsSessions(r)'
  BY <1>1, <1>2 DEF UnderWay, EndsSessions
<1>6. QED
  BY <1>3, <1>4, <1>5 DEF UnderWay

\* The request that takes a step stays in order.
LEMMA StepUnderWay ==
  ASSUME TypeOK, Settling, \A q \in Requests : UnderWay(q),
         NEW r \in Requests, Arrive(r) \/ Statement(r)
  PROVE  UnderWay(r)'
<1>1. SessionsSettle
  BY StepSettles
<1>2. Arrive(r) => UnderWay(r)'
  BY ArriveUnderWay DEF UnderWay
<1>3. Finish(r) \/ CommitAnswered(r) => UnderWay(r)'
  BY EndUnderWay, RollbackUnderWay, ReadLastUnderWay DEF Finish, CommitAnswered
<1>4. Statement(r) => UnderWay(r)'
  BY <1>1, <1>3, ReadPersonUnderWay, RecordsUnderWay, UpdatesUnderWay, EndSessionsUnderWay, AddUnderWay,
     LimitsUnderWay, EndUnderWay
     DEF Statement
<1>5. QED
  BY <1>2, <1>4

\* So does every other.
LEMMA StepOthersUnderWay ==
  ASSUME TypeOK, TypeOK', Settling, \A q \in Requests : UnderWay(q),
         NEW r \in Requests, Arrive(r) \/ Statement(r), NEW q \in Requests \ {r}
  PROVE  UnderWay(q)'
<1>1. (\A p \in Requests \ {r} : Untouched(p)) /\ TakesFairly(r)
  BY StepLeavesOthers DEF UnderWay
<1>2. SessionsSettle
  BY StepSettles
<1>3. CASE UNCHANGED <<users, audit, limits>>
  BY <1>1, <1>2, <1>3, QuietKeeps
<1>4. CASE pc[r] \in {"finish", "commit"} /\ Commit(r)
  <2>1. LossesRecorded
    BY <1>4, CommitLosses
  <2>2. \A u \in Users : lock[u] = q => users'[u] = users[u]
    BY <1>4, RowCommitted
  <2>3. ASSUME job[q].op = "setup", NEW v \in Users
        PROVE  users'[v].role # "admin" /\ lock'[v] \in {q, NoOne}
    <3>1. lock[v] \in {q, NoOne} /\ users[v].role # "admin" /\ NoOne \notin Requests
      BY <2>3 DEF UnderWay, SetsUpAlone, ConstantsAssumption
    <3>2. users'[v] = users[v]
      BY <1>4, <3>1, RowCommitted
    <3>3. lock'[v] = lock[v]
      BY <1>4, <3>1 DEF Commit, Released, TypeOK, Typed
    <3>4. QED
      BY <3>1, <3>2, <3>3
  <2>4. QED
    BY <1>1, <1>2, <2>1, <2>2, <2>3, UntouchedKeeps
<1>5. QED
  BY <1>3, <1>4, StepCommitted

\* Nothing committed, nobody falls.
LEMMA QuietLastAdmin ==
  ASSUME LastAdminFallsToTwo, UNCHANGED <<users, audit>>
  PROVE  LastAdminFallsToTwo'
  BY DEF LastAdminFallsToTwo, EnabledAdmins, Removed, Removals

\* The first states satisfy the invariant.
LEMMA InitInvariant == Init => IInv
<1> SUFFICES ASSUME Init
             PROVE  IInv
  OBVIOUS
<1>1. TypeOK
  BY InitType
<1>2. ASSUME NEW r \in Requests
      PROVE  /\ job[r] = NoJob /\ tx[r] = NoTransaction /\ pc[r] = "idle"
             /\ sessions[r].ended = "none" /\ \A u \in Users : lock[u] # r
  BY DEF Init, Sessions, ConstantsAssumption
<1>3. ASSUME NEW r \in Requests
      PROVE  UnderWay(r)
  <2>1. Bare(r) /\ Writes(r) /\ Changes(r) /\ SetsUpAlone(r)
    BY <1>2 DEF Bare, Writes, Changes, SetsUpAlone, NoJob
  <2>2. Records(r)
    BY <1>2 DEF Records, NoTransaction, NoJob
  <2>3. EndsSessions(r)
    BY <1>2 DEF EndsSessions, NoTransaction, NoJob
  <2>4. QED
    BY <2>1, <2>2, <2>3 DEF UnderWay
<1>4. \A u \in Users : users[u].role = "none" => users[u] = NoRow
  BY DEF Init, Settled
<1>5. Settling
  BY <1>2, <1>4 DEF Settling, NoJob
<1>6. LastAdminFallsToTwo
  BY DEF Init, LastAdminFallsToTwo, NoRow
<1>7. QED
  BY <1>1, <1>3, <1>5, <1>6 DEF IInv

\* Every step keeps it.
LEMMA StepInvariant == IInv /\ [Next]_vars => IInv'
<1> SUFFICES ASSUME IInv, [Next]_vars
             PROVE  IInv'
  OBVIOUS
<1>1. TypeOK /\ TypeOK' /\ Settling /\ \A q \in Requests : UnderWay(q)
  BY NextType DEF IInv
<1>2. ASSUME NEW r \in Requests, Arrive(r) \/ Statement(r)
      PROVE  IInv'
  <2>1. \A q \in Requests : UnderWay(q)'
    BY <1>1, <1>2, StepUnderWay, StepOthersUnderWay
  <2>2. Settling'
    BY <1>1, <1>2, StepKeepsSettling
  <2>3. LastAdminFallsToTwo'
    BY <1>1, <1>2, StepCommitted, QuietLastAdmin, CommitLastAdmin DEF IInv
  <2>4. QED
    BY <1>1, <2>1, <2>2, <2>3 DEF IInv
<1>3. CASE UNCHANGED vars
  <2>1. \A q \in Requests : UnderWay(q)'
    <3>1. ASSUME NEW q \in Requests PROVE UnderWay(q)'
      <4>1. Untouched(q) /\ SessionsSettle /\ LossesRecorded
        BY <1>3 DEF vars, Untouched, SessionsSettle, LossesRecorded, Removed, Removals
      <4>2. job[q].op = "setup" => \A v \in Users : users'[v].role # "admin" /\ lock'[v] \in {q, NoOne}
        BY <1>1, <1>3 DEF vars, UnderWay, SetsUpAlone
      <4>3. QED
        BY <1>1, <1>3, <4>1, <4>2, UntouchedKeeps DEF vars
    <3>2. QED
      BY <3>1
  <2>2. Settling'
    BY <1>1, <1>3 DEF vars, Settling
  <2>3. LastAdminFallsToTwo'
    BY <1>3, QuietLastAdmin DEF vars, IInv
  <2>4. QED
    BY <1>1, <2>1, <2>2, <2>3 DEF IInv
<1>4. QED
  BY <1>2, <1>3 DEF Next, AllDone

\* The invariant holds throughout.
LEMMA Invariant == Spec => []IInv
  BY InitInvariant, StepInvariant, PTL DEF Spec

\* One request alone never removes the last enabled admin, however many run at
\* once: the guard looks past the request's own row, so the one it saw fell to
\* another request, and each of the two is on record.
THEOREM LastAdminFalls == Spec => []LastAdminFallsToTwo
<1>1. IInv => LastAdminFallsToTwo
  BY DEF IInv
<1>2. QED
  BY <1>1, Invariant, PTL

-----------------------------------------------------------------------------
(* What a commit may do.                                                   *)

\* The commit of a request at its last statement is the only step that changes
\* an account, a limit or the record of them.
LEMMA StepCommits ==
  ASSUME IInv, [Next]_vars
  PROVE  \/ UNCHANGED <<users, audit, limits>>
         \/ \E r \in Requests : (pc[r] \in {"finish", "commit"} /\ Commit(r))
  BY StepCommitted DEF IInv, Next, AllDone, vars

\* An account that appears, or changes role or state, is committed with the
\* record of the change.
LEMMA CommitRecords ==
  ASSUME IInv, NEW r \in Requests, pc[r] \in {"finish", "commit"}, Commit(r), NEW u \in Users
  PROVE  LET old == users[u]
             new == users'[u]
         IN  /\ old.role = "none" /\ new.role # "none"
                  => NewlyRecorded("person_added", u) \/ NewlyRecorded("first_admin_created", u)
             /\ old.role # "none" /\ new.role # old.role => NewlyRecorded("role_changed", u)
             /\ ~old.disabled /\ new.disabled => NewlyRecorded("account_disabled", u)
             /\ old.disabled /\ ~new.disabled => NewlyRecorded("account_enabled", u)
             /\ ~old.must_change_password /\ new.must_change_password /\ old.role # "none"
                  => NewlyRecorded("password_reset", u)
<1>1. TypeOK /\ UnderWay(r) /\ Settling
  BY DEF IInv
<1>2. CASE users'[u] = users[u]
  BY <1>2
<1>3. CASE users'[u] # users[u]
  <2>1. lock[u] = r /\ u = job[r].subject /\ users'[u] = tx[r].draft /\ users'[u].role # "none"
    BY <1>1, <1>3, RowCommitted
  <2>2. \A action : Adds(r, action) => NewlyRecorded(action, u)
    BY <1>1, <2>1, AddsRecorded
  <2>3. CASE users[u].role = "none"
    <3>1. users[u] = NoRow /\ ~users[u].disabled
      BY <1>1, <2>3 DEF Settling, NoRow
    <3>2. job[r].op \in {"add_person", "setup"} /\ ~users'[u].disabled
      BY <1>1, <2>1, <2>3 DEF UnderWay, Writes
    <3>3. Adds(r, "person_added") \/ Adds(r, "first_admin_created")
      BY <1>1, <3>2 DEF UnderWay, Records
    <3>4. QED
      BY <2>2, <2>3, <3>1, <3>2, <3>3
  <2>4. CASE users[u].role # "none"
    <3>1. AddsRole(r, users'[u].role) => Adds(r, "role_changed")
      BY DEF AddsRole, Adds
    <3>2. /\ users'[u].role # users[u].role => Adds(r, "role_changed")
          /\ ~users[u].disabled /\ users'[u].disabled => Adds(r, "account_disabled")
          /\ users[u].disabled /\ ~users'[u].disabled => Adds(r, "account_enabled")
          /\ ~users[u].must_change_password /\ users'[u].must_change_password
               => job[r].op = "reset_password"
      BY <1>1, <2>1, <2>4, <3>1 DEF UnderWay, Changes
    <3>3. job[r].op = "reset_password" => Adds(r, "password_reset")
      BY <1>1 DEF UnderWay, Records
    <3>4. QED
      BY <2>2, <2>4, <3>2, <3>3
  <2>5. QED
    BY <2>3, <2>4
<1>4. QED
  BY <1>2, <1>3

\* So is a limit that changes.
LEMMA CommitRecordsLimits ==
  ASSUME IInv, NEW r \in Requests, pc[r] \in {"finish", "commit"}, Commit(r), limits' # limits
  PROVE  NewlyRecorded("session_limits_changed", NoOne)
<1>1. TypeOK /\ UnderWay(r) /\ limits \in SessionLimits
  BY DEF IInv, TypeOK, Typed
<1>2. tx[r].limits # NoLimitChange
  BY <1>1 DEF Commit, Over, NoLimitChange, SessionLimits
<1>3. job[r].op = "change_session_limits" /\ job[r].subject = NoOne
  BY <1>1, <1>2 DEF UnderWay, Records, Bare
<1>4. Adds(r, "session_limits_changed")
  BY <1>1, <1>3 DEF UnderWay, Records
<1>5. QED
  BY <1>1, <1>3, <1>4, AddsRecorded

\* "Every change an admin makes is recorded", whatever requests interleave.
THEOREM ChangesAreRecorded == Spec => AccountChangesRecorded
<1> DEFINE Kept == /\ \A u \in Users :
                        LET old == users[u]
                            new == users'[u]
                        IN  /\ old.role = "none" /\ new.role # "none"
                                 => NewlyRecorded("person_added", u) \/ NewlyRecorded("first_admin_created", u)
                            /\ old.role # "none" /\ new.role # old.role => NewlyRecorded("role_changed", u)
                            /\ ~old.disabled /\ new.disabled => NewlyRecorded("account_disabled", u)
                            /\ old.disabled /\ ~new.disabled => NewlyRecorded("account_enabled", u)
                            /\ ~old.must_change_password /\ new.must_change_password /\ old.role # "none"
                                 => NewlyRecorded("password_reset", u)
                   /\ limits' # limits => NewlyRecorded("session_limits_changed", NoOne)
<1>1. IInv /\ [Next]_vars => Kept
  <2> SUFFICES ASSUME IInv, [Next]_vars PROVE Kept
    OBVIOUS
  <2>1. CASE UNCHANGED <<users, audit, limits>>
    BY <2>1
  <2>2. ASSUME NEW r \in Requests, pc[r] \in {"finish", "commit"}, Commit(r)
        PROVE  Kept
    BY <2>2, CommitRecords, CommitRecordsLimits
  <2>3. QED
    BY <2>1, <2>2, StepCommits
<1>2. QED
  BY <1>1, Invariant, PTL DEF Spec, AccountChangesRecorded

\* A first admin is committed only where nobody holds the role: a setup has the
\* table to itself from its look at it to its commit.
THEOREM FirstAdminAlone == Spec => FirstAdminIsFirst
<1> DEFINE First == (\E u \in Users : NewlyRecorded("first_admin_created", u))
                       => \A u \in Users : users[u].role # "admin"
<1>1. IInv /\ [Next]_vars => First
  <2> SUFFICES ASSUME IInv, [Next]_vars, NEW u \in Users, NewlyRecorded("first_admin_created", u)
               PROVE  \A v \in Users : users[v].role # "admin"
    OBVIOUS
  <2>1. CASE audit' = audit
    <3>1. Len(audit) \in Nat
      BY DEF IInv, TypeOK, Typed
    <3>2. ~NewlyRecorded("first_admin_created", u)
      BY <2>1, <3>1 DEF NewlyRecorded
    <3>3. QED
      BY <3>2
  <2>2. ASSUME NEW r \in Requests, pc[r] \in {"finish", "commit"}, Commit(r)
        PROVE  \A v \in Users : users[v].role # "admin"
    <3>1. TypeOK /\ UnderWay(r)
      BY DEF IInv
    <3>2. job[r].op = "setup"
      BY <2>2, <3>1, AddsRecorded DEF UnderWay, Records
    <3>3. QED
      BY <3>1, <3>2 DEF UnderWay, SetsUpAlone
  <2>3. QED
    BY <2>1, <2>2, StepCommits
<1>2. QED
  BY <1>1, Invariant, PTL DEF Spec, FirstAdminIsFirst

\* The commit that disables an account or gives it a temporary password ends the
\* sessions that ran when its row was changed, whoever signs in or out meanwhile.
THEOREM SessionsEndWithIt == Spec => SessionsEndWithTheChange
<1> DEFINE Ends(r) ==
      LET u == job[r].subject
      IN  /\ pc[r] = "commit" /\ audit' # audit /\ pc'[r] = "done" /\ ~tx[r].missed
          /\ \/ job[r].op = "reset_password" /\ users'[u] # users[u]
             \/ job[r].op = "change_account" /\ ~users[u].disabled /\ users'[u].disabled
          => \A s \in tx[r].running : sessions'[s].ended # "running"
<1>1. IInv /\ [Next]_vars => \A r \in Requests : Ends(r)
  <2> SUFFICES ASSUME IInv, [Next]_vars, NEW r \in Requests,
                      pc[r] = "commit", audit' # audit, pc'[r] = "done", ~tx[r].missed,
                      \/ job[r].op = "reset_password"
                      \/ /\ job[r].op = "change_account"
                         /\ ~users[job[r].subject].disabled /\ users'[job[r].subject].disabled,
                      NEW s \in tx[r].running
               PROVE  sessions'[s].ended # "running"
    OBVIOUS
  <2>1. TypeOK /\ UnderWay(r) /\ Settling
    BY DEF IInv
  <2>2. Commit(r)
    <3>1. PICK q \in Requests : Commit(q)
      BY StepCommits
    <3>2. q = r
      BY <2>1, <3>1 DEF Commit, Goto, TypeOK, Typed
    <3>3. QED
      BY <3>1, <3>2
  <2>3. s \in Sessions /\ job[r].subject \in Users
    BY <2>1, AtStatement DEF Transaction, JobInOrder
  <2>4. MustEnd(r)
    <3>1. CASE job[r].op = "reset_password"
      BY <3>1 DEF MustEnd
    <3>2. CASE job[r].op # "reset_password"
      <4>1. users'[job[r].subject] # users[job[r].subject]
        BY <3>2
      <4>2. lock[job[r].subject] = r /\ users'[job[r].subject] = tx[r].draft
        BY <2>1, <2>2, <2>3, <4>1, RowCommitted
      <4>3. QED
        BY <2>3, <3>2, <4>2 DEF MustEnd, Disables
    <3>3. QED
      BY <3>1, <3>2
  <2>5. s \in tx[r].ends \/ sessions[s].ended # "running"
    BY <2>1, <2>4 DEF UnderWay, EndsSessions
  <2>6. /\ sessions' = [t \in Sessions |->
             IF t = r /\ job[r].op \in {"sign_in", "setup"}
             THEN [owner |-> job[r].actor, ended |-> "running"]
             ELSE IF t \in tx[r].ends /\ sessions[t].ended = "running"
             THEN [sessions[t] EXCEPT !.ended = Reason(r)]
             ELSE sessions[t]]
        /\ job[r].op \notin {"sign_in", "setup"}
    BY <2>2 DEF Commit
  <2>7. Reason(r) # "running" /\ sessions[s] \in SessionRow
    BY <2>1, <2>3 DEF Reason, TypeOK, Typed
  <2>8. QED
    BY <2>3, <2>5, <2>6, <2>7 DEF SessionRow
<1>2. QED
  BY <1>1, Invariant, PTL DEF Spec, SessionsEndWithTheChange
=============================================================================
