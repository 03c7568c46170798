------------------------------ MODULE Accounts ------------------------------
(***************************************************************************)
(* The accounts an installation holds and the requests that change them:   *)
(* api/services/{user_management, session_limit_settings, first_admin_     *)
(* setup, sign_in, sessions, audit}.py over the tables, policies and       *)
(* trigger of migrations 0019 to 0022.                                     *)
(*                                                                         *)
(* A request runs its statements one after another in Postgres's READ      *)
(* COMMITTED: every statement reads what is committed at that moment with  *)
(* the transaction's own writes over it, an update holds its row's lock    *)
(* until the transaction ends, and nothing else stops two requests from    *)
(* interleaving between statements.  A statement is one step, taken at     *)
(* the moment it has its row's lock.  Time is left out: a session may be   *)
(* past its limits at any request, and a temporary password past its day.  *)
(***************************************************************************)
EXTENDS Integers, Sequences, FiniteSets

CONSTANTS Users,          \* the usernames accounts may have
          Requests,       \* the requests under way at once
          NoOne,          \* no request, or no person
          Setting,        \* app_setting's one row, as something to lock
          Limits,         \* the values either session limit may take
          Patches         \* the changes asked of an account: role and disabled

Role    == {"admin", "member"}
Keep    == "keep"         \* a field the request leaves out
Endings == {"idle", "limit", "signed_out", "signed_out_elsewhere", "disabled"}
Patch   == [role: Role \union {Keep}, disabled: {"yes", "no", Keep}]

ASSUME ConstantsAssumption ==
  /\ NoOne \notin Users \union Requests
  /\ Setting \notin Users
  /\ Users \intersect Requests = {}
  /\ Limits \subseteq Nat \ {0}
  /\ Patches \subseteq Patch

\* A session is named by the person who held it from the start or by the
\* request that opened it.
Sessions == Users \union Requests

\* app_user's row; a username nobody has holds the role "none".
Row == [role: Role \union {"none"}, disabled: BOOLEAN,
        must_change_password: BOOLEAN,
        password: {"chosen", "issued"},   \* whose password the hash is of
        outdated: BOOLEAN]                \* hashed under earlier parameters

NoRow == [role |-> "none", disabled |-> FALSE, must_change_password |-> FALSE,
          password |-> "chosen", outdated |-> FALSE]

\* app_session's row: a session not opened yet ends with "none".
SessionRow == [owner: Users \union {NoOne}, ended: Endings \union {"none", "running"}]

SessionLimits == [idle: Limits, max: Limits]
LimitChange   == [idle: Limits \union {0}, max: Limits \union {0}]   \* 0: left out

\* audit_event's row; "role", "idle" and "max" are the detail's new values.
Record == [action: {"first_admin_created", "person_added", "role_changed",
                    "account_disabled", "account_enabled", "password_reset",
                    "session_limits_changed"},
           actor: Users, subject: Users \union {NoOne},
           role: Role \union {Keep}, limits: LimitChange]

\* What a request asks for.
Job == [op: {"none", "change_account", "reset_password", "add_person", "setup",
             "change_session_limits", "sign_in", "replace_password", "sign_out"},
        actor: Users \union {NoOne}, subject: Users \union {NoOne},
        patch: Patch, limits: LimitChange, password: {"chosen", "issued"},
        session: Sessions \union {NoOne}]

NoLimitChange == [idle |-> 0, max |-> 0]

NoJob == [op |-> "none", actor |-> NoOne, subject |-> NoOne,
          patch |-> [role |-> Keep, disabled |-> Keep], limits |-> NoLimitChange,
          password |-> "chosen", session |-> NoOne]

\* A transaction's own state: the row it read, the row it wrote, the sessions
\* it ends, the limits it computed and those it wrote, the records it adds.
\* Two fields are only observed: whether an update of its reached no row, and
\* which of the subject's sessions ran when it changed the subject's row.
Transaction == [read: Row, draft: Row, ends: SUBSET Sessions,
                values: LimitChange, limits: LimitChange, records: Seq(Record),
                missed: BOOLEAN, running: SUBSET Sessions]

NoTransaction == [read |-> NoRow, draft |-> NoRow, ends |-> {},
                  values |-> NoLimitChange, limits |-> NoLimitChange,
                  records |-> <<>>, missed |-> FALSE, running |-> {}]

VARIABLES users, sessions, limits, audit,   \* what is committed
          lock,                             \* who holds each row
          pc, job, tx                       \* each request's progress

tables == <<users, sessions, limits, audit>>
vars   == <<users, sessions, limits, audit, lock, pc, job, tx>>

-----------------------------------------------------------------------------
\* A person as an installation may hold them: never with a password issued and
\* not to be changed.
Settled == {row \in Row : /\ row.role # "none"
                          /\ row.must_change_password <=> row.password = "issued"
                          /\ row.outdated => row.password = "chosen"}

EnabledAdmins == {u \in Users : users[u].role = "admin" /\ ~users[u].disabled}

\* An installation before its first admin, or one under way.
Init ==
  /\ users \in [Users -> Settled \union {NoRow}]
  /\ (\A u \in Users : users[u] = NoRow) \/ EnabledAdmins # {}
  /\ sessions = [s \in Sessions |->
       IF s \in Users /\ users[s].role # "none"
       THEN [owner |-> s, ended |-> IF users[s].disabled THEN "disabled" ELSE "running"]
       ELSE [owner |-> NoOne, ended |-> "none"]]
  /\ limits \in SessionLimits
  /\ audit = <<>>
  /\ lock = [row \in Users \union {Setting} |-> NoOne]
  /\ pc  = [r \in Requests |-> "idle"]
  /\ job = [r \in Requests |-> NoJob]
  /\ tx  = [r \in Requests |-> NoTransaction]

-----------------------------------------------------------------------------
(* What a transaction sees.                                                *)

RowSeen(r, u) == IF lock[u] = r THEN tx[r].draft ELSE users[u]

\* app_user_is_admin(), for the person the transaction acts for.
IsAdmin(r) ==
  LET me == RowSeen(r, job[r].actor) IN me.role = "admin" /\ ~me.disabled

\* The policies own_or_admin_reads and own_or_admin_changes.
Reaches(r, u) == u = job[r].actor \/ IsAdmin(r)

\* Whether the row's lock is the transaction's to take; create_first_admin
\* keeps every other writer of app_user out until it ends.
MayLock(r, row) ==
  /\ lock[row] \in {r, NoOne}
  /\ row # Setting => \A q \in Requests \ {r} : ~(job[q].op = "setup" /\ pc[q] \in {"record", "finish"})

\* Variant: a guard that never counts the admins left.
GuardCountingNoOne(r, u, new) ==
  <<RowSeen(r, u).role, RowSeen(r, u).disabled>> # <<new.role, new.disabled>> => IsAdmin(r)

\* app_user_guard(), run on the row as it stands once its lock is held.
Guard(r, u, new) ==
  LET old == RowSeen(r, u)
      others == {v \in Users \ {u} : users[v].role = "admin" /\ ~users[v].disabled}
  IN  /\ <<old.role, old.disabled>> # <<new.role, new.disabled>> => IsAdmin(r)
      /\ old.role = "admin" /\ ~old.disabled /\ (new.role # "admin" \/ new.disabled)
           => others # {}

-----------------------------------------------------------------------------
(* Statements.                                                             *)

RunningSessions(u) ==
  {s \in Sessions : sessions[s].owner = u /\ sessions[s].ended = "running"}

Goto(r, label) == pc' = [pc EXCEPT ![r] = label]

Released(r) == [row \in DOMAIN lock |-> IF lock[row] = r THEN NoOne ELSE lock[row]]

\* The transaction ends with nothing kept, or with no change made.
Rollback(r) ==
  /\ Goto(r, "done")
  /\ lock' = Released(r)
  /\ tx'  = [tx EXCEPT ![r] = NoTransaction]
  /\ job' = [job EXCEPT ![r] = NoJob]
  /\ UNCHANGED tables

\* An update of app_user: a row the policy hides is left alone, and nothing
\* looks at how many rows an update reached.
UpdateUser(r, u, new, next) ==
  /\ UNCHANGED <<tables, job>>
  /\ IF RowSeen(r, u).role # "none" /\ Reaches(r, u)
     THEN /\ MayLock(r, u)
          /\ Guard(r, u, new)
          /\ lock' = [lock EXCEPT ![u] = r]
          /\ tx' = [tx EXCEPT ![r].draft = new, ![r].running = RunningSessions(u)]
     ELSE /\ tx' = [tx EXCEPT ![r].missed = TRUE]
          /\ UNCHANGED lock
  /\ Goto(r, next)

\* The trigger raises, and the transaction is undone.
GuardRefuses(r, u, new) ==
  /\ RowSeen(r, u).role # "none" /\ Reaches(r, u)
  /\ MayLock(r, u)
  /\ ~Guard(r, u, new)
  /\ Rollback(r)

\* record_admin_action: the policy lets an admin add records of their own.
RecordAction(r, record, next) ==
  IF IsAdmin(r)
  THEN /\ tx' = [tx EXCEPT ![r].records = Append(@, record)]
       /\ Goto(r, next)
       /\ UNCHANGED <<tables, lock, job>>
  ELSE Rollback(r)

RecordOf(r, action) ==
  [action |-> action, actor |-> job[r].actor, subject |-> job[r].subject,
   role |-> Keep, limits |-> NoLimitChange]

Reason(r) == IF job[r].op = "reset_password" THEN "signed_out_elsewhere" ELSE "disabled"

SessionLocked(r, s) == \E q \in Requests \ {r} : s \in tx[q].ends

\* Variant: a limit left out is written as none.
OverWithGaps(change, old) == [idle |-> change.idle, max |-> change.max]

\* Limits with a change laid over them.
Over(change, old) == [idle |-> IF change.idle = 0 THEN old.idle ELSE change.idle,
                      max  |-> IF change.max = 0 THEN old.max ELSE change.max]

\* The commit: every row the transaction wrote is seen from here on.
Commit(r) ==
  /\ users' = [u \in Users |-> RowSeen(r, u)]
  /\ audit' = audit \o tx[r].records
  /\ limits' = Over(tx[r].limits, limits)
  /\ sessions' = [s \in Sessions |->
       IF s = r /\ job[r].op \in {"sign_in", "setup"}
       THEN [owner |-> job[r].actor, ended |-> "running"]
       ELSE IF s \in tx[r].ends /\ sessions[s].ended = "running"
       THEN [sessions[s] EXCEPT !.ended = Reason(r)]
       ELSE sessions[s]]
  /\ lock' = Released(r)
  /\ tx'  = [tx EXCEPT ![r] = NoTransaction]
  /\ job' = [job EXCEPT ![r] = NoJob]
  /\ Goto(r, "done")

-----------------------------------------------------------------------------
(* A request arrives with the cookie of session s: session_holder reads the *)
(* session and who holds it, and ends it where it is past a limit or its    *)
(* account is disabled.                                                    *)

Holder(s) == sessions[s].owner

EndAtRequest(r, s) ==
  /\ pc[r] = "idle"
  /\ sessions[s].ended = "running"
  /\ ~SessionLocked(r, s)
  /\ \E reason \in {"idle", "limit"} \union (IF users[Holder(s)].disabled THEN {"disabled"} ELSE {}) :
       sessions' = [sessions EXCEPT ![s].ended = reason]
  /\ Goto(r, "done")
  /\ UNCHANGED <<users, limits, audit, lock, job, tx>>

\* The session acts for its holder, who asks for j; `read` keeps the account
\* as it was found, for the rest of the request.
Serve(r, s, j, label) ==
  /\ pc[r] = "idle"
  /\ sessions[s].ended = "running"
  /\ ~users[Holder(s)].disabled
  /\ job' = [job EXCEPT ![r] = [j EXCEPT !.actor = Holder(s)]]
  /\ tx'  = [tx EXCEPT ![r].read = users[Holder(s)]]
  /\ Goto(r, label)
  /\ UNCHANGED <<tables, lock>>

\* The dependency `admin`.
MayAdminister(s) ==
  LET holder == users[Holder(s)]
  IN  sessions[s].ended = "running" /\ ~holder.must_change_password /\ holder.role = "admin"

\* An ended session, a member, or someone with a temporary password to replace.
TurnAway(r, s) ==
  /\ pc[r] = "idle"
  /\ sessions[s].ended # "none"
  /\ sessions[s].ended = "running" => ~MayAdminister(s)
  /\ Goto(r, "done")
  /\ UNCHANGED <<tables, lock, job, tx>>

AskChangeAccount(r, s, u, patch) ==
  /\ MayAdminister(s)
  /\ ~(patch.disabled = "yes" /\ u = Holder(s))      \* own_account
  /\ Serve(r, s, [NoJob EXCEPT !.op = "change_account", !.subject = u, !.patch = patch],
           "person")

AskResetPassword(r, s, u) ==
  /\ MayAdminister(s)
  /\ Serve(r, s, [NoJob EXCEPT !.op = "reset_password", !.subject = u], "person")

AskAddPerson(r, s, u, role) ==
  /\ MayAdminister(s)
  /\ Serve(r, s, [NoJob EXCEPT !.op = "add_person", !.subject = u, !.patch.role = role],
           "add")

AskChangeLimits(r, s, change) ==
  /\ MayAdminister(s)
  /\ Serve(r, s, [NoJob EXCEPT !.op = "change_session_limits", !.limits = change], "limits")

AskReplacePassword(r, s) ==
  /\ sessions[s].ended = "running"
  /\ users[Holder(s)].must_change_password            \* otherwise no_change_due
  /\ Serve(r, s, [NoJob EXCEPT !.op = "replace_password", !.subject = Holder(s)],
           "new_password")

-----------------------------------------------------------------------------
(* person, change_account and reset_password.                              *)

RoleChanges(patch, row)  == patch.role # Keep /\ patch.role # row.role
StateChanges(patch, row) == patch.disabled # Keep /\ (patch.disabled = "yes") # row.disabled

ReadPerson(r) ==
  /\ pc[r] = "person"
  /\ LET u   == job[r].subject
         row == RowSeen(r, u)
     IN  IF row.role = "none" \/ ~Reaches(r, u) THEN Rollback(r)
         ELSE /\ tx' = [tx EXCEPT ![r].read = row]
              /\ Goto(r, IF job[r].op = "reset_password" THEN "reset"
                         ELSE IF RoleChanges(job[r].patch, row) THEN "record_role"
                         ELSE IF StateChanges(job[r].patch, row) THEN "record_state"
                         ELSE "finish")
              /\ UNCHANGED <<tables, lock, job>>

RecordRole(r) ==
  /\ pc[r] = "record_role"
  /\ RecordAction(r, [RecordOf(r, "role_changed") EXCEPT !.role = job[r].patch.role],
                  "change_role")

\* Variant: one record for a change of both role and state.
ChangeRoleUnderOneRecord(r) ==
  /\ pc[r] = "change_role"
  /\ LET u   == job[r].subject
         new == [RowSeen(r, u) EXCEPT !.role = job[r].patch.role]
         after == IF StateChanges(job[r].patch, tx[r].read) THEN "change_state" ELSE "finish"
     IN  UpdateUser(r, u, new, after) \/ GuardRefuses(r, u, new)

\* The row an update leaves: the columns it names changed, over the row as it
\* stands when the update has its lock.
ChangeRole(r) ==
  /\ pc[r] = "change_role"
  /\ LET u   == job[r].subject
         new == [RowSeen(r, u) EXCEPT !.role = job[r].patch.role]
         after == IF StateChanges(job[r].patch, tx[r].read) THEN "record_state" ELSE "finish"
     IN  UpdateUser(r, u, new, after) \/ GuardRefuses(r, u, new)

RecordState(r) ==
  /\ pc[r] = "record_state"
  /\ RecordAction(r, RecordOf(r, IF job[r].patch.disabled = "yes" THEN "account_disabled"
                                 ELSE "account_enabled"), "change_state")

ChangeState(r) ==
  /\ pc[r] = "change_state"
  /\ LET u       == job[r].subject
         disable == job[r].patch.disabled = "yes"
         new     == [RowSeen(r, u) EXCEPT !.disabled = disable]
     IN  \/ UpdateUser(r, u, new, IF disable THEN "end_sessions" ELSE "finish")
         \/ GuardRefuses(r, u, new)

\* reset_password's second transaction, the first one's row and the hash in hand.  The
\* failed sign-ins and the pause RESET clears with it are in SignIn (ResetFailures).
Reset(r) ==
  /\ pc[r] = "reset"
  /\ LET u == job[r].subject
     IN  UpdateUser(r, u, [RowSeen(r, u) EXCEPT !.password = "issued",
                             !.must_change_password = TRUE, !.outdated = FALSE],
                    "end_sessions")

\* Variant: the sessions are ended for a reset alone.
EndSessionsOfResets(r) ==
  /\ pc[r] = "end_sessions"
  /\ tx' = IF job[r].op = "reset_password" THEN [tx EXCEPT ![r].ends = RunningSessions(job[r].subject)]
           ELSE tx
  /\ Goto(r, IF job[r].op = "reset_password" THEN "record" ELSE "finish")
  /\ UNCHANGED <<tables, lock, job>>

\* END_SESSIONS: the subject's sessions running now, where the policy shows them.
EndSessions(r) ==
  /\ pc[r] = "end_sessions"
  /\ LET u == job[r].subject
     IN  IF Reaches(r, u)
         THEN /\ \A s \in RunningSessions(u) : ~SessionLocked(r, s)
              /\ tx' = [tx EXCEPT ![r].ends = RunningSessions(u)]
         ELSE tx' = [tx EXCEPT ![r].missed = TRUE]
  /\ Goto(r, IF job[r].op = "reset_password" THEN "record" ELSE "finish")
  /\ UNCHANGED <<tables, lock, job>>

-----------------------------------------------------------------------------
(* add_person, create_first_admin and change_session_limits.               *)

NewRow(role, password) ==
  [NoRow EXCEPT !.role = role, !.password = password,
                !.must_change_password = (password = "issued")]

\* ADD: the policy admits an admin alone, and the unique username one row; an
\* insert of the same username under way elsewhere is waited for.
Add(r) ==
  /\ pc[r] = "add"
  /\ LET u == job[r].subject
     IN  IF ~IsAdmin(r) THEN Rollback(r)
         ELSE /\ MayLock(r, u)
              /\ IF users[u].role # "none" THEN Rollback(r)
                 ELSE /\ lock' = [lock EXCEPT ![u] = r]
                      /\ tx' = [tx EXCEPT ![r].draft = NewRow(job[r].patch.role, "issued")]
                      /\ Goto(r, "record")
                      /\ UNCHANGED <<tables, job>>

\* Variant: a setup that waits for nobody.
TableNeverLocked(r) == TRUE

\* The lock of SHARE ROW EXCLUSIVE waits for every transaction that has
\* written app_user, another setup's included.
TableFree(r) == \A u \in Users : lock[u] \in {r, NoOne}

\* create_first_admin in the database: lock, look for an admin, insert.
SetUp(r, u) ==
  /\ pc[r] = "idle"
  /\ TableFree(r)
  /\ IF \E v \in Users : users[v].role = "admin" \/ users[u].role # "none"
     THEN Goto(r, "done") /\ UNCHANGED <<tables, lock, job, tx>>
     ELSE /\ lock' = [lock EXCEPT ![u] = r]
          /\ tx'  = [tx EXCEPT ![r].draft = NewRow("admin", "chosen")]
          /\ job' = [job EXCEPT ![r] = [NoJob EXCEPT !.op = "setup", !.actor = u, !.subject = u]]
          /\ Goto(r, "record")
          /\ UNCHANGED tables

\* LIMITS, and what is to change: the values written are both limits', the one
\* left out as it was read here.
ReadLimits(r) ==
  /\ pc[r] = "limits"
  /\ LET asked   == job[r].limits
         changed == [idle |-> IF asked.idle = limits.idle THEN 0 ELSE asked.idle,
                     max  |-> IF asked.max = limits.max THEN 0 ELSE asked.max]
     IN  IF changed = NoLimitChange THEN Rollback(r)
         ELSE /\ job' = [job EXCEPT ![r].limits = changed]
              /\ tx'  = [tx EXCEPT ![r].values = Over(asked, limits)]
              /\ Goto(r, "record")
              /\ UNCHANGED <<tables, lock>>

\* CHANGE: the policy admin_changes hides the row from anyone else.
ChangeLimits(r) ==
  /\ pc[r] = "change_limits"
  /\ IF IsAdmin(r)
     THEN /\ MayLock(r, Setting)
          /\ lock' = [lock EXCEPT ![Setting] = r]
          /\ tx' = [tx EXCEPT ![r].limits = tx[r].values]
     ELSE /\ tx' = [tx EXCEPT ![r].missed = TRUE]
          /\ UNCHANGED lock
  /\ Goto(r, "finish")
  /\ UNCHANGED <<tables, job>>

\* The record of the four changes that make one.
RecordChange(r) ==
  /\ pc[r] = "record"
  /\ \/ /\ job[r].op = "reset_password"
        /\ RecordAction(r, RecordOf(r, "password_reset"), "finish")
     \/ /\ job[r].op = "add_person"
        /\ RecordAction(r, [RecordOf(r, "person_added") EXCEPT !.role = job[r].patch.role], "finish")
     \/ /\ job[r].op = "setup"
        /\ RecordAction(r, RecordOf(r, "first_admin_created"), "finish")
     \/ /\ job[r].op = "change_session_limits"
        /\ RecordAction(r, [RecordOf(r, "session_limits_changed") EXCEPT !.limits = job[r].limits],
                        "change_limits")

-----------------------------------------------------------------------------
(* Signing in and out, and the password a person chooses.                  *)

\* The candidate read in a transaction of its own, and the password held
\* against it: everything that follows goes by this one reading.
SignIn(r, u, password) ==
  LET candidate == users[u]
      opens == /\ candidate.role # "none"
               /\ candidate.password = password
               /\ ~candidate.disabled
  IN  /\ pc[r] = "idle"
      /\ UNCHANGED <<tables, lock, tx>>
      /\ \/ Goto(r, "done") /\ UNCHANGED job      \* wrong, paused, disabled, past its day
         \/ /\ opens
            /\ job' = [job EXCEPT ![r] = [NoJob EXCEPT !.op = "sign_in", !.actor = u,
                                                       !.subject = u, !.password = password]]
            /\ Goto(r, IF candidate.outdated THEN "rehash" ELSE "finish")

\* REHASH: the password that was checked, under today's parameters.
Rehash(r) ==
  /\ pc[r] = "rehash"
  /\ LET u == job[r].subject
     IN  UpdateUser(r, u, [RowSeen(r, u) EXCEPT !.password = job[r].password, !.outdated = FALSE],
                    "finish")

\* NEW_PASSWORD, whatever became of the account since the request was let in.
NewPassword(r) ==
  /\ pc[r] = "new_password"
  /\ LET u == job[r].subject
     IN  UpdateUser(r, u, [RowSeen(r, u) EXCEPT !.password = "chosen", !.outdated = FALSE,
                             !.must_change_password = FALSE], "finish")

StartSignOut(r, s) ==
  /\ pc[r] = "idle"
  /\ sessions[s].ended = "running"
  /\ job' = [job EXCEPT ![r] = [NoJob EXCEPT !.op = "sign_out", !.actor = Holder(s), !.session = s]]
  /\ Goto(r, "sign_out")
  /\ UNCHANGED <<tables, lock, tx>>

\* SIGN_OUT, whether or not the session ended since it was read.
SignOut(r) ==
  /\ pc[r] = "sign_out"
  /\ ~SessionLocked(r, job[r].session)
  /\ sessions' = [sessions EXCEPT ![job[r].session].ended = "signed_out"]
  /\ job' = [job EXCEPT ![r] = NoJob]
  /\ Goto(r, "done")
  /\ UNCHANGED <<users, limits, audit, lock, tx>>

\* The last statement: change_account and reset_password read the person once more,
\* and a person out of sight undoes the change.  The others only commit.
Finish(r) ==
  /\ pc[r] = "finish"
  /\ IF job[r].op \notin {"change_account", "reset_password"} THEN Commit(r)
     ELSE IF ~Reaches(r, job[r].subject) THEN Rollback(r)
     ELSE Goto(r, "commit") /\ UNCHANGED <<tables, lock, job, tx>>

\* The commit of a change answered with the person as read last.
CommitAnswered(r) == pc[r] = "commit" /\ Commit(r)

-----------------------------------------------------------------------------

Arrive(r) ==
  \/ \E s \in Sessions :
       \/ EndAtRequest(r, s)
       \/ TurnAway(r, s)
       \/ \E u \in Users, patch \in Patches : AskChangeAccount(r, s, u, patch)
       \/ \E u \in Users : AskResetPassword(r, s, u)
       \/ \E u \in Users, role \in Role : AskAddPerson(r, s, u, role)
       \/ \E change \in LimitChange : AskChangeLimits(r, s, change)
       \/ AskReplacePassword(r, s)
       \/ StartSignOut(r, s)
  \/ \E u \in Users : SetUp(r, u)
  \/ \E u \in Users, password \in {"chosen", "issued"} : SignIn(r, u, password)

Statement(r) ==
  \/ ReadPerson(r) \/ RecordRole(r) \/ ChangeRole(r) \/ RecordState(r) \/ ChangeState(r)
  \/ Reset(r) \/ EndSessions(r) \/ Add(r) \/ ReadLimits(r) \/ RecordChange(r)
  \/ ChangeLimits(r) \/ Rehash(r) \/ NewPassword(r) \/ SignOut(r) \/ Finish(r)
  \/ CommitAnswered(r)

\* Every request has been answered.
AllDone == (\A r \in Requests : pc[r] = "done") /\ UNCHANGED vars

Next == (\E r \in Requests : Arrive(r) \/ Statement(r)) \/ AllDone

Spec == Init /\ [][Next]_vars

-----------------------------------------------------------------------------
(* Properties.                                                             *)

\* The statements each request goes through.
StatementsOf(op) ==
  CASE op = "change_account" -> {"person", "record_role", "change_role", "record_state",
                                 "change_state", "end_sessions", "finish", "commit"}
    [] op = "reset_password" -> {"person", "reset", "end_sessions", "record", "finish",
                                 "commit"}
    [] op = "add_person" -> {"add", "record", "finish"}
    [] op = "setup" -> {"record", "finish"}
    [] op = "change_session_limits" -> {"limits", "record", "change_limits", "finish"}
    [] op = "sign_in" -> {"rehash", "finish"}
    [] op = "replace_password" -> {"new_password", "finish"}
    [] op = "sign_out" -> {"sign_out"}
    [] OTHER -> {"idle", "done"}

Labels == {"idle", "person", "record_role", "change_role", "record_state", "change_state",
           "reset", "end_sessions", "record", "add", "limits", "change_limits", "rehash",
           "new_password", "sign_out", "finish", "commit", "done"}

\* A request at a statement is one that has it, with what it needs in hand.
JobInOrder(j, label) ==
  /\ label \in StatementsOf(j.op)
  /\ j.op # "none" => j.actor \in Users
  /\ j.op \notin {"none", "sign_out", "change_session_limits"} => j.subject \in Users
  /\ j.op = "sign_out" => j.session \in Sessions
  /\ label \in {"record_role", "change_role", "add"} => j.patch.role \in Role

Typed ==
  /\ users \in [Users -> Row]
  /\ sessions \in [Sessions -> SessionRow]
  /\ limits \in SessionLimits
  /\ audit \in Seq(Record)
  /\ lock \in [Users \union {Setting} -> Requests \union {NoOne}]
  /\ pc \in [Requests -> Labels]
  /\ job \in [Requests -> Job]
  /\ tx \in [Requests -> Transaction]

\* Every variable has its type, a running session has an owner, and every
\* request is at a statement of its own.
TypeOK ==
  /\ Typed
  /\ \A s \in Sessions : sessions[s].ended = "running" => sessions[s].owner \in Users
  /\ \A r \in Requests : JobInOrder(job[r], pc[r])

\* Whether this step's commit adds a record of the action on the account.
NewlyRecorded(action, u) ==
  \E i \in Len(audit) + 1 .. Len(audit') : audit'[i].action = action /\ audit'[i].subject = u

\* "Every change an admin makes is recorded": no account appears, changes role
\* or state, or is given a temporary password but in a commit that also keeps
\* the record of it (user_management.change_account, reset_password, add_person).
AccountChangesRecorded ==
  [][/\ \A u \in Users :
          LET old == users[u]
              new == users'[u]
          IN  /\ old.role = "none" /\ new.role # "none"
                   => NewlyRecorded("person_added", u) \/ NewlyRecorded("first_admin_created", u)
              /\ old.role # "none" /\ new.role # old.role => NewlyRecorded("role_changed", u)
              /\ ~old.disabled /\ new.disabled => NewlyRecorded("account_disabled", u)
              /\ old.disabled /\ ~new.disabled => NewlyRecorded("account_enabled", u)
              /\ ~old.must_change_password /\ new.must_change_password /\ old.role # "none"
                   => NewlyRecorded("password_reset", u)
     /\ limits' # limits => NewlyRecorded("session_limits_changed", NoOne)]_vars

\* create_first_admin is refused once any admin exists, enabled or not, also
\* when two setups or a setup and another writer run at once: nobody held the
\* role in the state a first admin is committed to.
FirstAdminIsFirst ==
  [][(\E u \in Users : NewlyRecorded("first_admin_created", u))
       => \A u \in Users : users[u].role # "admin"]_vars

\* "disabling it ends its sessions at once", and a reset ends them too: every
\* session of the account that ran when its row was changed has ended by the
\* commit that disables the account or gives it a temporary password, unless a
\* statement was kept from its rows because the actor lost the role on the way.
SessionsEndWithTheChange ==
  [][\A r \in Requests :
       LET u == job[r].subject
       IN  /\ pc[r] = "commit" /\ audit' # audit /\ pc'[r] = "done" /\ ~tx[r].missed
           /\ \/ job[r].op = "reset_password" /\ users'[u] # users[u]
              \/ job[r].op = "change_account" /\ ~users[u].disabled /\ users'[u].disabled
           => \A s \in tx[r].running : sessions'[s].ended # "running"]_vars

\* The records of an account that loses the role, or is disabled.
Removals ==
  {i \in 1 .. Len(audit) : \/ audit[i].action = "account_disabled"
                           \/ (audit[i].action = "role_changed" /\ audit[i].role = "member")}

\* The accounts a removal on record is about.
Removed == {audit[i].subject : i \in Removals}

\* One request alone never takes the last enabled admin away, whichever role or
\* state it changes, or both: a request changes one account, and an installation is
\* left without an enabled admin only by removals of two.
LastAdminFallsToTwo ==
  (EnabledAdmins = {} /\ \E u \in Users : users[u].role # "none")
    => \E u, v \in Removed : u # v

\* What migration 0019 says of the guard: it "never leaves the installation
\* without an enabled admin".  Two requests that each remove the other's admin
\* both find one left.
AnEnabledAdminRemains ==
  (\E u \in Users : users[u].role # "none") => EnabledAdmins # {}

\* What change_session_limits says: "the change is recorded with each limit's
\* value before and after".  A limit differs from its value before a commit
\* only where the commit's record names it.
LimitChangesRecorded ==
  [][\A l \in {"idle", "max"} :
       limits'[l] # limits[l] =>
         \E i \in Len(audit) + 1 .. Len(audit') : audit'[i].limits[l] = limits'[l]]_vars

\* What reset_password says: it replaces "an account's password with a
\* temporary one".  An account whose password is to be changed holds the
\* temporary password an admin issued.
ResetPasswordStands ==
  \A u \in Users : users[u].must_change_password => users[u].password = "issued"

=============================================================================
