------------------------------ MODULE Sessions ------------------------------
(***************************************************************************)
(* One session from its opening to its end, and the requests its cookie    *)
(* makes: api/services/sessions.py and api/dependencies.py over            *)
(* app_session and app_setting of migration 0020.                          *)
(*                                                                         *)
(* A request reads the session, then its account and the limits, then      *)
(* writes the session's end or its activity: a step each, of a transaction *)
(* whose now() is the moment it began.  Requests of one browser run at     *)
(* once, each seeing what the others committed.                            *)
(***************************************************************************)
EXTENDS Integers, FiniteSets, FiniteSetsExt

CONSTANTS Calls,              \* the requests under way at once
          ActivityInterval,   \* ACTIVITY_INTERVAL, in minutes
          IdleLimits,         \* the values session_idle_minutes takes
          MaxLimits,          \* the values session_max_hours takes, in minutes
          Longest,            \* bound: the minutes a request takes at most
          LastMoment,         \* bound: the minutes that pass
          MaxInterventions          \* bound: the times an admin steps in

ASSUME SessionsConstants ==
  /\ IsFiniteSet(Calls)
  /\ IdleLimits \union MaxLimits \subseteq Nat \ {0}
  /\ {ActivityInterval, Longest, LastMoment, MaxInterventions} \subseteq Nat

Clock == 0..LastMoment
EndedReason == {"idle", "limit", "signed_out", "signed_out_elsewhere", "disabled"}

\* app_session's row; it runs while its reason is "none".
SessionRow == [createdAt: Clock, lastSeenAt: Clock,
               endedAt: Clock, reason: EndedReason \union {"none"}]

VARIABLES clock,             \* the clock
          session,            \* the row of app_session
          idleLimit, maxLimit, accountDisabled,
          call,               \* each request's transaction
          lastUse,            \* observed: the latest now() of a request served
          interventions

sessionVars == <<clock, session, idleLimit, maxLimit, accountDisabled, call, lastUse, interventions>>

IsRunning(row) == row.reason = "none"

NoCall == [step |-> "free", now |-> 0,
           read |-> [createdAt |-> 0, lastSeenAt |-> 0, endedAt |-> 0, reason |-> "none"],
           usedBefore |-> 0, ends |-> {}]

-----------------------------------------------------------------------------
\* The limits past at a moment, each with the moment it passed.
Passed(row, idle, max, now) ==
  {end \in {[at |-> row.lastSeenAt + idle, reason |-> "idle"],
            [at |-> row.createdAt + max, reason |-> "limit"]} : end.at <= now}

\* Variant: a limit is past only once its moment is behind.
EndingLate(row, idle, max, disabled, now) ==
  {end \in Passed(row, idle, max, now) : end.at < now}

\* ending: why and when a running session ends, in a set of at most one: the
\* earlier limit ("idle" first of the two at one moment), or the account's end.
Ending(row, idle, max, disabled, now) ==
  LET past == Passed(row, idle, max, now)
  IN  CASE past # {} ->
             {CHOOSE end \in past : \A other \in past \ {end} :
                \/ end.at < other.at
                \/ end.at = other.at /\ end.reason = "idle"}
        [] past = {} /\ disabled -> {[at |-> now, reason |-> "disabled"]}
        [] OTHER -> {}

\* SEEN, once ACTIVITY_INTERVAL has passed since the activity read.
Seen(row, read, now) ==
  IF now - read.lastSeenAt >= ActivityInterval
  THEN [row EXCEPT !.lastSeenAt = now] ELSE row

\* END and SIGN_OUT go by the row's id alone: over whatever end it has by then.
EndedWith(row, end) == [row EXCEPT !.endedAt = end.at, !.reason = end.reason]

-----------------------------------------------------------------------------
SessionsInit ==
  /\ clock = 0
  /\ session = NoCall.read
  /\ idleLimit \in IdleLimits
  /\ maxLimit \in MaxLimits
  /\ accountDisabled = FALSE
  /\ call = [c \in Calls |-> NoCall]
  /\ lastUse = 0
  /\ interventions = 0

\* SESSION: a session ended already refuses the request, as a sign-out of it
\* does nothing.
ReadSession(c) ==
  /\ call[c].step = "free"
  /\ IsRunning(session)
  /\ \E step \in {"standing", "sign_out"} :
       call' = [call EXCEPT ![c] = [step |-> step, now |-> clock, read |-> session,
                                    usedBefore |-> lastUse, ends |-> {}]]
  /\ UNCHANGED <<clock, session, idleLimit, maxLimit, accountDisabled, lastUse, interventions>>

Ends(c) == Ending(call[c].read, idleLimit, maxLimit, accountDisabled, call[c].now)

FreeCall(c) == call' = [call EXCEPT ![c] = NoCall]

\* STANDING: the account and the limits, by which `ending` judges the session
\* read.
ReadStanding(c) ==
  /\ call[c].step = "standing"
  /\ call' = [call EXCEPT ![c].step = "judged", ![c].ends = Ends(c)]
  /\ UNCHANGED <<clock, session, idleLimit, maxLimit, accountDisabled, lastUse, interventions>>

\* The session is past a limit or its account disabled: END is committed, then
\* the request refused.
Refuse(c) ==
  /\ call[c].step = "judged"
  /\ \E end \in call[c].ends : session' = EndedWith(session, end)
  /\ FreeCall(c)
  /\ UNCHANGED <<clock, idleLimit, maxLimit, accountDisabled, lastUse, interventions>>

\* The request acts for the session's person.
Serve(c) ==
  /\ call[c].step = "judged" /\ call[c].ends = {}
  /\ session' = Seen(session, call[c].read, call[c].now)
  /\ lastUse' = Max({lastUse, call[c].now})
  /\ FreeCall(c)
  /\ UNCHANGED <<clock, idleLimit, maxLimit, accountDisabled, interventions>>

\* SIGN_OUT.
SignOut(c) ==
  /\ call[c].step = "sign_out"
  /\ session' = EndedWith(session, [at |-> call[c].now, reason |-> "signed_out"])
  /\ FreeCall(c)
  /\ UNCHANGED <<clock, idleLimit, maxLimit, accountDisabled, lastUse, interventions>>

\* An admin disables the account or resets its password, which ends its
\* running sessions, or enables it again.
EndElsewhere ==
  /\ interventions < MaxInterventions
  /\ interventions' = interventions + 1
  /\ \/ \E reason \in {"signed_out_elsewhere", "disabled"} :
          /\ accountDisabled' = (accountDisabled \/ reason = "disabled")
          /\ session' = IF IsRunning(session)
                        THEN EndedWith(session, [at |-> clock, reason |-> reason])
                        ELSE session
     \/ accountDisabled' = FALSE /\ UNCHANGED session
  /\ UNCHANGED <<clock, idleLimit, maxLimit, call, lastUse>>

\* An admin changes the limits.
ChangeLimits ==
  /\ interventions < MaxInterventions
  /\ interventions' = interventions + 1
  /\ idleLimit' \in IdleLimits
  /\ maxLimit' \in MaxLimits
  /\ UNCHANGED <<clock, session, accountDisabled, call, lastUse>>

Pass ==
  /\ clock < LastMoment
  /\ \A c \in Calls : call[c].step # "free" => clock - call[c].now < Longest
  /\ clock' = clock + 1
  /\ UNCHANGED <<session, idleLimit, maxLimit, accountDisabled, call, lastUse, interventions>>

SessionsNext ==
  \/ \E c \in Calls : ReadSession(c) \/ ReadStanding(c) \/ Refuse(c) \/ Serve(c) \/ SignOut(c)
  \/ EndElsewhere \/ ChangeLimits \/ Pass

SessionsSpec == SessionsInit /\ [][SessionsNext]_sessionVars

-----------------------------------------------------------------------------
SessionsTypeOK ==
  /\ clock \in Clock
  /\ session \in SessionRow
  /\ idleLimit \in IdleLimits /\ maxLimit \in MaxLimits
  /\ accountDisabled \in BOOLEAN
  /\ call \in [Calls -> [step: {"free", "standing", "judged", "sign_out"}, now: Clock,
                         read: SessionRow, usedBefore: Clock,
                         ends: SUBSET [at: Clock, reason: EndedReason]]]
  /\ lastUse \in Clock
  /\ interventions \in 0..MaxInterventions

\* What a request is to be answered with, from the moment it is judged.
IsServed(c)    == call[c].step = "standing" /\ call'[c].step = "judged" /\ call'[c].ends = {}
IsIdledOut(c)  == call[c].step = "standing" /\ call'[c].step = "judged"
                  /\ \E end \in call'[c].ends : end.reason = "idle"

\* A session serves no request that comes an idle limit or more after every
\* request served before it, or past its maximum; and it is ended as idle only
\* once no request has used it for the limit, less what is not recorded: the
\* activity interval, or a request that took so long its moment came after.
LimitsHoldAsUsed ==
  [][\A c \in Calls :
       /\ IsServed(c) => /\ call[c].now < lastUse + idleLimit
                         /\ call[c].now < session.createdAt + maxLimit
       /\ IsIdledOut(c) =>
            call[c].now - call[c].usedBefore >= idleLimit - Max({ActivityInterval - 1, Longest})
    ]_sessionVars
=============================================================================
