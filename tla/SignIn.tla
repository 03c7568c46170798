------------------------------- MODULE SignIn -------------------------------
(***************************************************************************)
(* Signing in to one account with a password, and the pause that slows     *)
(* wrong ones: api/services/sign_in.py over sign_in_candidate and          *)
(* record_failed_sign_in of migration 0019.                                *)
(*                                                                         *)
(* An attempt reads the account in a transaction of its own, checks the    *)
(* password off the event loop, and writes in a second transaction what    *)
(* follows from the account as it was read.  Every other attempt may run   *)
(* between the two.  Hashes, names and messages are left out.              *)
(***************************************************************************)
EXTENDS Integers, FiniteSets, FiniteSetsExt

CONSTANTS Guesses,       \* the requests that may try a password at once
          FreeFailures,   \* FREE_FAILURES
          FirstPause,     \* FIRST_PAUSE, in minutes
          LongestPause,   \* LONGEST_PAUSE, in minutes
          LastMinute,     \* bound: the minutes that pass
          MaxFailures     \* bound: the wrong passwords counted

ASSUME SignInConstants ==
  /\ IsFiniteSet(Guesses) /\ Guesses # {}
  /\ {FreeFailures, FirstPause, LongestPause, LastMinute, MaxFailures} \subseteq Nat \ {0}

Minutes == 0..LastMinute
NotSet  == -1                          \* a null moment

Standings == {"enabled", "disabled", "expired"}

\* app_user's sign-in state, as sign_in_candidate returns it; "expired" is an
\* account to change a temporary password past its day.
Candidate == [failures: Nat, pausedUntil: Int, is: Standings]

VARIABLES minute,         \* now()
          account,        \* the row of app_user
          tried,          \* each attempt: what it read, when, and its answer
          pausedSince     \* observed: when the pause under way began

signInVars == <<minute, account, tried, pausedSince>>

FreshAccount == [failures |-> 0, pausedUntil |-> NotSet, is |-> "enabled"]
NotTrying    == [step |-> "free", read |-> FreshAccount, at |-> 0]

\* Whether a pause of the row is under way.
IsPaused(of, now) == of.pausedUntil > now

-----------------------------------------------------------------------------
\* pause_after: each wrong password past the free ones doubles the pause.
PauseAfter(failures) ==
  IF failures <= FreeFailures THEN 0
  ELSE Min({FirstPause * 2 ^ (failures - FreeFailures - 1), LongestPause})

\* The moment a wrong password pauses sign-in until, or none.
Until(read, at) ==
  LET pause == PauseAfter(read.failures + 1)
  IN  IF pause = 0 THEN NotSet ELSE at + pause

\* Variant: the row takes the moment the attempt computed, none too.
CountedAsComputed(row, until) == [row EXCEPT !.failures = @ + 1, !.pausedUntil = until]

\* record_failed_sign_in: counted on the row as it stands, the pause put where
\* there is one.
Counted(row, until) ==
  [row EXCEPT !.failures = @ + 1, !.pausedUntil = IF until = NotSet THEN @ ELSE until]

\* What an observer of the account notes as the row changes.
NotePause ==
  pausedSince' = IF IsPaused(account', minute') /\ ~IsPaused(account, minute)
                 THEN minute' ELSE pausedSince

-----------------------------------------------------------------------------
SignInInit ==
  /\ minute = 0
  /\ account = FreshAccount
  /\ tried = [a \in Guesses |-> NotTrying]
  /\ pausedSince = 0

\* The attempt's answer is sent.
Answer(a) == tried' = [tried EXCEPT ![a] = NotTrying]

\* Whether an attempt is refused unchecked.
TurnsAway(row) == IsPaused(row, minute)

\* CANDIDATE: a paused account is refused unchecked.
ReadCandidate(a) ==
  /\ tried[a].step = "free"
  /\ ~TurnsAway(account)
  /\ tried' = [tried EXCEPT ![a] = [step |-> "verifying", read |-> account, at |-> minute]]
  /\ UNCHANGED <<minute, account, pausedSince>>

\* The password is wrong: RECORD_FAILURE, by the reading the attempt began with.
RecordFailure(a) ==
  /\ tried[a].step = "verifying"
  /\ account.failures < MaxFailures
  /\ account' = Counted(account, Until(tried[a].read, tried[a].at))
  /\ Answer(a)
  /\ UNCHANGED minute
  /\ NotePause

\* The password is right, for an account that may not sign in.
RefuseAccount(a) ==
  /\ tried[a].step = "verifying"
  /\ tried[a].read.is # "enabled"
  /\ Answer(a)
  /\ UNCHANGED <<minute, account, pausedSince>>

\* The password is right: CLEAR_FAILURES, and a session opened.
OpenSession(a) ==
  /\ tried[a].step = "verifying"
  /\ tried[a].read.is = "enabled"
  /\ account' = [account EXCEPT !.failures = 0, !.pausedUntil = NotSet]
  /\ Answer(a)
  /\ UNCHANGED minute
  /\ NotePause

\* An admin disables or enables the account, or its temporary password expires.
ChangeStanding ==
  /\ \E is \in Standings \ {account.is} :
       account' = [account EXCEPT !.is = is]
  /\ UNCHANGED <<minute, tried, pausedSince>>

\* RESET: an admin issues a temporary password, which clears the failures and the
\* pause, whatever attempts are under way.
ResetFailures ==
  /\ account' = [account EXCEPT !.failures = 0, !.pausedUntil = NotSet,
                                !.is = IF @ = "expired" THEN "enabled" ELSE @]
  /\ UNCHANGED <<minute, tried>>
  /\ NotePause

Wait ==
  /\ minute < LastMinute
  /\ minute' = minute + 1
  /\ UNCHANGED <<account, tried, pausedSince>>

SignInNext ==
  \/ \E a \in Guesses : \/ ReadCandidate(a) \/ RecordFailure(a)
                        \/ RefuseAccount(a) \/ OpenSession(a)
  \/ ChangeStanding \/ ResetFailures
  \/ Wait

SignInSpec == SignInInit /\ [][SignInNext]_signInVars

-----------------------------------------------------------------------------
SignInTypeOK ==
  /\ minute \in Minutes
  /\ account \in Candidate
  /\ tried \in [Guesses -> [step: {"free", "verifying"}, read: Candidate,
                             at: Minutes]]
  /\ pausedSince \in Minutes

\* Attempts made at once all count from the readings they began with, yet the
\* account pauses before the count exceeds the free failures by more than the
\* attempts under way.
WrongPasswordsPause ==
  account.failures >= FreeFailures + Cardinality(Guesses) => account.pausedUntil # NotSet

\* No pause outlasts the longest one counted from when the account was last
\* open to its person, whatever is tried meanwhile.
PausesEnd ==
  IsPaused(account, minute) => account.pausedUntil <= pausedSince + LongestPause

\* What the pause promises whoever guesses and whoever owns the account.
GuessingIsSlowed == WrongPasswordsPause /\ PausesEnd
=============================================================================
