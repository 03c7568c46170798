----------------------------- MODULE SourceClient -----------------------------
(***************************************************************************)
(* One call of a source adapter: the attempts of ThrottledClient            *)
(* (sources/client.py) and, where the venue asks for one, the session       *)
(* cookie an adapter collects and renews (_through_cookie and _read of      *)
(* sources/nse).  Every adapter of resources.py has a client, a throttle    *)
(* and a cookie of its own, and is called by one step at a time.            *)
(***************************************************************************)
EXTENDS Integers

CONSTANTS MaxAttempts,      \* MAX_ATTEMPTS
          Interval,         \* the throttle's interval, in ticks
          MaxCalls          \* a bound: the calls in a behaviour

ASSUME SourceClientAssumption ==
  MaxAttempts \in Nat \ {0} /\ Interval \in Nat /\ MaxCalls \in Nat

VARIABLES cookieAsked,     \* whether the venue serves only requests with its cookie
          holdsCookie,     \* _holds_cookie
          cookieValid,     \* whether the venue still honours the cookie last collected
          request,         \* what is being asked for, and the attempts it has had
          resting,         \* ticks before the throttle releases another request
          renewed,         \* whether the call has dropped a cookie
          result,          \* how the last call ended
          filePublished,   \* whether the venue has released the file asked for
          transients,      \* transient failures of the request, for the property
          expiredAgain,    \* whether the renewed cookie expired too, for the property
          calls

clientVars == <<cookieAsked, holdsCookie, cookieValid, request, resting, renewed, result,
                filePublished, transients, expiredAgain, calls>>

Answers == {"file", "not_modified", "not_published", "transient", "dropped", "refused"}

ClientTypeOK ==
  /\ cookieAsked \in BOOLEAN /\ holdsCookie \in BOOLEAN /\ cookieValid \in BOOLEAN
  /\ renewed \in BOOLEAN /\ expiredAgain \in BOOLEAN /\ filePublished \in BOOLEAN
  /\ request \in [for: {"nothing", "cookie", "file"}, attempts: 0 .. MaxAttempts - 1]
  /\ resting \in 0 .. Interval
  /\ result \in {"none", "answered", "not_published", "unavailable"}
  /\ transients \in 0 .. MaxAttempts /\ calls \in 0 .. MaxCalls

Idle == [for |-> "nothing", attempts |-> 0]
Ask(what) == [for |-> what, attempts |-> 0]

-----------------------------------------------------------------------------

\* _obtain_cookie comes first where no cookie is held.
FirstAsked(needsCookie) == IF cookieAsked /\ needsCookie THEN Ask("cookie") ELSE Ask("file")

StartCall ==
  /\ request = Idle /\ calls < MaxCalls
  /\ request' = FirstAsked(~holdsCookie)
  /\ renewed' = FALSE /\ result' = "none" /\ transients' = 0 /\ expiredAgain' = FALSE
  /\ calls' = calls + 1
  /\ UNCHANGED <<cookieAsked, holdsCookie, cookieValid, resting, filePublished>>

\* The venue's answer.  A cookie page is always there; an expired cookie is
\* answered the way no cookie is, refused or dropped without an answer, and any
\* request can fail for the moment.
VenueAnswers ==
  {"transient"} \union
    (IF request.for = "cookie" THEN {"file"}
     ELSE IF cookieAsked /\ ~cookieValid THEN {"refused", "dropped"}
     ELSE IF filePublished THEN {"file", "not_modified"} ELSE {"not_published"})

\* _is_transient: a request that got no answer may be repeated, as may one the
\* venue failed for the moment.
Repeatable == {"transient", "dropped"}

\* A variant: the last attempt is repeated too.
GivenUpLate(answer) ==
  answer = "refused" \/ (answer \in Repeatable /\ request.attempts = MaxAttempts)

\* SourceUnavailable: out of attempts, or a failure a repeat would not mend.
GivenUp(answer) ==
  answer = "refused" \/ (answer \in Repeatable /\ request.attempts + 1 = MaxAttempts)

EndCall(outcome) == request' = Idle /\ result' = outcome

\* A variant: a call whose cookie is refused gives up.
FailsWithoutRenewal ==
  EndCall("unavailable") /\ UNCHANGED <<holdsCookie, renewed>>

\* _through_cookie: a file not served is asked for once more under a fresh cookie.
Fails ==
  IF cookieAsked /\ request.for = "file" /\ ~renewed
  THEN /\ holdsCookie' = FALSE /\ renewed' = TRUE
       /\ request' = Ask("cookie")
       /\ UNCHANGED result
  ELSE EndCall("unavailable") /\ UNCHANGED <<holdsCookie, renewed>>

\* _request and _respond: the throttle, one request, and what its answer leads to.
Attempt ==
  /\ request # Idle /\ resting = 0
  /\ resting' = Interval
  /\ \E answer \in VenueAnswers:
       /\ transients' = IF answer = "transient" THEN request.attempts + 1 ELSE 0
       /\ cookieValid' = (cookieValid \/ (request.for = "cookie" /\ answer = "file"))
       /\ \/ /\ GivenUp(answer)
             /\ Fails
          \/ /\ answer \in Repeatable /\ ~GivenUp(answer)
             /\ request' = [request EXCEPT !.attempts = @ + 1]
             /\ UNCHANGED <<holdsCookie, renewed, result>>
          \/ /\ answer = "file" /\ request.for = "cookie"
             /\ holdsCookie' = TRUE
             /\ request' = Ask("file")
             /\ UNCHANGED <<renewed, result>>
          \/ /\ answer \in {"file", "not_modified"} /\ request.for = "file"
             /\ EndCall("answered")
             /\ UNCHANGED <<holdsCookie, renewed>>
          \/ /\ answer = "not_published"
             /\ EndCall("not_published")
             /\ UNCHANGED <<holdsCookie, renewed>>
  /\ UNCHANGED <<cookieAsked, filePublished, expiredAgain, calls>>

Tick ==
  /\ resting > 0
  /\ resting' = resting - 1
  /\ UNCHANGED <<cookieAsked, holdsCookie, cookieValid, request, renewed, result, filePublished,
                 transients, expiredAgain, calls>>

ExpireCookie ==
  /\ cookieAsked /\ cookieValid
  /\ cookieValid' = FALSE /\ expiredAgain' = renewed
  /\ UNCHANGED <<cookieAsked, holdsCookie, request, resting, renewed, result, filePublished,
                 transients, calls>>

ReleaseFile ==
  /\ ~filePublished
  /\ filePublished' = TRUE
  /\ UNCHANGED <<cookieAsked, holdsCookie, cookieValid, request, resting, renewed, result,
                 transients, expiredAgain, calls>>

\* A step builds its adapter anew: nothing of an earlier step's session remains.
ClientInit ==
  /\ cookieAsked \in BOOLEAN /\ filePublished \in BOOLEAN
  /\ holdsCookie = FALSE /\ cookieValid = FALSE /\ renewed = FALSE
  /\ request = Idle /\ resting = 0 /\ result = "none"
  /\ transients = 0 /\ expiredAgain = FALSE /\ calls = 0

ClientNext == StartCall \/ Attempt \/ Tick \/ ExpireCookie \/ ReleaseFile

ClientSpec == ClientInit /\ [][ClientNext]_clientVars

-----------------------------------------------------------------------------

\* A cookie that expires, between calls or in the middle of one, costs no day by
\* itself: a call ends unavailable only where the venue failed every attempt at
\* one of its requests, or the cookie it renewed expired as well
\* (sources/nse: _through_cookie).
ExpiryCostsNoDay ==
  result = "unavailable" => transients = MaxAttempts \/ expiredAgain
=============================================================================
