--------------------------- MODULE IngestionProofs ---------------------------
(***************************************************************************)
(* Proofs about what brings the sources into the database: SourceClient,   *)
(* Flows, Bhavcopies, SecurityLists, Deliveries and CorporateActions, and  *)
(* about the tables of facts they fill (Facts).  The argument of each      *)
(* component stands before its lemmas.                                     *)
(***************************************************************************)
EXTENDS SourceClient, Flows, Bhavcopies, SecurityLists, Deliveries, CorporateActions,
        Facts, NaturalFacts

-----------------------------------------------------------------------------
(* SourceClient, for any number of attempts, interval and number of calls. *)
(*                                                                         *)
(* The argument: a call that renews its cookie asks for the file again     *)
(* only once it holds a fresh one (RenewedIsFresh), so a second refusal    *)
(* needs a second expiry; and what the last attempt of a request left in   *)
(* `transients` is not written again until the next call.                  *)

\* A call under way has no result yet.
RunningHasNoResult == request # Idle => result = "none"

\* A file asked for under a renewed cookie is asked for under one the venue
\* honours, unless it has expired since.
RenewedIsFresh ==
  renewed /\ cookieAsked /\ request.for = "file" => cookieValid \/ expiredAgain

\* Only a renewed cookie is said to expire again.
ExpiresAgainOnceRenewed == expiredAgain => renewed

\* No attempt is made where nothing is asked for.
NothingIsIdle == request.for = "nothing" => request = Idle

SourceIInv == /\ ClientTypeOK /\ NothingIsIdle /\ RunningHasNoResult /\ RenewedIsFresh
        /\ ExpiresAgainOnceRenewed /\ ExpiryCostsNoDay

-----------------------------------------------------------------------------

\* A request that starts is one of those the type names.
LEMMA AskType ==
  /\ \A what \in {"cookie", "file"} :
       /\ Ask(what) \in [for: {"nothing", "cookie", "file"}, attempts: 0 .. MaxAttempts - 1]
       /\ Ask(what).for = what
  /\ Idle \in [for: {"nothing", "cookie", "file"}, attempts: 0 .. MaxAttempts - 1]
  /\ Idle.for = "nothing"
BY SourceClientAssumption DEF Ask, Idle

\* The invariant holds at first.
LEMMA SourceInitInvariant == ClientInit => SourceIInv
<1> SUFFICES ASSUME ClientInit
             PROVE  SourceIInv
  OBVIOUS
<1>1. /\ cookieAsked \in BOOLEAN /\ filePublished \in BOOLEAN
      /\ holdsCookie \in BOOLEAN /\ cookieValid \in BOOLEAN
      /\ renewed \in BOOLEAN /\ expiredAgain \in BOOLEAN
  BY Zenon DEF ClientInit
<1>2. ClientTypeOK
  BY <1>1, SourceClientAssumption, AskType DEF ClientInit, ClientTypeOK
<1>3. QED
  BY <1>2, AskType
     DEF ClientInit, SourceIInv, NothingIsIdle, RunningHasNoResult, RenewedIsFresh, ExpiresAgainOnceRenewed,
         ExpiryCostsNoDay

\* What one attempt does, answer by answer.
LEMMA AttemptInvariant ==
  ASSUME SourceIInv, Attempt
  PROVE  SourceIInv'
<1>1. PICK answer \in VenueAnswers :
        /\ transients' = IF answer = "transient" THEN request.attempts + 1 ELSE 0
        /\ cookieValid' = (cookieValid \/ (request.for = "cookie" /\ answer = "file"))
        /\ \/ /\ GivenUp(answer)
              /\ Fails
           \/ /\ answer \in Repeatable /\ ~GivenUp(answer)
              /\ request' = [request EXCEPT !.attempts = @ + 1]
              /\ UNCHANGED <<holdsCookie, renewed, result>>
           \/ /\ answer = "file" /\ request.for = "cookie"
              /\ holdsCookie' = TRUE
              /\ request' = Ask("file")
              /\ UNCHANGED <<renewed, result>>
           \/ /\ answer \in {"file", "not_modified"} /\ request.for = "file"
              /\ EndCall("answered")
              /\ UNCHANGED <<holdsCookie, renewed>>
           \/ /\ answer = "not_published"
              /\ EndCall("not_published")
              /\ UNCHANGED <<holdsCookie, renewed>>
  BY DEF Attempt
<1>2. /\ request # Idle
      /\ resting' = Interval
      /\ UNCHANGED <<cookieAsked, filePublished, expiredAgain, calls>>
  BY DEF Attempt
<1>3. ClientTypeOK /\ MaxAttempts \in Nat \ {0} /\ Interval \in Nat
  BY SourceClientAssumption DEF SourceIInv
<1>4. result = "none"
  BY <1>2 DEF SourceIInv, NothingIsIdle, RunningHasNoResult
<1>4a. request.attempts \in Nat /\ request.attempts <= MaxAttempts - 1
  BY <1>3 DEF ClientTypeOK
<1>5. transients' \in 0 .. MaxAttempts
  BY <1>1, <1>3, <1>4a
<1>5a. cookieValid' \in BOOLEAN
  BY <1>1
<1>5b. /\ cookieAsked' \in BOOLEAN /\ filePublished' \in BOOLEAN /\ expiredAgain' \in BOOLEAN
       /\ resting' \in 0 .. Interval /\ calls' \in 0 .. MaxCalls
  BY <1>2, <1>3 DEF ClientTypeOK
<1>6. CASE GivenUp(answer) /\ Fails
  <2>1. CASE cookieAsked /\ request.for = "file" /\ ~renewed
    <3>1. /\ holdsCookie' = FALSE /\ renewed' = TRUE
          /\ request' = Ask("cookie") /\ result' = result
      BY <1>6, <2>1 DEF Fails
    <3>2. holdsCookie' \in BOOLEAN /\ renewed' \in BOOLEAN
      BY <3>1
    <3>2a. ClientTypeOK'
      BY <1>3, <1>5, <1>5a, <1>5b, <3>1, <3>2, AskType DEF ClientTypeOK
    <3>3. QED
      BY <1>2, <1>4, <3>1, <3>2a, AskType
         DEF SourceIInv, NothingIsIdle, RunningHasNoResult, RenewedIsFresh, ExpiresAgainOnceRenewed,
             ExpiryCostsNoDay
  <2>2. CASE ~(cookieAsked /\ request.for = "file" /\ ~renewed)
    <3>1. /\ request' = Idle /\ result' = "unavailable"
          /\ UNCHANGED <<holdsCookie, renewed>>
      BY <1>6, <2>2 DEF Fails, EndCall
    <3>2. ClientTypeOK'
      BY <1>3, <1>5, <1>5a, <1>5b, <3>1 DEF ClientTypeOK, Idle
    <3>3. transients' = MaxAttempts \/ expiredAgain'
      <4>1. CASE answer \in {"refused", "dropped"}
        <5>1. request.for = "file" /\ cookieAsked /\ ~cookieValid
          <6>1. request.for # "cookie" /\ cookieAsked /\ ~cookieValid
            BY <1>1, <4>1 DEF VenueAnswers
          <6>2. request.for # "nothing"
            BY <1>2 DEF SourceIInv, NothingIsIdle
          <6>3. QED
            BY <1>3, <6>1, <6>2 DEF ClientTypeOK
        <5>2. renewed
          BY <2>2, <5>1
        <5>3. QED
          BY <1>2, <5>1, <5>2 DEF SourceIInv, RenewedIsFresh
      <4>2. CASE answer = "transient" /\ request.attempts + 1 = MaxAttempts
        BY <1>1, <4>2
      <4>3. QED
        BY <1>6, <4>1, <4>2 DEF GivenUp, Repeatable
    <3>4. QED
      BY <1>2, <3>1, <3>2, <3>3
         DEF SourceIInv, NothingIsIdle, RunningHasNoResult, RenewedIsFresh, ExpiresAgainOnceRenewed,
             ExpiryCostsNoDay, Idle
  <2>3. QED
    BY <2>1, <2>2
<1>7. CASE /\ answer \in Repeatable /\ ~GivenUp(answer)
           /\ request' = [request EXCEPT !.attempts = @ + 1]
           /\ UNCHANGED <<holdsCookie, renewed, result>>
  <2>0. request.for # "nothing"
    BY <1>2 DEF SourceIInv, NothingIsIdle
  <2>1. request.attempts + 1 \in 0 .. MaxAttempts - 1
    BY <1>3, <1>4a, <1>7 DEF GivenUp
  <2>2. request' \in [for: {"nothing", "cookie", "file"}, attempts: 0 .. MaxAttempts - 1]
        /\ request'.for = request.for
    BY <1>3, <1>7, <2>1 DEF ClientTypeOK
  <2>3. ClientTypeOK'
    BY <1>3, <1>5, <1>5a, <1>5b, <1>7, <2>2 DEF ClientTypeOK
  <2>4. QED
    BY <1>1, <1>2, <1>4, <1>7, <2>0, <2>2, <2>3
       DEF SourceIInv, NothingIsIdle, RunningHasNoResult, RenewedIsFresh, ExpiresAgainOnceRenewed, ExpiryCostsNoDay
<1>8. CASE /\ answer = "file" /\ request.for = "cookie"
           /\ holdsCookie' = TRUE
           /\ request' = Ask("file")
           /\ UNCHANGED <<renewed, result>>
  <2>1. ClientTypeOK'
    BY <1>3, <1>5, <1>5a, <1>5b, <1>8 DEF ClientTypeOK, Ask
  <2>2. QED
    BY <1>1, <1>2, <1>4, <1>8, <2>1
       DEF SourceIInv, NothingIsIdle, RunningHasNoResult, RenewedIsFresh, ExpiresAgainOnceRenewed,
           ExpiryCostsNoDay, Ask
<1>9. CASE /\ request' = Idle /\ result' \in {"answered", "not_published"}
           /\ UNCHANGED <<holdsCookie, renewed>>
  <2>1. ClientTypeOK'
    BY <1>3, <1>5, <1>5a, <1>5b, <1>9 DEF ClientTypeOK, Idle
  <2>2. QED
    BY <1>2, <1>9, <2>1
       DEF SourceIInv, NothingIsIdle, RunningHasNoResult, RenewedIsFresh, ExpiresAgainOnceRenewed,
           ExpiryCostsNoDay, Idle
<1>10. QED
  BY <1>1, <1>6, <1>7, <1>8, <1>9 DEF EndCall

\* Every step keeps it.
LEMMA SourceNextInvariant == SourceIInv /\ [ClientNext]_clientVars => SourceIInv'
<1> SUFFICES ASSUME SourceIInv, [ClientNext]_clientVars
             PROVE  SourceIInv'
  OBVIOUS
<1> USE SourceClientAssumption
        DEF SourceIInv, ClientTypeOK, NothingIsIdle, RunningHasNoResult, RenewedIsFresh, ExpiresAgainOnceRenewed,
            ExpiryCostsNoDay, Idle
<1>1. CASE StartCall
  <2>1. /\ request' = Ask("cookie") \/ request' = Ask("file")
        /\ renewed' = FALSE /\ result' = "none" /\ transients' = 0 /\ expiredAgain' = FALSE
        /\ calls' = calls + 1 /\ calls < MaxCalls
        /\ UNCHANGED <<cookieAsked, holdsCookie, cookieValid, resting, filePublished>>
    BY <1>1 DEF StartCall, FirstAsked
  <2>2. renewed' \in BOOLEAN /\ expiredAgain' \in BOOLEAN
    BY <2>1
  <2>3. ClientTypeOK'
    BY <2>1, <2>2, AskType
  <2>4. QED
    BY <2>1, <2>2, <2>3, AskType
<1>2. CASE Attempt
  BY <1>2, AttemptInvariant
<1>3. CASE Tick
  BY <1>3 DEF Tick
<1>4. CASE ExpireCookie
  BY <1>4 DEF ExpireCookie
<1>5. CASE ReleaseFile
  BY <1>5 DEF ReleaseFile
<1>6. CASE UNCHANGED clientVars
  BY <1>6 DEF clientVars
<1>7. QED
  BY <1>1, <1>2, <1>3, <1>4, <1>5, <1>6 DEF ClientNext

\* So it holds throughout.
LEMMA SourceInductive == ClientSpec => []SourceIInv
BY SourceInitInvariant, SourceNextInvariant, PTL DEF ClientSpec

\* The client's variables keep their types: no request is repeated past
\* MAX_ATTEMPTS, and the throttle never rests longer than its interval.
THEOREM SourceTypeCorrect == ClientSpec => []ClientTypeOK
<1>1. SourceIInv => ClientTypeOK
  BY DEF SourceIInv
<1>2. QED
  BY <1>1, SourceInductive, PTL

\* However often a cookie expires, a call ends unavailable only where the venue
\* failed every attempt at one of its requests, or the renewed cookie expired
\* too (_through_cookie of sources/nse).
THEOREM ExpiryAloneCostsNoDay == ClientSpec => []ExpiryCostsNoDay
<1>1. SourceIInv => ExpiryCostsNoDay
  BY DEF SourceIInv
<1>2. QED
  BY <1>1, SourceInductive, PTL

-----------------------------------------------------------------------------
(* Flows, for any dates and any widths of the windows.                     *)
(*                                                                         *)
(* The argument: the windows of a flow ask for every day it promises, as   *)
(* the date stood when it started, and while it is clean each such day     *)
(* that was released by then is read, still to be read in this window, or  *)
(* in a window to come; midnight only adds days to a window.               *)

FlowRecord ==
  [kind: Kinds \union {"none"}, windows: Seq([first: Int, last: Int]), rest: SUBSET Int,
   clean: BOOLEAN, on: Nat, asked: SUBSET Int, had: SUBSET Int]

\* The days of the windows to come.
ToCome(x) == UNION {DaysOf(x.windows[i]) : i \in DOMAIN x.windows}

\* A flow asks for all it promises, and leaves no such day behind while clean.
KeepsItsPromise(x) ==
  /\ x \in FlowRecord
  /\ x.on \in FirstToday .. today /\ x.had \subseteq 1 .. x.on /\ x.had \subseteq releasedDays
  /\ Promised(x) \intersect x.had \subseteq x.asked
  /\ x.clean => x.asked \intersect x.had \subseteq readDays \union x.rest \union ToCome(x)

FlowsIInv ==
  /\ FlowsTypeOK
  /\ FirstToday <= today
  /\ flow = NoFlow => "flow" \notin unfinished
  /\ flow # NoFlow => flow.kind # "none" /\ KeepsItsPromise(flow)
  /\ CleanExitReadEverything

\* A flow further on in its windows: what is left of them, and how it went.
Moved(x, windows, rest, clean) ==
  [x EXCEPT !.windows = windows, !.rest = rest, !.clean = clean]

\* What moving on leaves of a flow as it was.
LEMMA MovedFields ==
  ASSUME NEW x \in FlowRecord, NEW windows \in Seq([first: Int, last: Int]), NEW rest \in SUBSET Int,
         NEW clean \in BOOLEAN
  PROVE  LET y == Moved(x, windows, rest, clean)
         IN  /\ y \in FlowRecord
             /\ y.kind = x.kind /\ y.on = x.on /\ y.asked = x.asked /\ y.had = x.had
             /\ y.windows = windows /\ y.rest = rest /\ y.clean = clean
<1> DEFINE y == Moved(x, windows, rest, clean)
           a == [x EXCEPT !.windows = windows]
           b == [a EXCEPT !.rest = rest]
<1>1. a \in FlowRecord /\ a.kind = x.kind /\ a.on = x.on /\ a.asked = x.asked /\ a.had = x.had
      /\ a.windows = windows
  BY DEF FlowRecord
<1>2. y = [b EXCEPT !.clean = clean]
  BY DEF Moved, FlowRecord
<1> HIDE DEF y, a
<1>3. b \in FlowRecord /\ b.kind = a.kind /\ b.on = a.on /\ b.asked = a.asked /\ b.had = a.had
      /\ b.windows = a.windows /\ b.rest = rest
  BY <1>1 DEF FlowRecord
<1> HIDE DEF b
<1>4. y \in FlowRecord /\ y.kind = b.kind /\ y.on = b.on /\ y.asked = b.asked /\ y.had = b.had
      /\ y.windows = b.windows /\ y.rest = b.rest /\ y.clean = clean
  BY <1>2, <1>3 DEF FlowRecord
<1>5. QED
  BY <1>1, <1>3, <1>4 DEF y

\* The windows a flow may be given, and the flow as it starts.
Window == [first: Int, last: Int]

\* What a run starts with.
LEMMA StartedFields ==
  ASSUME FlowsTypeOK, NEW kind \in Kinds, NEW windows \in Seq(Window), windows # <<>>
  PROVE  LET x == Started(kind, windows)
         IN  /\ x \in FlowRecord /\ x.kind = kind /\ x.on = today /\ x.had = releasedDays
             /\ x.rest \subseteq 1 .. today /\ x.asked = UNION {DaysOf(windows[i]) : i \in DOMAIN windows}
             /\ x.asked \subseteq x.rest \union ToCome(x)
<1>1. today \in Nat /\ releasedDays \subseteq 1 .. today
  BY FlowsAssumption DEF FlowsTypeOK, Calendar
<1>2. \A w : DaysOf(w) \subseteq 1 .. today
  BY DEF DaysOf
<1>3. /\ Head(windows) = windows[1] /\ Tail(windows) \in Seq(Window)
      /\ \A i \in DOMAIN windows : i = 1 \/ (i - 1 \in DOMAIN Tail(windows) /\ Tail(windows)[i - 1] = windows[i])
  OBVIOUS
<1> DEFINE x == Started(kind, windows)
           all == UNION {DaysOf(windows[i]) : i \in DOMAIN windows}
<1>4. /\ x = [kind |-> kind, windows |-> Tail(windows), rest |-> DaysOf(Head(windows)), clean |-> TRUE,
              on |-> today, had |-> releasedDays, asked |-> all]
      /\ all \subseteq 1 .. today
  BY <1>2 DEF Started
<1>5. all \subseteq DaysOf(Head(windows)) \union UNION {DaysOf(Tail(windows)[i]) : i \in DOMAIN Tail(windows)}
  BY <1>3
<1> HIDE DEF all
<1>6. x \in FlowRecord
  BY <1>1, <1>2, <1>3, <1>4 DEF FlowRecord, Window
<1>7. ToCome(x) = UNION {DaysOf(Tail(windows)[i]) : i \in DOMAIN Tail(windows)}
  BY <1>4 DEF ToCome
<1>8. QED
  BY <1>2, <1>4, <1>5, <1>6, <1>7 DEF all

\* Whatever a flow is asked for, its windows cover what it promises.
LEMMA StartKeepsPromise ==
  ASSUME FlowsTypeOK, FirstToday <= today,
         NEW x \in Launches \union {Started("scheduled", <<SyncWindow(today)>>)}
  PROVE  KeepsItsPromise(x) /\ x.kind \in Kinds /\ x.rest \subseteq 1 .. today
<1>1. /\ today \in Nat /\ releasedDays \subseteq 1 .. today /\ FirstToday \in Nat
      /\ RecentDays \in Nat /\ SyncDays \in Nat /\ RecentDays < FirstToday /\ FirstToday <= today
  BY FlowsAssumption DEF FlowsTypeOK, Calendar
<1>2. ASSUME NEW kind \in Kinds, NEW windows \in Seq(Window), windows # <<>>,
             x = Started(kind, windows),
             kind = "bootstrap" => 1 .. today \subseteq UNION {DaysOf(windows[i]) : i \in DOMAIN windows},
             kind = "sync" => {d \in 1 .. today : today - d < SyncDays}
                                \subseteq UNION {DaysOf(windows[i]) : i \in DOMAIN windows}
      PROVE  KeepsItsPromise(x) /\ x.kind \in Kinds /\ x.rest \subseteq 1 .. today
  <2>1. /\ x \in FlowRecord /\ x.kind = kind /\ x.on = today /\ x.had = releasedDays
        /\ x.rest \subseteq 1 .. today /\ x.asked = UNION {DaysOf(windows[i]) : i \in DOMAIN windows}
        /\ x.asked \subseteq x.rest \union ToCome(x)
    BY <1>2, StartedFields
  <2>2. Promised(x) \intersect x.had \subseteq x.asked
    BY <1>2, <2>1 DEF Promised, Kinds
  <2>3. QED
    BY <1>1, <1>2, <2>1, <2>2 DEF KeepsItsPromise
<1>3. CASE x = Started("bootstrap", BootstrapWindows(today))
  <2> DEFINE recent == [first |-> today - RecentDays + 1, last |-> today]
             earlier == [first |-> 1, last |-> today - RecentDays]
             w == BootstrapWindows(today)
  <2>1. w = <<recent, earlier>> /\ recent \in Window /\ earlier \in Window
    BY <1>1 DEF BootstrapWindows, Window
  <2>2. DaysOf(recent) \union DaysOf(earlier) = 1 .. today
    BY <1>1 DEF DaysOf
  <2> HIDE DEF recent, earlier
  <2>3. w \in Seq(Window) /\ w # <<>> /\ DOMAIN w = 1 .. 2 /\ w[1] = recent /\ w[2] = earlier
    BY <2>1
  <2>4. 1 .. today \subseteq UNION {DaysOf(w[i]) : i \in DOMAIN w}
    BY <2>2, <2>3
  <2>5. "bootstrap" \in Kinds
    BY DEF Kinds
  <2> HIDE DEF w
  <2>6. QED
    BY <1>2, <1>3, <2>3, <2>4, <2>5 DEF w
<1>4. ASSUME NEW kind \in {"sync", "scheduled"}, x = Started(kind, <<SyncWindow(today)>>)
      PROVE  KeepsItsPromise(x) /\ x.kind \in Kinds /\ x.rest \subseteq 1 .. today
  <2> DEFINE w == <<SyncWindow(today)>>
  <2>1. SyncWindow(today) \in Window
    BY <1>1 DEF SyncWindow, Window
  <2>2. w \in Seq(Window) /\ w # <<>> /\ DOMAIN w = 1 .. 1 /\ w[1] = SyncWindow(today)
    BY <2>1
  <2>3. {d \in 1 .. today : today - d < SyncDays} \subseteq DaysOf(SyncWindow(today))
    BY <1>1 DEF SyncWindow, DaysOf
  <2>4. {d \in 1 .. today : today - d < SyncDays} \subseteq UNION {DaysOf(w[i]) : i \in DOMAIN w}
    BY <2>2, <2>3
  <2>5. kind \in Kinds /\ kind # "bootstrap"
    BY DEF Kinds
  <2> HIDE DEF w
  <2>6. QED
    BY <1>2, <1>4, <2>2, <2>4, <2>5 DEF w
<1>5. ASSUME NEW d \in 1 .. today, x = Started("range", <<[first |-> d, last |-> d]>>)
      PROVE  KeepsItsPromise(x) /\ x.kind \in Kinds /\ x.rest \subseteq 1 .. today
  <2> DEFINE w == <<[first |-> d, last |-> d]>>
  <2>1. w \in Seq(Window) /\ w # <<>>
    BY DEF Window
  <2>2. "range" \in Kinds
    BY DEF Kinds
  <2> HIDE DEF w
  <2>3. QED
    BY <1>2, <1>5, <2>1, <2>2 DEF w
<1>6. QED
  BY <1>3, <1>4, <1>5 DEF Launches

\* Days passing, days released and days read break no promise.
LEMMA PromiseKept ==
  ASSUME FlowsTypeOK, NEW x, KeepsItsPromise(x), today' \in {today, today + 1},
         releasedDays \subseteq releasedDays', readDays \subseteq readDays'
  PROVE  /\ x \in FlowRecord
         /\ x.on \in FirstToday .. today' /\ x.had \subseteq 1 .. x.on /\ x.had \subseteq releasedDays'
         /\ Promised(x) \intersect x.had \subseteq x.asked
         /\ x.clean => x.asked \intersect x.had \subseteq readDays' \union x.rest \union ToCome(x)'
<1>1. today \in Nat /\ today' \in Nat /\ FirstToday \in Nat
  BY FlowsAssumption DEF FlowsTypeOK, Calendar
<1>2. \A w : DaysOf(w) \subseteq DaysOf(w)'
  BY <1>1 DEF DaysOf
<1>3. ToCome(x) \subseteq ToCome(x)'
  BY <1>2 DEF ToCome
<1>4. x.on \in FirstToday .. today'
  BY <1>1 DEF KeepsItsPromise
<1>5. QED
  BY <1>3, <1>4 DEF KeepsItsPromise

\* An exit taken for clean stays one, days read being held from then on.
LEMMA ExitKept ==
  ASSUME CleanExitReadEverything, UNCHANGED lastExit, readDays \subseteq readDays'
  PROVE  CleanExitReadEverything'
  BY DEF CleanExitReadEverything, Promised

\* Everything a step that moves no flow may do.
LEMMA AroundInvariant ==
  ASSUME FlowsIInv, FlowsTypeOK', UNCHANGED <<flow, lastExit>>, readDays \subseteq readDays',
         flow = NoFlow => "flow" \notin unfinished',
         today' \in {today, today + 1}, releasedDays \subseteq releasedDays'
  PROVE  FlowsIInv'
<1>1. today \in Nat /\ FirstToday \in Nat
  BY FlowsAssumption DEF FlowsIInv, FlowsTypeOK, Calendar
<1>2. flow # NoFlow => KeepsItsPromise(flow)'
  BY PromiseKept DEF FlowsIInv, KeepsItsPromise
<1>3. QED
  BY <1>1, <1>2, ExitKept DEF FlowsIInv

\* A window of a flow is its first or one of the rest.
LEMMA HeadOrTail ==
  ASSUME NEW S, NEW s \in Seq(S), s # <<>>
  PROVE  \A i \in DOMAIN s : s[i] = Head(s) \/ (i - 1 \in DOMAIN Tail(s) /\ Tail(s)[i - 1] = s[i])
OBVIOUS

\* NoFlow is a flow record, and of no kind.
LEMMA NoFlowFields == NoFlow \in FlowRecord /\ NoFlow.kind = "none" /\ NoFlow.rest = {}
<1>1. <<>> \in Seq(Window)
  OBVIOUS
<1>2. QED
  BY <1>1 DEF NoFlow, FlowRecord, NoWindows, Window

\* No flow has run at the start.
LEMMA FlowsInitInvariant == FlowsInit => FlowsIInv
<1> SUFFICES ASSUME FlowsInit
             PROVE  FlowsIInv
  OBVIOUS
<1>1. FirstToday \in Nat /\ LastToday \in Nat /\ 0 < FirstToday /\ FirstToday <= LastToday /\ MaxFlows \in Nat
  BY FlowsAssumption
<1>2. {migrated, dbtSession} \subseteq BOOLEAN /\ unfinished = {}
  BY Zenon DEF FlowsInit
<1>3. FlowsTypeOK
  BY <1>1, <1>2, NoFlowFields DEF FlowsInit, FlowsTypeOK, Calendar
<1>4. CleanExitReadEverything
  <2>1. lastExit.flow = NoFlow /\ NoFlow.kind = "none" /\ NoFlow.had = {}
    BY DEF FlowsInit, NoFlow
  <2>2. QED
    BY <2>1 DEF CleanExitReadEverything
<1>5. QED
  BY <1>1, <1>3, <1>4 DEF FlowsInit, FlowsIInv

\* A flow starts in order, or is refused with an exit that is not clean.
LEMMA LaunchInvariant ==
  ASSUME FlowsIInv, Launch \/ RunScheduled
  PROVE  FlowsIInv'
<1> DEFINE Begins == Launches \union {Started("scheduled", <<SyncWindow(today)>>)}
<1>1. /\ UNCHANGED <<today, releasedDays, readDays, migrated, dbtSession>>
      /\ flowsLeft' = flowsLeft - 1 /\ flowsLeft > 0 /\ flow = NoFlow
  BY DEF Launch, RunScheduled
<1>2. \A x \in Begins : KeepsItsPromise(x) /\ x.kind \in Kinds /\ x.rest \subseteq 1 .. today
  BY StartKeepsPromise DEF FlowsIInv
<1> HIDE DEF Begins
<1>3. MaxFlows \in Nat /\ flowsLeft' \in 0 .. MaxFlows
  BY <1>1, FlowsAssumption DEF FlowsIInv, FlowsTypeOK
<1>4. ASSUME NEW x \in Begins, flow' = x, unfinished' = {"flow"}, UNCHANGED lastExit
      PROVE  FlowsIInv'
  <2>1. x.kind \in Kinds /\ x.rest \subseteq 1 .. today /\ KeepsItsPromise(x)
    BY <1>2
  <2>2. KeepsItsPromise(flow)'
    BY <1>1, <1>4, <2>1, PromiseKept DEF FlowsIInv, KeepsItsPromise
  <2>3. {migrated', dbtSession'} \subseteq BOOLEAN /\ unfinished' \subseteq Recorded
    BY <1>1, <1>4 DEF FlowsIInv, FlowsTypeOK, Recorded
  <2>4. flow'.kind \in Kinds /\ flow'.rest \subseteq 1 .. today
    BY <1>4, <2>1
  <2>5. FlowsTypeOK'
    BY <1>1, <1>3, <1>4, <2>3, <2>4 DEF FlowsIInv, FlowsTypeOK
  <2>6. flow'.kind # "none"
    BY <2>4 DEF Kinds
  <2>7. flow' # NoFlow
    BY <2>6, NoFlowFields
  <2>8. QED
    BY <1>1, <1>4, <2>2, <2>5, <2>6, <2>7, ExitKept DEF FlowsIInv
<1>5. ASSUME NEW x, Exited(x, 2), UNCHANGED <<flow, unfinished>>
      PROVE  FlowsIInv'
  <2>1. lastExit'.code = 2
    BY <1>5 DEF Exited
  <2>2. CleanExitReadEverything'
    BY <2>1 DEF CleanExitReadEverything
  <2>3. FlowsTypeOK'
    BY <1>1, <1>3, <1>5, <2>1 DEF FlowsIInv, FlowsTypeOK
  <2>4. QED
    BY <1>1, <1>5, <2>2, <2>3 DEF FlowsIInv
<1>6. CASE Launch
  BY <1>4, <1>5, <1>6 DEF Launch, Begins
<1>7. CASE RunScheduled
  BY <1>4, <1>7 DEF RunScheduled, Begins
<1>8. QED
  BY <1>6, <1>7

\* A day read is held, a day that failed leaves the flow unclean, and one not
\* published was not released when the flow started.
LEMMA ReadFlowDayInvariant ==
  ASSUME FlowsIInv, ReadFlowDay
  PROVE  FlowsIInv'
<1>1. PICK d : \E outcome \in Outcomes(d) :
        /\ readDays' = IF outcome = "succeeded" THEN readDays \union {d} ELSE readDays
        /\ flow' = [flow EXCEPT !.rest = @ \ {d}, !.clean = @ /\ outcome # "failed"]
  BY DEF ReadFlowDay
<1>2. PICK outcome \in Outcomes(d) :
        /\ readDays' = IF outcome = "succeeded" THEN readDays \union {d} ELSE readDays
        /\ flow' = [flow EXCEPT !.rest = @ \ {d}, !.clean = @ /\ outcome # "failed"]
  BY <1>1
<1>3. UNCHANGED <<today, releasedDays, migrated, unfinished, dbtSession, lastExit, flowsLeft>> /\ flow.rest # {}
  BY DEF ReadFlowDay
<1>4. flow # NoFlow /\ KeepsItsPromise(flow) /\ flow \in FlowRecord /\ flow.kind # "none"
  BY <1>3, NoFlowFields DEF FlowsIInv, KeepsItsPromise
<1> DEFINE rest == flow.rest \ {d}
           clean == flow.clean /\ outcome # "failed"
<1>5. rest \in SUBSET Int /\ clean \in BOOLEAN /\ flow.windows \in Seq([first: Int, last: Int])
  BY <1>4 DEF FlowRecord
<1>6. flow' = Moved(flow, flow.windows, rest, clean)
  <2>1. [flow EXCEPT !.windows = flow.windows] = flow
    BY <1>4 DEF FlowRecord
  <2>2. [flow EXCEPT !.windows = flow.windows, !.rest = rest, !.clean = clean]
          = [flow EXCEPT !.rest = rest, !.clean = clean]
    BY <1>4, <2>1 DEF FlowRecord
  <2>3. QED
    BY <1>2, <2>2 DEF Moved
<1> HIDE DEF rest, clean
<1>7. /\ flow' \in FlowRecord
      /\ flow'.kind = flow.kind /\ flow'.on = flow.on /\ flow'.asked = flow.asked /\ flow'.had = flow.had
      /\ flow'.windows = flow.windows /\ flow'.rest = rest /\ flow'.clean = clean
  BY <1>4, <1>5, <1>6, MovedFields
<1>8. /\ outcome = "succeeded" => d \in releasedDays \union readDays
      /\ outcome \notin {"succeeded", "failed"} => d \notin releasedDays
  BY DEF Outcomes
<1>9. readDays \subseteq readDays' /\ readDays' \subseteq releasedDays
  BY <1>2, <1>8 DEF FlowsIInv, FlowsTypeOK
<1>10. rest \subseteq 1 .. today
  BY DEF rest, FlowsIInv, FlowsTypeOK
<1>11. FlowsTypeOK'
  BY <1>3, <1>7, <1>9, <1>10 DEF FlowsIInv, FlowsTypeOK
<1>12. Promised(flow)' = Promised(flow) /\ ToCome(flow)' = ToCome(flow)
  BY <1>3, <1>7 DEF Promised, ToCome, DaysOf
<1>13. flow'.clean => flow.asked \intersect flow.had \subseteq readDays' \union rest \union ToCome(flow)
  <2> SUFFICES ASSUME flow'.clean, NEW e \in flow.asked \intersect flow.had
               PROVE  e \in readDays' \union rest \union ToCome(flow)
    OBVIOUS
  <2>1. flow.clean /\ outcome # "failed"
    BY <1>7 DEF clean
  <2>2. e \in readDays \union flow.rest \union ToCome(flow) /\ e \in releasedDays
    BY <1>4, <2>1 DEF KeepsItsPromise
  <2>3. e = d => e \in readDays'
    BY <1>2, <1>8, <2>1, <2>2
  <2>4. QED
    BY <1>9, <2>2, <2>3 DEF rest
<1>14. KeepsItsPromise(flow)'
  <2>1. Promised(flow)' \intersect flow'.had \subseteq flow'.asked
    BY <1>4, <1>7, <1>12 DEF KeepsItsPromise
  <2>2. flow'.on \in FirstToday .. today' /\ flow'.had \subseteq 1 .. flow'.on /\ flow'.had \subseteq releasedDays'
    BY <1>3, <1>4, <1>7 DEF KeepsItsPromise
  <2>3. flow'.clean => flow'.asked \intersect flow'.had \subseteq readDays' \union flow'.rest \union ToCome(flow)'
    BY <1>7, <1>12, <1>13
  <2>4. QED
    BY <1>7, <2>1, <2>2, <2>3 DEF KeepsItsPromise
<1>15. QED
  BY <1>3, <1>4, <1>7, <1>9, <1>11, <1>14, ExitKept, NoFlowFields DEF FlowsIInv

\* A flow that ends leaves no promise behind; how it exits is another matter.
LEMMA NoFlowInvariant ==
  ASSUME FlowsIInv, flow' = NoFlow, unfinished' \subseteq Recorded \ {"flow"}, dbtSession' \in BOOLEAN,
         UNCHANGED <<today, releasedDays, readDays, migrated, flowsLeft>>,
         lastExit'.code \in 0 .. 2, CleanExitReadEverything'
  PROVE  FlowsIInv'
<1>1. {migrated', dbtSession'} \subseteq BOOLEAN
  BY DEF FlowsIInv, FlowsTypeOK
<1>2. FlowsTypeOK'
  BY <1>1, NoFlowFields DEF FlowsIInv, FlowsTypeOK
<1>3. QED
  BY <1>2 DEF FlowsIInv

\* A flow whose window has been read holds nothing of it back.
LEMMA WindowReadKeepsPromise ==
  ASSUME FlowsIInv, NEW clean \in BOOLEAN, clean => flow.clean, flow # NoFlow, flow.rest = {}
  PROVE  LET x == [flow EXCEPT !.clean = clean]
         IN  /\ x \in FlowRecord /\ x.kind = flow.kind /\ x.on = flow.on /\ x.asked = flow.asked
             /\ x.had = flow.had /\ x.windows = flow.windows /\ x.rest = {} /\ x.clean = clean
             /\ KeepsItsPromise(x)
<1>1. KeepsItsPromise(flow) /\ flow \in FlowRecord
  BY DEF FlowsIInv, KeepsItsPromise
<1> DEFINE x == [flow EXCEPT !.clean = clean]
<1>2. /\ x \in FlowRecord
      /\ x.kind = flow.kind /\ x.on = flow.on /\ x.asked = flow.asked /\ x.had = flow.had
      /\ x.windows = flow.windows /\ x.rest = {} /\ x.clean = clean
  BY <1>1 DEF FlowRecord
<1>3. Promised(x) = Promised(flow) /\ ToCome(x) = ToCome(flow)
  BY <1>2 DEF Promised, ToCome
<1> HIDE DEF x
<1>4. KeepsItsPromise(x)
  BY <1>1, <1>2, <1>3 DEF KeepsItsPromise
<1>5. QED
  BY <1>2, <1>4 DEF x

\* A run ends with its checks, and what it read is still all its flow owes so far.
LEMMA EndWindowInvariant ==
  ASSUME FlowsIInv, EndWindow
  PROVE  FlowsIInv'
<1>1. PICK checks \in {"passed", "warned", "failed"} :
        flow' = [flow EXCEPT !.clean = @ /\ checks # "failed"]
  BY DEF EndWindow
<1>2. /\ UNCHANGED <<today, releasedDays, readDays, migrated, dbtSession, lastExit, flowsLeft>>
      /\ flow.rest = {} /\ unfinished' = unfinished \ {"flow"} /\ "flow" \in unfinished
  BY DEF EndWindow
<1>3. flow # NoFlow /\ flow \in FlowRecord /\ flow.kind # "none"
  BY <1>2 DEF FlowsIInv, KeepsItsPromise
<1> DEFINE clean == flow.clean /\ checks # "failed"
           x == [flow EXCEPT !.clean = clean]
<1>4. clean \in BOOLEAN /\ (clean => flow.clean) /\ flow' = x
  BY <1>1, <1>3 DEF FlowRecord
<1> HIDE DEF clean
<1>5. /\ x \in FlowRecord /\ x.kind = flow.kind /\ x.on = flow.on /\ x.asked = flow.asked
      /\ x.had = flow.had /\ x.windows = flow.windows /\ x.rest = {} /\ x.clean = clean
      /\ KeepsItsPromise(x)
  BY <1>2, <1>3, <1>4, WindowReadKeepsPromise
<1> HIDE DEF x
<1>6. FlowsTypeOK'
  BY <1>2, <1>4, <1>5 DEF FlowsIInv, FlowsTypeOK
<1>7. KeepsItsPromise(flow)'
  BY <1>2, <1>4, <1>5 DEF KeepsItsPromise, Promised, ToCome, DaysOf
<1>8. flow' # NoFlow /\ flow'.kind # "none"
  BY <1>3, <1>4, <1>5, NoFlowFields
<1>9. QED
  BY <1>2, <1>6, <1>7, <1>8, ExitKept DEF FlowsIInv

\* The next window begins with what was to come.
LEMMA NextWindowInvariant ==
  ASSUME FlowsIInv, NextWindow
  PROVE  FlowsIInv'
<1>1. /\ UNCHANGED <<today, releasedDays, readDays, migrated, dbtSession, lastExit, flowsLeft>>
      /\ flow # NoFlow /\ "flow" \notin unfinished /\ flow.windows # NoWindows
      /\ flow' = [flow EXCEPT !.rest = DaysOf(Head(flow.windows)), !.windows = Tail(flow.windows)]
      /\ unfinished' = unfinished \union {"flow"}
  BY DEF NextWindow, Reported
<1>2. KeepsItsPromise(flow) /\ flow \in FlowRecord /\ flow.kind # "none" /\ flow.rest = {}
  BY <1>1 DEF FlowsIInv, KeepsItsPromise, FlowsTypeOK
<1> DEFINE rest == DaysOf(Head(flow.windows))
           windows == Tail(flow.windows)
<1>3. /\ windows \in Seq([first: Int, last: Int]) /\ flow.windows \in Seq([first: Int, last: Int])
      /\ rest \in SUBSET Int /\ rest \subseteq 1 .. today /\ flow.clean \in BOOLEAN
  BY <1>1, <1>2 DEF FlowRecord, DaysOf, NoWindows
<1>4. \A i \in DOMAIN flow.windows :
        \/ flow.windows[i] = Head(flow.windows)
        \/ i - 1 \in DOMAIN windows /\ windows[i - 1] = flow.windows[i]
  BY <1>1, <1>3, HeadOrTail DEF NoWindows
<1>5. ToCome(flow) \subseteq rest \union UNION {DaysOf(windows[i]) : i \in DOMAIN windows}
  BY <1>4 DEF ToCome
<1> HIDE DEF rest, windows
<1>6. flow' = Moved(flow, windows, rest, flow.clean)
  BY <1>1, <1>2 DEF Moved, FlowRecord, rest, windows
<1>7. /\ flow' \in FlowRecord
      /\ flow'.kind = flow.kind /\ flow'.on = flow.on /\ flow'.asked = flow.asked /\ flow'.had = flow.had
      /\ flow'.windows = windows /\ flow'.rest = rest /\ flow'.clean = flow.clean
  BY <1>2, <1>3, <1>6, MovedFields
<1>8. ToCome(flow)' = UNION {DaysOf(windows[i]) : i \in DOMAIN windows}
  <2>1. \A w : DaysOf(w)' = DaysOf(w)
    BY <1>1 DEF DaysOf
  <2>2. QED
    BY <1>7, <2>1 DEF ToCome
<1>9. Promised(flow)' = Promised(flow)
  BY <1>7 DEF Promised
<1>10. KeepsItsPromise(flow)'
  <2>1. Promised(flow)' \intersect flow'.had \subseteq flow'.asked
    BY <1>2, <1>7, <1>9 DEF KeepsItsPromise
  <2>2. flow'.on \in FirstToday .. today' /\ flow'.had \subseteq 1 .. flow'.on /\ flow'.had \subseteq releasedDays'
    BY <1>1, <1>2, <1>7 DEF KeepsItsPromise
  <2>3. flow'.clean => flow'.asked \intersect flow'.had \subseteq readDays' \union flow'.rest \union ToCome(flow)'
    BY <1>1, <1>2, <1>5, <1>7, <1>8 DEF KeepsItsPromise
  <2>4. QED
    BY <1>7, <2>1, <2>2, <2>3 DEF KeepsItsPromise
<1>11. FlowsTypeOK'
  BY <1>1, <1>3, <1>7 DEF FlowsIInv, FlowsTypeOK, Recorded
<1>12. flow' # NoFlow /\ flow'.kind # "none"
  BY <1>2, <1>7, NoFlowFields
<1>13. QED
  BY <1>1, <1>10, <1>11, <1>12, ExitKept DEF FlowsIInv

\* A flow with no window to come exits by how all of them went.
LEMMA ExitInvariant ==
  ASSUME FlowsIInv, Exit
  PROVE  FlowsIInv'
<1>1. /\ UNCHANGED <<today, releasedDays, readDays, migrated, unfinished, dbtSession, flowsLeft>>
      /\ flow # NoFlow /\ "flow" \notin unfinished /\ flow.windows = NoWindows /\ flow' = NoFlow
      /\ IF flow.kind = "scheduled" THEN UNCHANGED lastExit ELSE Exited(flow, ExitCode(flow))
  BY DEF Exit, Reported
<1>2. KeepsItsPromise(flow) /\ flow.rest = {}
  BY <1>1 DEF FlowsIInv, FlowsTypeOK
<1>3. unfinished' \subseteq Recorded \ {"flow"} /\ dbtSession' \in BOOLEAN
  BY <1>1 DEF FlowsIInv, FlowsTypeOK
<1>4. ToCome(flow) = {}
  BY <1>1 DEF ToCome, NoWindows
<1>5. CASE UNCHANGED lastExit
  <2>1. lastExit'.code \in 0 .. 2 /\ CleanExitReadEverything'
    BY <1>1, <1>5, ExitKept DEF FlowsIInv, FlowsTypeOK
  <2>2. QED
    BY <1>1, <1>3, <2>1, NoFlowInvariant
<1>6. CASE Exited(flow, ExitCode(flow))
  <2>1. lastExit'.flow = flow /\ lastExit'.code = ExitCode(flow)
    BY <1>6 DEF Exited
  <2>2. lastExit'.code \in 0 .. 2 /\ (lastExit'.code = 0 => flow.clean)
    BY <2>1 DEF ExitCode
  <2>3. lastExit'.code = 0 => (Promised(flow) \intersect flow.had) \subseteq readDays'
    BY <1>1, <1>2, <1>4, <2>2 DEF KeepsItsPromise
  <2>4. CleanExitReadEverything'
    BY <2>1, <2>3 DEF CleanExitReadEverything, Promised
  <2>5. QED
    BY <1>1, <1>3, <2>2, <2>4, NoFlowInvariant
<1>7. QED
  BY <1>1, <1>5, <1>6

\* A killed process leaves a run that no flow of the launcher's waits for.
LEMMA KilledFields ==
  ASSUME NEW run \in Recorded, FlowsTypeOK, Killed(run)
  PROVE  /\ unfinished' \subseteq Recorded /\ dbtSession' \in BOOLEAN
         /\ run = "flow" => "flow" \notin unfinished'
         /\ run = "beside" => ("flow" \in unfinished' <=> "flow" \in unfinished)
BY DEF Killed, FlowsTypeOK, Recorded

\* A flow beside another begins, reads and ends without a word to it.
LEMMA BesideInvariant ==
  ASSUME FlowsIInv, BeginBeside \/ ReadBeside \/ EndBeside
  PROVE  FlowsIInv'
<1>1. UNCHANGED <<today, releasedDays, migrated, flow, lastExit>> /\ today \in Nat
  BY FlowsAssumption DEF BeginBeside, ReadBeside, EndBeside, FlowsIInv, FlowsTypeOK, Calendar
<1>2. readDays \subseteq readDays' /\ readDays' \subseteq releasedDays
  BY DEF BeginBeside, ReadBeside, EndBeside, FlowsIInv, FlowsTypeOK
<1>3. /\ unfinished' \subseteq Recorded
      /\ ("flow" \in unfinished' <=> "flow" \in unfinished)
      /\ dbtSession' \in BOOLEAN
  <2>1. CASE BeginBeside
    BY <2>1 DEF BeginBeside, FlowsIInv, FlowsTypeOK, Recorded
  <2>2. CASE ReadBeside
    BY <2>2 DEF ReadBeside, FlowsIInv, FlowsTypeOK
  <2>3. CASE EndBeside
    <3>1. CASE unfinished' = unfinished \ {"beside"} /\ UNCHANGED dbtSession
      BY <3>1 DEF FlowsIInv, FlowsTypeOK, Recorded
    <3>2. CASE Killed("beside")
      BY <3>2, KilledFields DEF FlowsIInv, Recorded
    <3>3. QED
      BY <2>3, <3>1, <3>2 DEF EndBeside
  <2>4. QED
    BY <2>1, <2>2, <2>3
<1>4. MaxFlows \in Nat /\ flowsLeft' \in 0 .. MaxFlows
  BY FlowsAssumption DEF BeginBeside, ReadBeside, EndBeside, FlowsIInv, FlowsTypeOK
<1>5. FlowsTypeOK'
  BY <1>1, <1>2, <1>3, <1>4 DEF FlowsIInv, FlowsTypeOK
<1>6. QED
  BY <1>1, <1>2, <1>3, <1>5, AroundInvariant DEF FlowsIInv

\* A step that fails leaves the rest of its window unread, and the flow unclean.
LEMMA FailStepInvariant ==
  ASSUME FlowsIInv, FailStep
  PROVE  FlowsIInv'
<1>1. /\ UNCHANGED <<today, releasedDays, readDays, migrated, unfinished, dbtSession, lastExit, flowsLeft>>
      /\ flow.rest # {} /\ flow' = [flow EXCEPT !.rest = {}, !.clean = FALSE]
  BY DEF FailStep
<1>2. flow # NoFlow /\ KeepsItsPromise(flow) /\ flow \in FlowRecord /\ flow.kind # "none"
  BY <1>1, NoFlowFields DEF FlowsIInv, KeepsItsPromise
<1> DEFINE rest == {}
           clean == FALSE
<1>3. /\ flow' = Moved(flow, flow.windows, rest, clean) /\ flow.windows \in Seq([first: Int, last: Int])
      /\ rest \in SUBSET Int /\ clean \in BOOLEAN
  BY <1>1, <1>2 DEF Moved, FlowRecord
<1> HIDE DEF rest, clean
<1>4. /\ flow' \in FlowRecord
      /\ flow'.kind = flow.kind /\ flow'.on = flow.on /\ flow'.asked = flow.asked /\ flow'.had = flow.had
      /\ flow'.windows = flow.windows /\ flow'.rest = rest /\ flow'.clean = clean
  BY <1>2, <1>3, MovedFields
<1>5. Promised(flow)' = Promised(flow)
  BY <1>4 DEF Promised
<1>6. KeepsItsPromise(flow)'
  BY <1>1, <1>2, <1>4, <1>5 DEF KeepsItsPromise, rest, clean
<1>7. FlowsTypeOK'
  BY <1>1, <1>4 DEF rest, FlowsIInv, FlowsTypeOK
<1>8. QED
  BY <1>1, <1>2, <1>4, <1>6, <1>7, ExitKept, NoFlowFields DEF FlowsIInv

\* What the invariant says holds after every step of a flow, of the releases and of the night.
LEMMA FlowsNextInvariant == FlowsIInv /\ [FlowsNext]_flowVars => FlowsIInv'
<1> SUFFICES ASSUME FlowsIInv, [FlowsNext]_flowVars
             PROVE  FlowsIInv'
  OBVIOUS
<1>1. FlowsTypeOK
  BY DEF FlowsIInv
<1>2. CASE KillFlow
  <2>1. UNCHANGED <<today, releasedDays, readDays, migrated, lastExit, flowsLeft>>
        /\ flow' = NoFlow /\ Killed("flow")
    BY <1>2 DEF KillFlow
  <2>2. lastExit'.code \in 0 .. 2 /\ CleanExitReadEverything'
    BY <1>1, <2>1, ExitKept DEF FlowsIInv, FlowsTypeOK
  <2>3. unfinished' \subseteq Recorded \ {"flow"} /\ dbtSession' \in BOOLEAN
    BY <1>1, <2>1, KilledFields DEF Recorded
  <2>4. QED
    BY <2>1, <2>2, <2>3, NoFlowInvariant
<1>3. CASE ReleaseDay
  <2>1. PICK d \in 1 .. today \ releasedDays : releasedDays' = releasedDays \union {d}
    BY <1>3 DEF ReleaseDay
  <2>2. UNCHANGED <<today, readDays, migrated, unfinished, dbtSession, flow, lastExit, flowsLeft>>
    BY <1>3 DEF ReleaseDay
  <2>3. FlowsTypeOK'
    BY <1>1, <2>1, <2>2 DEF FlowsTypeOK
  <2>4. QED
    BY <2>1, <2>2, <2>3, AroundInvariant DEF FlowsIInv
<1>4. CASE PassMidnight
  <2>1. /\ UNCHANGED <<releasedDays, readDays, migrated, unfinished, dbtSession, flow, lastExit, flowsLeft>>
        /\ today' = today + 1 /\ today < LastToday
    BY <1>4 DEF PassMidnight
  <2>2. today' \in Calendar /\ 1 .. today \subseteq 1 .. today'
    BY <1>1, <2>1, FlowsAssumption DEF FlowsTypeOK, Calendar
  <2>3. FlowsTypeOK'
    BY <1>1, <2>1, <2>2 DEF FlowsTypeOK
  <2>4. QED
    BY <2>1, <2>3, AroundInvariant DEF FlowsIInv
<1>5. CASE Operate
  <2>1. /\ UNCHANGED <<today, releasedDays, readDays, flow, lastExit, flowsLeft>> /\ flow = NoFlow
        /\ migrated' \in {migrated, TRUE} /\ unfinished' \subseteq unfinished
        /\ dbtSession' \in {dbtSession, FALSE}
    BY <1>5 DEF Operate
  <2>2. {migrated', dbtSession'} \subseteq BOOLEAN /\ unfinished' \subseteq Recorded
    BY <1>1, <2>1 DEF FlowsTypeOK
  <2>3. FlowsTypeOK'
    BY <1>1, <2>1, <2>2, NoFlowFields DEF FlowsTypeOK
  <2>4. QED
    BY <2>1, <2>3, AroundInvariant DEF FlowsIInv
<1>6. CASE UNCHANGED flowVars
  <2>1. UNCHANGED <<today, releasedDays, readDays, migrated, unfinished, dbtSession, flow, lastExit, flowsLeft>>
    BY <1>6 DEF flowVars
  <2>2. FlowsTypeOK'
    BY <1>1, <2>1 DEF FlowsTypeOK
  <2>3. QED
    BY <2>1, <2>2, AroundInvariant DEF FlowsIInv
<1>7. QED
  BY <1>2, <1>3, <1>4, <1>5, <1>6, LaunchInvariant, ReadFlowDayInvariant, FailStepInvariant, EndWindowInvariant,
     NextWindowInvariant, ExitInvariant, BesideInvariant DEF FlowsNext

\* Dates, days and flows keep their types.
THEOREM FlowsTypeCorrect == FlowsSpec => []FlowsTypeOK
<1>1. FlowsIInv => FlowsTypeOK
  BY DEF FlowsIInv
<1>2. QED
  BY <1>1, FlowsInitInvariant, FlowsNextInvariant, PTL DEF FlowsSpec

\* A launcher that exits 0 has read all it promised of what was released when it
\* started, whatever failed, was killed or passed midnight before it.
THEOREM CleanExitsReadEverything == FlowsSpec => []CleanExitReadEverything
<1>1. FlowsIInv => CleanExitReadEverything
  BY DEF FlowsIInv
<1>2. QED
  BY <1>1, FlowsInitInvariant, FlowsNextInvariant, PTL DEF FlowsSpec

-----------------------------------------------------------------------------
(* Bhavcopies, for any files and days of both venues.                      *)
(*                                                                         *)
(* The argument: an instrument has a name before it has a bar, and no name *)
(* is written but that of the latest bar, of BSE's where both venues       *)
(* traded; so once a run that read that bar has come to its end, the name  *)
(* stands while the bar is the latest, whatever is killed or corrected.    *)

\* The instruments a run's day has bars of.
SeenBy(v) == {b.isin : b \in fileRuns[v].bars}

\* What a run holds of a day is the day's, in the venue's name.
ReadInOrder(v) ==
  LET run == fileRuns[v]
  IN  /\ run.phase \in {"waiting", "turn", "introduced"} => run.day \in FileDays
      /\ \A b \in run.bars \union run.changed : b.venue = v /\ b.day = run.day

\* On a day that names no instrument, no bar a run is about to store is of one
\* without a name: each is of one already stored.
NamesBeforeBars(v) ==
  ~Names(v) => \A b \in fileRuns[v].bars : names[b.isin] # Unnamed

\* A name read is of a bar stored, or one the run is about to store.
NamesOfBars(v) ==
  \A i \in Isins : fileRuns[v].read[i] # 0 =>
    \/ \E b \in stored : b.isin = i /\ b.venue = v /\ b.day = fileRuns[v].read[i]
    \/ fileRuns[v].phase = "introduced" /\ i \in SeenBy(v) /\ fileRuns[v].read[i] = fileRuns[v].day

\* A bar a run that came to its end read is stored.
NamedAreStored ==
  \A i \in Isins, v \in Exchanges, d \in FileDays :
    <<i, v, d>> \in namedAt => \E b \in stored : b.isin = i /\ b.venue = v /\ b.day = d

\* Of two bars of an instrument, the one its name is to be of: the later, and BSE's
\* of two of one day.
Outranks(b, c) == c.day < b.day \/ (c.day = b.day /\ b.venue \in {c.venue, "BSE"})

IsLatest(b) == \A c \in stored : c.isin = b.isin => Outranks(b, c)

NamedByLatest ==
  \A b \in stored : IsLatest(b) /\ <<b.isin, b.venue, b.day>> \in namedAt =>
    names[b.isin] = <<b.venue, b.day>>

FilesIInv ==
  /\ BhavcopiesTypeOK
  /\ \A u, v \in Exchanges : HoldsTurn(u) /\ HoldsTurn(v) => u = v
  /\ \A b \in stored : names[b.isin] # Unnamed
  /\ \A v \in Exchanges : ReadInOrder(v) /\ NamesBeforeBars(v) /\ NamesOfBars(v)
  /\ NamedAreStored /\ NamedByLatest

-----------------------------------------------------------------------------
\* The fields of one venue's run after a step of it, and the other run as it was.
RunIs(v, phase, due, day, bars, changed, read) ==
  /\ DOMAIN fileRuns' = Exchanges
  /\ \A u \in Exchanges : u # v => fileRuns'[u] = fileRuns[u]
  /\ fileRuns'[v] = [phase |-> phase, left |-> due, day |-> day, bars |-> bars,
                     changed |-> changed, read |-> read]

\* What ReadFile gives a run when the day is read.
LEMMA CopyReadGives ==
  ASSUME fileRuns \in [Exchanges -> FileRun], NEW v \in Exchanges, NEW day, NEW bars, NEW changed,
         fileRuns' = [fileRuns EXCEPT ![v].phase = "waiting", ![v].day = day, ![v].bars = bars,
                                      ![v].changed = changed]
  PROVE  RunIs(v, "waiting", fileRuns[v].left, day, bars, changed, fileRuns[v].read)
  BY DEF RunIs, FileRun

\* What PassOverDay gives a run.
LEMMA PassStep ==
  ASSUME fileRuns \in [Exchanges -> FileRun], NEW v \in Exchanges, NEW d,
         fileRuns' = [fileRuns EXCEPT ![v].left = @ \ {d}]
  PROVE  RunIs(v, fileRuns[v].phase, fileRuns[v].left \ {d}, fileRuns[v].day, fileRuns[v].bars,
               fileRuns[v].changed, fileRuns[v].read)
  BY DEF RunIs, FileRun

\* What TakeTurn gives a run.
LEMMA TurnStep ==
  ASSUME fileRuns \in [Exchanges -> FileRun], NEW v \in Exchanges,
         fileRuns' = [fileRuns EXCEPT ![v].phase = "turn"]
  PROVE  RunIs(v, "turn", fileRuns[v].left, fileRuns[v].day, fileRuns[v].bars,
               fileRuns[v].changed, fileRuns[v].read)
  BY DEF RunIs, FileRun

\* What Introduce gives a run.
LEMMA IntroduceStep ==
  ASSUME fileRuns \in [Exchanges -> FileRun], NEW v \in Exchanges, NEW read,
         fileRuns' = [fileRuns EXCEPT ![v].phase = "introduced", ![v].read = read]
  PROVE  RunIs(v, "introduced", fileRuns[v].left, fileRuns[v].day, fileRuns[v].bars,
               fileRuns[v].changed, read)
  BY DEF RunIs, FileRun

\* What StoreFile gives a run.
LEMMA StoreStep ==
  ASSUME fileRuns \in [Exchanges -> FileRun], NEW v \in Exchanges, NEW due, NEW read,
         fileRuns' = [fileRuns EXCEPT ![v] = [NotRunning EXCEPT !.phase = "reading", !.left = due,
                                                                !.read = read]]
  PROVE  RunIs(v, "reading", due, 0, {}, {}, read)
  BY DEF RunIs, NotRunning

\* A run as it stands has the type of one where its fields have theirs.
LEMMA RunTyped ==
  ASSUME fileRuns \in [Exchanges -> FileRun], NEW v \in Exchanges,
         NEW phase \in {"idle", "reading", "waiting", "turn", "introduced"},
         NEW due \in SUBSET FileDays, NEW day \in FileDays \union {0},
         NEW bars \in SUBSET StoredBar, NEW changed \in SUBSET StoredBar, NEW read \in [Isins -> FileDays \union {0}],
         fileRuns' = [u \in Exchanges |-> fileRuns'[u]],
         RunIs(v, phase, due, day, bars, changed, read)
  PROVE  fileRuns' \in [Exchanges -> FileRun]
<1>1. [phase |-> phase, left |-> due, day |-> day, bars |-> bars,
       changed |-> changed, read |-> read] \in FileRun
  BY DEF FileRun
<1>2. \A u \in Exchanges : fileRuns'[u] \in FileRun
  BY <1>1 DEF RunIs
<1>3. QED
  BY <1>2

-----------------------------------------------------------------------------
\* The days and instruments are numbers, and none of them is the absent one.
LEMMA DaysAreNumbers ==
  /\ FileDays \subseteq Nat /\ 0 \notin FileDays /\ IsFiniteSet(FileDays)
  /\ Isins \subseteq Nat /\ NoIsin \notin Isins
  BY BhavcopiesAssumption DEF NoIsin

\* The file read next is one of those left.
LEMMA NextIsLeft ==
  ASSUME NEW v \in Exchanges, fileRuns[v].left \subseteq FileDays, fileRuns[v].left # {}
  PROVE  NextToRead(v) \in fileRuns[v].left
<1> DEFINE due == fileRuns[v].left
           main == IF v = "BSE" /\ due \ ScripDays # {} THEN due \ ScripDays ELSE due
<1>1. main # {} /\ main \subseteq due /\ main \subseteq Nat
  BY DaysAreNumbers
<1>2. \E d \in main : \A e \in main : d <= e
  BY <1>1, LeastNatural
<1>3. NextToRead(v) \in main
  BY <1>2 DEF NextToRead
<1>4. QED
  BY <1>1, <1>3

\* A line's ISIN by its scrip code is one that has bars stored, or none.
LEMMA CodesNameStoredIsins ==
  ASSUME NEW code, NEW d
  PROVE  IsinForCode(code, d) \in {b.isin : b \in stored} \union {NoIsin}
<1> DEFINE known   == {b.isin: b \in {s \in stored: s.venue = "BSE" /\ s.code = code /\ s.day # d}}
           nearest == {i \in known: \A j \in known: Distance(code, i, d) <= Distance(code, j, d)}
<1>1. IsinForCode(code, d) = IF Cardinality(nearest) = 1 THEN CHOOSE i \in nearest: TRUE ELSE NoIsin
  BY DEF IsinForCode
<1>2. nearest \subseteq {b.isin : b \in stored}
  OBVIOUS
<1> HIDE DEF nearest
<1>3. Cardinality(nearest) = 1 => nearest # {}
  BY FS_EmptySet
<1>4. QED
  BY <1>1, <1>2, <1>3

\* A line of a day's file keeps its trades and its code, and names an instrument, one
\* already stored where the file names none.
LEMMA LinesOfADay ==
  ASSUME NEW v \in Exchanges, NEW d \in FileDays, stored \subseteq StoredBar,
         NEW r \in EquityLines(v, d)
  PROVE  /\ r.trades \in Nat /\ r.code \in Nat /\ r.isin \in Isins \union {NoIsin}
         /\ v = "BSE" /\ d \in ScripDays /\ r.isin # NoIsin => \E b \in stored : b.isin = r.isin
<1>1. PICK q \in Published[v][d] :
        r = IF v = "BSE" /\ d \in ScripDays THEN [q EXCEPT !.isin = IsinForCode(q.code, d)] ELSE q
  BY DEF EquityLines, Equity
<1>2. q \in FileRow
  BY BhavcopiesAssumption
<1>3. IsinForCode(q.code, d) \in {b.isin : b \in stored} \union {NoIsin}
  BY CodesNameStoredIsins
<1>4. {b.isin : b \in stored} \subseteq Isins
  BY DEF StoredBar
<1>5. CASE v = "BSE" /\ d \in ScripDays
  <2> DEFINE i == IsinForCode(q.code, d)
  <2>1. r = [q EXCEPT !.isin = i]
    BY <1>1, <1>5
  <2> HIDE DEF i
  <2>2. r.trades = q.trades /\ r.code = q.code /\ r.isin = i
    BY <1>2, <2>1 DEF FileRow
  <2>3. i \in {b.isin : b \in stored} \union {NoIsin}
    BY <1>3 DEF i
  <2>4. QED
    BY <1>2, <1>4, <2>2, <2>3 DEF FileRow
<1>6. CASE ~(v = "BSE" /\ d \in ScripDays)
  BY <1>1, <1>2, <1>6 DEF FileRow
<1>7. QED
  BY <1>5, <1>6

\* The lines of a day are finitely many.
LEMMA LinesAreFinite ==
  ASSUME NEW v \in Exchanges, NEW d \in FileDays
  PROVE  IsFiniteSet(EquityLines(v, d))
<1> DEFINE rows == Equity(Published[v][d])
           Line(r) == IF v = "BSE" /\ d \in ScripDays
                      THEN [r EXCEPT !.isin = IsinForCode(r.code, d)] ELSE r
<1>1. IsFiniteSet(rows)
  BY BhavcopiesAssumption, FS_Subset DEF Equity
<1>2. EquityLines(v, d) = {Line(r) : r \in rows}
  BY DEF EquityLines
<1> DEFINE f == [r \in rows |-> Line(r)]
<1> HIDE DEF rows, Line
<1>3. EquityLines(v, d) = {f[r] : r \in rows}
  BY <1>2
<1>4. f = [r \in rows |-> f[r]]
  OBVIOUS
<1> HIDE DEF f
<1>5. QED
  BY <1>1, <1>3, <1>4, FiniteImage

\* Finitely many lines, each with its trades and its code.
Countable(lines) ==
  /\ IsFiniteSet(lines)
  /\ \A r \in lines : r.trades \in Nat /\ r.code \in Nat /\ r.isin \in Isins \union {NoIsin}

\* The line a day's bar of an instrument is made of is one of the instrument's.
LEMMA OrdinaryIsALine ==
  ASSUME NEW lines, Countable(lines), NEW r0 \in lines
  PROVE  OrdinaryLine(lines, r0.isin) \in lines
<1> DEFINE own  == {r \in lines: r.isin = r0.isin}
           main == IF \E r \in own: ~r.second THEN {r \in own: ~r.second} ELSE own
           trades == [r \in main |-> r.trades]
           counts == {trades[r] : r \in main}
<1>1. main # {} /\ main \subseteq lines
  OBVIOUS
<1>2. IsFiniteSet(main)
  BY <1>1, FS_Subset DEF Countable
<1>3. counts # {} /\ counts \subseteq Nat
  <2>1. \A r \in main : r.trades \in Nat
    BY <1>1 DEF Countable
  <2> HIDE DEF main
  <2>2. QED
    BY <1>1, <2>1
<1>4. IsFiniteSet(counts)
  <2>1. trades = [r \in main |-> trades[r]]
    OBVIOUS
  <2> HIDE DEF main, trades
  <2>2. QED
    BY <1>2, <2>1, FiniteImage
<1>5. \E n \in counts : \A m \in counts : m <= n
  <2> HIDE DEF counts
  <2>1. QED
    BY <1>3, <1>4, GreatestNatural
<1>6. \E r \in main : \A q \in main : q.trades <= r.trades
  <2> HIDE DEF main
  <2>1. QED
    BY <1>5
<1>7. OrdinaryLine(lines, r0.isin) \in main
  BY <1>6 DEF OrdinaryLine
<1>8. QED
  BY <1>1, <1>7

\* The bars of a day are bars of the venue's day, each of an instrument a line names.
LEMMA BarsOfADay ==
  ASSUME NEW v \in Exchanges, NEW d \in FileDays, NEW lines, Countable(lines)
  PROVE  \A b \in BarsOf(v, d, lines) :
           /\ b \in StoredBar /\ b.venue = v /\ b.day = d
           /\ \E r \in lines : r.isin # NoIsin /\ b.isin = r.isin
<1> SUFFICES ASSUME NEW b \in BarsOf(v, d, lines)
             PROVE  /\ b \in StoredBar /\ b.venue = v /\ b.day = d
                    /\ \E r \in lines : r.isin # NoIsin /\ b.isin = r.isin
  OBVIOUS
<1>1. PICK r \in lines :
        /\ r.isin # NoIsin
        /\ b = [isin |-> r.isin, venue |-> v, day |-> d, code |-> OrdinaryLine(lines, r.isin).code]
  BY DEF BarsOf, Nameless
<1> DEFINE code == OrdinaryLine(lines, r.isin).code
<1>2. r.isin \in Isins
  BY <1>1 DEF Countable
<1>3. code \in Nat
  BY OrdinaryIsALine DEF Countable
<1>4. b = [isin |-> r.isin, venue |-> v, day |-> d, code |-> code]
  BY <1>1
<1> HIDE DEF code
<1>5. b \in StoredBar /\ b.venue = v /\ b.day = d /\ b.isin = r.isin
  BY <1>2, <1>3, <1>4 DEF StoredBar
<1>6. QED
  BY <1>1, <1>5

\* The bars of a day's file, each of an instrument stored before where the file names
\* none, and those of the corrected one.
LEMMA BarsOfFiles ==
  ASSUME NEW v \in Exchanges, NEW d \in FileDays, stored \subseteq StoredBar
  PROVE  /\ \A b \in BarsOf(v, d, EquityLines(v, d)) :
              /\ b \in StoredBar /\ b.venue = v /\ b.day = d
              /\ v = "BSE" /\ d \in ScripDays => \E c \in stored : c.isin = b.isin
         /\ \A b \in BarsOf(v, d, Equity(Corrected[v][d])) :
              b \in StoredBar /\ b.venue = v /\ b.day = d
<1>1. Countable(EquityLines(v, d))
  BY LinesAreFinite, LinesOfADay DEF Countable
<1>2. Countable(Equity(Corrected[v][d]))
  <2>1. Corrected[v][d] \subseteq FileRow /\ IsFiniteSet(Corrected[v][d])
    BY BhavcopiesAssumption
  <2>2. Equity(Corrected[v][d]) \subseteq Corrected[v][d]
    BY DEF Equity
  <2>3. IsFiniteSet(Equity(Corrected[v][d]))
    BY <2>1, <2>2, FS_Subset
  <2>4. QED
    BY <2>1, <2>2, <2>3 DEF Countable, FileRow
<1>3. QED
  BY <1>1, <1>2, BarsOfADay, LinesOfADay

-----------------------------------------------------------------------------
\* Nothing has been read at the start.
LEMMA FilesInitInvariant == BhavcopiesInit => FilesIInv
<1> SUFFICES ASSUME BhavcopiesInit PROVE FilesIInv
  OBVIOUS
<1> USE DEF BhavcopiesInit
<1>1. NotRunning \in FileRun
  BY DEF NotRunning, FileRun
<1>2. BhavcopiesTypeOK
  BY <1>1, BhavcopiesAssumption DEF BhavcopiesTypeOK
<1>3. \A v \in Exchanges : fileRuns[v] = NotRunning
  OBVIOUS
<1>4. \A v \in Exchanges : ~HoldsTurn(v)
  BY <1>3 DEF HoldsTurn, NotRunning
<1>5. \A v \in Exchanges : ReadInOrder(v) /\ NamesBeforeBars(v) /\ NamesOfBars(v)
  BY <1>3 DEF ReadInOrder, NamesBeforeBars, NamesOfBars, SeenBy, NotRunning
<1>6. stored = {} /\ namedAt = {}
  OBVIOUS
<1>7. QED
  BY ONLY <1>2, <1>4, <1>5, <1>6 DEF FilesIInv, NamedByLatest, NamedAreStored

\* A run that takes no step keeps what is true of it while names and bars only come.
LEMMA OtherRunsKeep ==
  ASSUME FilesIInv, NEW u \in Exchanges, fileRuns'[u] = fileRuns[u], stored \subseteq stored',
         \A i \in Isins : names[i] # Unnamed => names'[i] # Unnamed
  PROVE  (ReadInOrder(u) /\ NamesBeforeBars(u) /\ NamesOfBars(u))'
<1>1. ReadInOrder(u) /\ NamesBeforeBars(u) /\ NamesOfBars(u) /\ fileRuns[u] \in FileRun
  BY DEF FilesIInv, BhavcopiesTypeOK
<1>2. \A b \in fileRuns[u].bars : b.isin \in Isins
  BY <1>1 DEF FileRun, StoredBar
<1>3. ReadInOrder(u)'
  BY <1>1 DEF ReadInOrder
<1>4. NamesBeforeBars(u)'
  BY <1>1, <1>2 DEF NamesBeforeBars, Names
<1>5. NamesOfBars(u)'
  BY <1>1 DEF NamesOfBars, SeenBy
<1>6. QED
  BY <1>3, <1>4, <1>5

\* Where no bar is stored and no name changes, the names are as they should be.
LEMMA NamesStay ==
  ASSUME FilesIInv, UNCHANGED <<stored, names, namedAt>>
  PROVE  NamedAreStored' /\ NamedByLatest' /\ \A b \in stored' : names'[b.isin] # Unnamed
  BY DEF FilesIInv, NamedAreStored, NamedByLatest, IsLatest, Outranks

\* What is left to show of a step of one venue's run.
LEMMA StepOfARun ==
  ASSUME FilesIInv, NEW v \in Exchanges, BhavcopiesTypeOK',
         \A u \in Exchanges : u # v => fileRuns'[u] = fileRuns[u],
         stored \subseteq stored', \A i \in Isins : names[i] # Unnamed => names'[i] # Unnamed,
         HoldsTurn(v)' => \A u \in Exchanges : u # v => ~HoldsTurn(u),
         (ReadInOrder(v) /\ NamesBeforeBars(v) /\ NamesOfBars(v))',
         \A b \in stored' : names'[b.isin] # Unnamed,
         NamedAreStored', NamedByLatest'
  PROVE  FilesIInv'
<1>1. \A u \in Exchanges : u # v => (HoldsTurn(u)' <=> HoldsTurn(u))
  BY DEF HoldsTurn
<1>2. \A u, w \in Exchanges : HoldsTurn(u)' /\ HoldsTurn(w)' => u = w
  BY <1>1 DEF FilesIInv
<1>3. \A u \in Exchanges : (ReadInOrder(u) /\ NamesBeforeBars(u) /\ NamesOfBars(u))'
  BY OtherRunsKeep
<1>4. QED
  BY ONLY <1>2, <1>3, BhavcopiesTypeOK', \A b \in stored' : names'[b.isin] # Unnamed,
          NamedAreStored', NamedByLatest' DEF FilesIInv

-----------------------------------------------------------------------------
\* A run that starts has read nothing.
LEMMA StartKeeps ==
  ASSUME FilesIInv, NEW v \in Exchanges, NEW window \in SUBSET FileDays, StartFiles(v, window)
  PROVE  FilesIInv'
<1> DEFINE r == [NotRunning EXCEPT !.phase = "reading", !.left = window]
           a == [NotRunning EXCEPT !.phase = "reading"]
<1>1. /\ NotRunning \in FileRun /\ NotRunning.bars = {} /\ NotRunning.changed = {}
      /\ \A i \in Isins : NotRunning.read[i] = 0
  BY DEF FileRun, NotRunning
<1>2. /\ r \in FileRun /\ r.phase = "reading" /\ r.bars = {} /\ r.changed = {}
      /\ r.read = NotRunning.read
  <2>1. /\ a \in FileRun /\ a.phase = "reading" /\ a.bars = {} /\ a.changed = {}
        /\ a.read = NotRunning.read
    BY <1>1 DEF FileRun
  <2>2. r = [a EXCEPT !.left = window]
    BY <1>1 DEF FileRun
  <2> HIDE DEF a, r
  <2>3. QED
    BY <2>1, <2>2 DEF FileRun
<1>3. BhavcopiesTypeOK /\ fileRuns' = [fileRuns EXCEPT ![v] = r] /\ runsLeft[v] > 0
  BY DEF FilesIInv, StartFiles
<1>4. \A i \in Isins : r.read[i] = 0
  BY <1>1, <1>2
<1> HIDE DEF r, a
<1>5. fileRuns' \in [Exchanges -> FileRun] /\ fileRuns'[v] = r
      /\ \A u \in Exchanges : u # v => fileRuns'[u] = fileRuns[u]
  BY <1>2, <1>3 DEF BhavcopiesTypeOK
<1>6. UNCHANGED <<copies, stored, names, outcomes, namedAt>>
  BY DEF StartFiles
<1>7. BhavcopiesTypeOK'
  <2>1. runsLeft' = [runsLeft EXCEPT ![v] = @ - 1]
    BY DEF StartFiles
  <2>2. runsLeft' \in [Exchanges -> Nat] /\ \A u \in Exchanges : runsLeft'[u] <= MaxRuns[u]
    <3>1. /\ runsLeft \in [Exchanges -> Nat] /\ MaxRuns \in [Exchanges -> Nat]
          /\ \A u \in Exchanges : runsLeft[u] <= MaxRuns[u]
      BY <1>3, BhavcopiesAssumption DEF BhavcopiesTypeOK
    <3>2. runsLeft[v] - 1 \in Nat /\ runsLeft[v] - 1 <= MaxRuns[v]
      BY <1>3, <3>1
    <3>3. QED
      BY <2>1, <3>1, <3>2
  <2>3. QED
    BY <1>3, <1>5, <1>6, <2>2 DEF BhavcopiesTypeOK
<1>8. (ReadInOrder(v) /\ NamesBeforeBars(v) /\ NamesOfBars(v))'
  BY <1>2, <1>4, <1>5 DEF ReadInOrder, NamesBeforeBars, NamesOfBars
<1>9. ~HoldsTurn(v)'
  BY <1>2, <1>5 DEF HoldsTurn
<1>10. NamedAreStored' /\ NamedByLatest' /\ \A b \in stored' : names'[b.isin] # Unnamed
  BY <1>6, NamesStay
<1>11. QED
  BY <1>5, <1>6, <1>7, <1>8, <1>9, <1>10, StepOfARun

\* A day read, refused or not answered: what a run has read of days before stands.
LEMMA ReadKeeps ==
  ASSUME FilesIInv, NEW v \in Exchanges, ReadFile(v)
  PROVE  FilesIInv'
<1> DEFINE d == NextToRead(v)
           run == fileRuns[v]
<1>1. BhavcopiesTypeOK /\ run \in FileRun /\ run.phase = "reading" /\ run.left # {}
  BY DEF FilesIInv, BhavcopiesTypeOK, ReadFile
<1>2. d \in run.left /\ d \in FileDays
  BY <1>1, NextIsLeft DEF FileRun
<1>3. UNCHANGED <<stored, names, runsLeft, namedAt>>
  BY DEF ReadFile
<1> DEFINE bars == BarsOf(v, d, EquityLines(v, d))
           brought == BarsOf(v, d, Equity(Corrected[v][d]))
<1>4. PICK copy \in CopyRead(v, d) :
        /\ copies' = [copies EXCEPT ![v][d] = HeldAfter(v, copy)]
        /\ \/ PassOverDay(v, d, "not_published")
           \/ PassOverDay(v, d, "failed")
           \/ /\ fileRuns' = [fileRuns EXCEPT ![v].phase = "waiting", ![v].day = d,
                    ![v].bars = bars, ![v].changed = IF copy = "corrected" THEN brought ELSE {}]
              /\ UNCHANGED outcomes
  BY DEF ReadFile
<1>5. copies' \in [Exchanges -> [FileDays -> {"none", "file", "broken", "corrected"}]]
  <2>1. HeldAfter(v, copy) \in {"none", "file", "broken", "corrected"}
    BY DEF HeldAfter
  <2>2. QED
    BY <1>1, <1>2, <1>4, <2>1 DEF BhavcopiesTypeOK
<1>6. /\ \A b \in bars : /\ b \in StoredBar /\ b.venue = v /\ b.day = d
                         /\ v = "BSE" /\ d \in ScripDays => \E c \in stored : c.isin = b.isin
      /\ \A b \in brought : b \in StoredBar /\ b.venue = v /\ b.day = d
  BY <1>1, <1>2, BarsOfFiles DEF BhavcopiesTypeOK
<1> DEFINE changed == IF copy = "corrected" THEN brought ELSE {}
<1>10. \A b \in changed : b \in StoredBar /\ b.venue = v /\ b.day = d
  BY <1>6
<1> HIDE DEF d, bars, brought, changed
<1>7. CASE \/ PassOverDay(v, d, "not_published")
           \/ PassOverDay(v, d, "failed")
  <2>1. RunIs(v, run.phase, run.left \ {d}, run.day, run.bars, run.changed, run.read)
    BY <1>1, <1>7, PassStep DEF PassOverDay, BhavcopiesTypeOK
  <2>2. fileRuns' \in [Exchanges -> FileRun]
    <3>1. fileRuns' = [u \in Exchanges |-> fileRuns'[u]]
      BY <1>1, <1>7 DEF PassOverDay, BhavcopiesTypeOK
    <3>2. /\ run.left \ {d} \in SUBSET FileDays /\ run.day \in FileDays \union {0}
          /\ run.bars \in SUBSET StoredBar /\ run.changed \in SUBSET StoredBar
          /\ run.read \in [Isins -> FileDays \union {0}]
          /\ run.phase \in {"idle", "reading", "waiting", "turn", "introduced"}
      BY <1>1 DEF FileRun
    <3>3. QED
      BY <1>1, <2>1, <3>1, <3>2, RunTyped DEF BhavcopiesTypeOK
  <2>3. outcomes' \in [Exchanges -> [FileDays -> {"none", "succeeded", "not_published", "failed"}]]
    <3>1. PICK outcome \in {"not_published", "failed"} : PassOverDay(v, d, outcome)
      BY <1>7
    <3>2. outcomes' = [outcomes EXCEPT ![v][d] = outcome]
      BY <3>1 DEF PassOverDay
    <3>3. QED
      BY <1>1, <1>2, <3>1, <3>2 DEF BhavcopiesTypeOK
  <2>4. BhavcopiesTypeOK'
    BY <1>1, <1>3, <1>5, <2>2, <2>3 DEF BhavcopiesTypeOK
  <2>5. /\ fileRuns'[v].phase = "reading" /\ fileRuns'[v].day = run.day
        /\ fileRuns'[v].bars = run.bars /\ fileRuns'[v].changed = run.changed
        /\ fileRuns'[v].read = run.read
        /\ \A u \in Exchanges : u # v => fileRuns'[u] = fileRuns[u]
    BY <1>1, <2>1 DEF RunIs
  <2>6. (ReadInOrder(v) /\ NamesBeforeBars(v) /\ NamesOfBars(v))'
    <3>1. ReadInOrder(v) /\ NamesBeforeBars(v) /\ NamesOfBars(v)
      BY DEF FilesIInv
    <3>2. QED
      BY <1>1, <1>3, <2>5, <3>1 DEF ReadInOrder, NamesBeforeBars, NamesOfBars, SeenBy, Names
  <2>7. ~HoldsTurn(v)'
    BY <2>5 DEF HoldsTurn
  <2>8. NamedAreStored' /\ NamedByLatest' /\ \A b \in stored' : names'[b.isin] # Unnamed
    BY <1>3, NamesStay
  <2>9. QED
    BY <1>3, <2>4, <2>5, <2>6, <2>7, <2>8, StepOfARun
<1>8. CASE /\ fileRuns' = [fileRuns EXCEPT ![v].phase = "waiting", ![v].day = d,
                                            ![v].bars = bars, ![v].changed = changed]
           /\ UNCHANGED outcomes
  <2>1. RunIs(v, "waiting", run.left, d, bars, changed, run.read)
    BY <1>1, <1>8, CopyReadGives DEF BhavcopiesTypeOK
  <2>2. fileRuns' \in [Exchanges -> FileRun]
    <3>1. fileRuns' = [u \in Exchanges |-> fileRuns'[u]]
      BY <1>1, <1>8 DEF BhavcopiesTypeOK
    <3>2. bars \in SUBSET StoredBar /\ changed \in SUBSET StoredBar
      BY <1>6, <1>10
    <3>3. QED
      BY <1>1, <1>2, <2>1, <3>1, <3>2, RunTyped DEF BhavcopiesTypeOK, FileRun
  <2>4. BhavcopiesTypeOK'
    BY <1>1, <1>3, <1>5, <1>8, <2>2 DEF BhavcopiesTypeOK
  <2>5. /\ fileRuns'[v].phase = "waiting" /\ fileRuns'[v].day = d
        /\ fileRuns'[v].bars = bars /\ fileRuns'[v].changed = changed
        /\ fileRuns'[v].read = run.read
        /\ \A u \in Exchanges : u # v => fileRuns'[u] = fileRuns[u]
    BY <2>1 DEF RunIs
  <2>6. ReadInOrder(v)'
    BY <1>2, <1>6, <1>10, <2>5 DEF ReadInOrder
  <2>7. NamesBeforeBars(v)'
    <3>1. \A b \in bars : v = "BSE" /\ d \in ScripDays => names[b.isin] # Unnamed
      BY <1>6 DEF FilesIInv
    <3>2. QED
      BY <1>3, <2>5, <3>1 DEF NamesBeforeBars, Names
  <2>8. NamesOfBars(v)'
    <3>1. NamesOfBars(v)
      BY DEF FilesIInv
    <3>2. QED
      BY <1>1, <1>3, <2>5, <3>1 DEF NamesOfBars
  <2>9. ~HoldsTurn(v)'
    BY <2>5 DEF HoldsTurn
  <2>10. NamedAreStored' /\ NamedByLatest' /\ \A b \in stored' : names'[b.isin] # Unnamed
    BY <1>3, NamesStay
  <2>11. QED
    BY <1>3, <2>4, <2>5, <2>6, <2>7, <2>8, <2>9, <2>10, StepOfARun
<1>9. QED
  BY <1>4, <1>7, <1>8 DEF changed

\* A run takes its turn only while no other holds one.
LEMMA TurnKeeps ==
  ASSUME FilesIInv, NEW v \in Exchanges, TakeTurn(v)
  PROVE  FilesIInv'
<1> DEFINE run == fileRuns[v]
<1>1. BhavcopiesTypeOK /\ run \in FileRun /\ run.phase = "waiting"
  BY DEF FilesIInv, BhavcopiesTypeOK, TakeTurn
<1>2. UNCHANGED <<copies, stored, names, outcomes, runsLeft, namedAt>>
  BY DEF TakeTurn
<1>3. RunIs(v, "turn", run.left, run.day, run.bars, run.changed, run.read)
  BY <1>1, TurnStep DEF BhavcopiesTypeOK, TakeTurn
<1>4. fileRuns' \in [Exchanges -> FileRun]
  <2>1. fileRuns' = [u \in Exchanges |-> fileRuns'[u]]
    BY <1>1 DEF BhavcopiesTypeOK, TakeTurn
  <2>2. QED
    BY <1>1, <1>3, <2>1, RunTyped DEF BhavcopiesTypeOK, FileRun
<1>5. BhavcopiesTypeOK'
  BY <1>1, <1>2, <1>4 DEF BhavcopiesTypeOK
<1>6. /\ fileRuns'[v].phase = "turn" /\ fileRuns'[v].day = run.day
      /\ fileRuns'[v].bars = run.bars /\ fileRuns'[v].changed = run.changed
      /\ fileRuns'[v].read = run.read
      /\ \A u \in Exchanges : u # v => fileRuns'[u] = fileRuns[u]
  BY <1>3 DEF RunIs
<1>7. (ReadInOrder(v) /\ NamesBeforeBars(v) /\ NamesOfBars(v))'
  <2>1. ReadInOrder(v) /\ NamesBeforeBars(v) /\ NamesOfBars(v)
    BY DEF FilesIInv
  <2>2. QED
    BY <1>1, <1>2, <1>6, <2>1 DEF ReadInOrder, NamesBeforeBars, NamesOfBars, SeenBy, Names
<1>8. \A u \in Exchanges : ~HoldsTurn(u)
  BY DEF TakeTurn
<1>9. NamedAreStored' /\ NamedByLatest' /\ \A b \in stored' : names'[b.isin] # Unnamed
  BY <1>2, NamesStay
<1>10. QED
  BY <1>2, <1>5, <1>6, <1>7, <1>8, <1>9, StepOfARun

-----------------------------------------------------------------------------
\* Introducing a day's instruments remembers the names the day is about to store.
LEMMA IntroduceKeeps ==
  ASSUME FilesIInv, NEW v \in Exchanges, Introduce(v)
  PROVE  FilesIInv'
<1> DEFINE run  == fileRuns[v]
           seen == {b.isin: b \in run.bars}
           read == [i \in Isins |-> IF Names(v) /\ i \in seen /\ run.day > run.read[i]
                                    THEN run.day ELSE run.read[i]]
<1>1. /\ BhavcopiesTypeOK /\ run \in FileRun /\ run.phase = "turn"
      /\ ReadInOrder(v) /\ NamesBeforeBars(v) /\ NamesOfBars(v)
  BY DEF FilesIInv, BhavcopiesTypeOK, Introduce
<1>2. UNCHANGED <<copies, stored, names, outcomes, runsLeft, namedAt>>
  BY DEF Introduce
<1>3. run.day \in FileDays
  BY <1>1 DEF ReadInOrder
<1>4. \A i \in Isins : run.read[i] \in FileDays \union {0}
  BY <1>1 DEF FileRun
<1>5. read \in [Isins -> FileDays \union {0}]
  BY <1>3, <1>4
<1>6. fileRuns' = [fileRuns EXCEPT ![v].phase = "introduced", ![v].read = read]
  BY DEF Introduce
<1>7. \A i \in Isins : read[i] = run.read[i] \/ (i \in seen /\ read[i] = run.day)
  OBVIOUS
<1> HIDE DEF read
<1>8. RunIs(v, "introduced", run.left, run.day, run.bars, run.changed, read)
  BY <1>1, <1>6, IntroduceStep DEF BhavcopiesTypeOK
<1>9. fileRuns' \in [Exchanges -> FileRun]
  <2>1. fileRuns' = [u \in Exchanges |-> fileRuns'[u]]
    BY <1>1, <1>6 DEF BhavcopiesTypeOK
  <2>2. /\ run.left \in SUBSET FileDays /\ run.day \in FileDays \union {0}
        /\ run.bars \in SUBSET StoredBar /\ run.changed \in SUBSET StoredBar
    BY <1>1 DEF FileRun
  <2>3. QED
    BY <1>1, <1>5, <1>8, <2>1, <2>2, RunTyped DEF BhavcopiesTypeOK
<1>10. BhavcopiesTypeOK'
  BY <1>1, <1>2, <1>9 DEF BhavcopiesTypeOK
<1>11. /\ fileRuns'[v].phase = "introduced" /\ fileRuns'[v].day = run.day
       /\ fileRuns'[v].bars = run.bars /\ fileRuns'[v].changed = run.changed
       /\ fileRuns'[v].read = read
       /\ \A u \in Exchanges : u # v => fileRuns'[u] = fileRuns[u]
  BY <1>8 DEF RunIs
<1>12. ReadInOrder(v)' /\ NamesBeforeBars(v)'
  BY <1>1, <1>2, <1>11 DEF ReadInOrder, NamesBeforeBars, Names
<1>13. NamesOfBars(v)'
  <2> SUFFICES ASSUME NEW i \in Isins, read[i] # 0
               PROVE  \/ \E b \in stored : b.isin = i /\ b.venue = v /\ b.day = read[i]
                      \/ i \in seen /\ read[i] = run.day
    BY <1>2, <1>11 DEF NamesOfBars, SeenBy
  <2>1. QED
    BY <1>1, <1>7 DEF NamesOfBars
<1>14. \A u \in Exchanges : u # v => ~HoldsTurn(u)
  BY <1>1 DEF HoldsTurn, FilesIInv
<1>15. NamedAreStored' /\ NamedByLatest' /\ \A b \in stored' : names'[b.isin] # Unnamed
  BY <1>2, NamesStay
<1>16. QED
  BY <1>2, <1>10, <1>11, <1>12, <1>13, <1>14, <1>15, StepOfARun

\* Storing a day's bars: each is of an instrument named by then, and a name that
\* stands for a bar read to the end stands still, the bar being the latest before too.
LEMMA StoreKeeps ==
  ASSUME FilesIInv, NEW v \in Exchanges, StoreFile(v)
  PROVE  FilesIInv'
<1> DEFINE run == fileRuns[v]
           day == run.day
           fresh == run.bars \union run.changed
<1>1. /\ BhavcopiesTypeOK /\ run \in FileRun /\ run.phase = "introduced"
      /\ ReadInOrder(v) /\ NamesBeforeBars(v) /\ NamesOfBars(v)
  BY DEF FilesIInv, BhavcopiesTypeOK, StoreFile
<1>2. /\ UNCHANGED <<copies, runsLeft, namedAt>> /\ stored' = stored \union fresh
      /\ names' = [i \in Isins |-> IF i \in Brought(v) /\ names[i] = Unnamed
                                   THEN <<v, day>> ELSE names[i]]
      /\ outcomes' = [outcomes EXCEPT ![v][day] = "succeeded"]
      /\ fileRuns' = [fileRuns EXCEPT ![v] = [NotRunning EXCEPT !.phase = "reading",
                         !.left = run.left \ {day}, !.read = run.read]]
  BY DEF StoreFile
<1>3. day \in FileDays /\ <<v, day>> # Unnamed
  BY <1>1, DaysAreNumbers DEF ReadInOrder, Unnamed
<1>4. \A b \in fresh : b \in StoredBar /\ b.venue = v /\ b.day = day /\ b.isin \in Isins
  BY <1>1 DEF FileRun, ReadInOrder, StoredBar
<1>5. \A b \in fresh : names[b.isin] # Unnamed \/ b.isin \in Brought(v)
  BY <1>1 DEF NamesBeforeBars, Brought
<1> HIDE DEF day, fresh
<1>6. RunIs(v, "reading", run.left \ {day}, 0, {}, {}, run.read)
  BY <1>1, <1>2, StoreStep DEF BhavcopiesTypeOK
<1>7. \A i \in Isins : /\ names[i] # Unnamed => names'[i] = names[i]
                       /\ i \in Brought(v) => names'[i] # Unnamed
  BY <1>2, <1>3
<1>8. BhavcopiesTypeOK'
  <2>1. fileRuns' = [u \in Exchanges |-> fileRuns'[u]]
    BY <1>1, <1>2 DEF BhavcopiesTypeOK
  <2>2. /\ run.left \ {day} \in SUBSET FileDays /\ 0 \in FileDays \union {0}
        /\ {} \in SUBSET StoredBar /\ run.read \in [Isins -> FileDays \union {0}]
    BY <1>1 DEF FileRun
  <2>3. fileRuns' \in [Exchanges -> FileRun]
    BY <1>1, <1>6, <2>1, <2>2, RunTyped DEF BhavcopiesTypeOK
  <2>4. outcomes' \in [Exchanges -> [FileDays -> {"none", "succeeded", "not_published", "failed"}]]
    BY <1>1, <1>2, <1>3 DEF BhavcopiesTypeOK
  <2>5. stored' \subseteq StoredBar
    BY <1>1, <1>2, <1>4 DEF BhavcopiesTypeOK
  <2>6. names' \in [Isins -> {Unnamed} \union (Exchanges \X FileDays)]
    BY <1>1, <1>2, <1>3 DEF BhavcopiesTypeOK
  <2>7. UNCHANGED <<copies, runsLeft, namedAt>>
    BY <1>2
  <2>8. QED
    BY <1>1, <2>3, <2>4, <2>5, <2>6, <2>7 DEF BhavcopiesTypeOK
<1>9. /\ fileRuns'[v].phase = "reading" /\ fileRuns'[v].bars = {} /\ fileRuns'[v].changed = {}
      /\ fileRuns'[v].read = run.read
      /\ \A u \in Exchanges : u # v => fileRuns'[u] = fileRuns[u]
  BY <1>6 DEF RunIs
<1>10. ReadInOrder(v)' /\ NamesBeforeBars(v)'
  BY <1>9 DEF ReadInOrder, NamesBeforeBars
<1>11. NamesOfBars(v)'
  <2> SUFFICES ASSUME NEW i \in Isins, run.read[i] # 0
               PROVE  \E b \in stored' : b.isin = i /\ b.venue = v /\ b.day = run.read[i]
    BY <1>9 DEF NamesOfBars
  <2>1. \/ \E b \in stored : b.isin = i /\ b.venue = v /\ b.day = run.read[i]
        \/ i \in SeenBy(v) /\ run.read[i] = day
    BY <1>1 DEF NamesOfBars, day
  <2>2. i \in SeenBy(v) => \E b \in fresh : b.isin = i
    BY DEF SeenBy, fresh
  <2>3. QED
    BY <1>2, <1>4, <2>1, <2>2
<1>12. \A b \in stored : b.isin \in Isins /\ b.venue \in Exchanges /\ b.day \in FileDays
                          /\ names'[b.isin] = names[b.isin] /\ names[b.isin] # Unnamed
  BY <1>1, <1>7 DEF FilesIInv, BhavcopiesTypeOK, StoredBar
<1>13. \A b \in stored' : names'[b.isin] # Unnamed
  BY <1>2, <1>4, <1>5, <1>7, <1>12
<1>14. NamedAreStored'
  BY <1>2 DEF FilesIInv, NamedAreStored
<1>15. NamedByLatest'
  <2> SUFFICES ASSUME NEW b \in stored', IsLatest(b)', <<b.isin, b.venue, b.day>> \in namedAt
               PROVE  names'[b.isin] = <<b.venue, b.day>>
    BY <1>2 DEF NamedByLatest
  <2>1. b.isin \in Isins /\ b.venue \in Exchanges /\ b.day \in FileDays
    BY <1>8 DEF BhavcopiesTypeOK, StoredBar
  <2>2. PICK c \in stored : c.isin = b.isin /\ c.venue = b.venue /\ c.day = b.day
    BY <2>1 DEF FilesIInv, NamedAreStored
  <2>3. IsLatest(c)
    BY <1>2, <2>2 DEF IsLatest, Outranks
  <2>4. names[c.isin] = <<c.venue, c.day>>
    BY <2>2, <2>3 DEF FilesIInv, NamedByLatest
  <2>5. QED
    BY <1>12, <2>2, <2>4
<1>16. ~HoldsTurn(v)'
  BY <1>9 DEF HoldsTurn
<1>17. stored \subseteq stored' /\ \A i \in Isins : names[i] # Unnamed => names'[i] # Unnamed
  BY <1>2, <1>7
<1>18. QED
  BY <1>8, <1>9, <1>10, <1>11, <1>13, <1>14, <1>15, <1>16, <1>17, StepOfARun

\* A run that ends early leaves what it stored, and nothing of its transaction.
LEMMA InterruptKeeps ==
  ASSUME FilesIInv, NEW v \in Exchanges, Interrupt(v)
  PROVE  FilesIInv'
<1>1. UNCHANGED <<copies, stored, names, outcomes, runsLeft, namedAt>>
  BY DEF Interrupt
<1>2. /\ NotRunning \in FileRun /\ NotRunning.phase = "idle" /\ NotRunning.bars = {}
      /\ NotRunning.changed = {} /\ \A i \in Isins : NotRunning.read[i] = 0
  BY DEF NotRunning, FileRun
<1>3. /\ fileRuns' \in [Exchanges -> FileRun] /\ fileRuns'[v] = NotRunning
      /\ \A u \in Exchanges : u # v => fileRuns'[u] = fileRuns[u]
  BY <1>2 DEF Interrupt, FilesIInv, BhavcopiesTypeOK
<1>4. BhavcopiesTypeOK'
  BY <1>1, <1>3 DEF FilesIInv, BhavcopiesTypeOK
<1>5. (ReadInOrder(v) /\ NamesBeforeBars(v) /\ NamesOfBars(v))' /\ ~HoldsTurn(v)'
  BY <1>2, <1>3 DEF ReadInOrder, NamesBeforeBars, NamesOfBars, HoldsTurn
<1>6. NamedAreStored' /\ NamedByLatest' /\ \A b \in stored' : names'[b.isin] # Unnamed
  BY <1>1, NamesStay
<1>7. QED
  BY <1>1, <1>3, <1>4, <1>5, <1>6, StepOfARun

-----------------------------------------------------------------------------
\* The latest day of an instrument is one it has a bar of, and no earlier than any.
LEMMA LatestIsLatest ==
  ASSUME stored \subseteq StoredBar, NEW isin, NEW venues
  PROVE  LET own == {s \in stored : s.isin = isin /\ s.venue \in venues}
         IN  /\ own = {} => LatestDay(isin, venues) = 0
             /\ own # {} => \E b \in own : b.day = LatestDay(isin, venues)
             /\ \A b \in own : b.day <= LatestDay(isin, venues)
<1> DEFINE own  == {s \in stored : s.isin = isin /\ s.venue \in venues}
           days == {b.day : b \in own}
<1>1. LatestDay(isin, venues) = IF days = {} THEN 0 ELSE CHOOSE d \in days: \A e \in days: e <= d
  BY DEF LatestDay
<1>2. days \subseteq FileDays
  BY DEF StoredBar
<1>3. days \subseteq Nat /\ IsFiniteSet(days)
  BY <1>2, DaysAreNumbers, FS_Subset
<1>4. days = {} <=> own = {}
  OBVIOUS
<1> HIDE DEF days
<1>5. days # {} => \E d \in days : \A e \in days : e <= d
  BY <1>3, GreatestNatural
<1>6. days # {} => /\ LatestDay(isin, venues) \in days
                   /\ \A e \in days : e <= LatestDay(isin, venues)
  BY <1>1, <1>5
<1>7. \A b \in own : b.day \in days
  BY DEF days
<1>8. \A d \in days : \E b \in own : b.day = d
  BY DEF days
<1> HIDE DEF own
<1>9. /\ own = {} => LatestDay(isin, venues) = 0
      /\ own # {} => \E b \in own : b.day = LatestDay(isin, venues)
      /\ \A b \in own : b.day <= LatestDay(isin, venues)
  BY <1>1, <1>4, <1>6, <1>7, <1>8
<1>10. QED
  BY <1>9 DEF own

\* The bar a name read is of, at the end of a run.
LEMMA NameOfABar ==
  ASSUME FilesIInv, NEW v \in Exchanges, fileRuns[v].phase = "reading",
         NEW i \in Isins, fileRuns[v].read[i] # 0
  PROVE  \E b \in stored : b.isin = i /\ b.venue = v /\ b.day = fileRuns[v].read[i]
  BY DEF FilesIInv, NamesOfBars

\* A name read is written where the venue's bar is the latest of the instrument, and
\* nowhere where another bar is.
LEMMA RenamesTheLatest ==
  ASSUME FilesIInv, NEW v \in Exchanges, fileRuns[v].phase = "reading",
         NEW b \in stored, IsLatest(b), fileRuns[v].read[b.isin] # 0
  PROVE  /\ b.venue = v /\ fileRuns[v].read[b.isin] >= b.day =>
              Renames(v, b.isin) /\ fileRuns[v].read[b.isin] = b.day
         /\ Renames(v, b.isin) => b.venue = v /\ fileRuns[v].read[b.isin] = b.day
<1> DEFINE i == b.isin
           day == fileRuns[v].read[i]
           all == {s \in stored : s.isin = i /\ s.venue \in Exchanges}
           others == {s \in stored : s.isin = i /\ s.venue \in Exchanges \ {v}}
<1>1. stored \subseteq StoredBar
  BY DEF FilesIInv, BhavcopiesTypeOK
<1>2. \A c \in stored : c.isin \in Isins /\ c.venue \in Exchanges /\ c.day \in Nat /\ c.day # 0
  BY <1>1, DaysAreNumbers DEF StoredBar
<1>3. PICK c \in stored : c.isin = i /\ c.venue = v /\ c.day = day
  BY <1>2, NameOfABar
<1>4. Outranks(b, c)
  BY <1>3 DEF IsLatest
<1>5. /\ \E s \in all : s.day = LatestDay(i, Exchanges)
      /\ \A s \in all : s.day <= LatestDay(i, Exchanges)
  BY <1>1, <1>2, <1>3, LatestIsLatest
<1>6. /\ others = {} => LatestDay(i, Exchanges \ {v}) = 0
      /\ others # {} => \E s \in others : s.day = LatestDay(i, Exchanges \ {v})
      /\ \A s \in others : s.day <= LatestDay(i, Exchanges \ {v})
  BY <1>1, LatestIsLatest
<1> DEFINE last == LatestDay(i, Exchanges)
           lastOfOthers == LatestDay(i, Exchanges \ {v})
<1>7. \A s \in all : Outranks(b, s)
  BY DEF IsLatest
<1>8. b \in all /\ (b.venue # v => b \in others)
  BY <1>2
<1>9. Renames(v, i) <=> day # 0 /\ last <= day /\ (v = "BSE" \/ lastOfOthers # day)
  BY DEF Renames
<1> HIDE DEF last, lastOfOthers
<1>10. last \in Nat /\ last = b.day
  <2>1. PICK s \in all : s.day = last
    BY <1>5 DEF last
  <2>2. s.day <= b.day
    BY <1>2, <1>7, <2>1 DEF Outranks
  <2>3. b.day <= last
    BY <1>5, <1>8 DEF last
  <2>4. QED
    BY <1>2, <2>1, <2>2, <2>3
<1>11. lastOfOthers \in Nat
  <2>1. CASE others = {}
    BY <1>6, <2>1 DEF lastOfOthers
  <2>2. CASE others # {}
    <3>1. PICK s \in others : s.day = lastOfOthers
      BY <1>6, <2>2 DEF lastOfOthers
    <3>2. QED
      BY <1>2, <3>1
  <2>3. QED
    BY <2>1, <2>2
<1>12. ASSUME b.venue = v, day >= b.day
       PROVE  Renames(v, i) /\ day = b.day
  <2>1. day = b.day
    BY <1>2, <1>3, <1>4, <1>12 DEF Outranks
  <2>2. v # "BSE" => lastOfOthers # day
    <3>1. SUFFICES ASSUME v # "BSE", lastOfOthers = day PROVE FALSE
      OBVIOUS
    <3>2. others # {}
      BY <1>2, <1>6, <2>1, <3>1 DEF lastOfOthers
    <3>3. PICK s \in others : s.day = day
      BY <1>6, <3>1, <3>2 DEF lastOfOthers
    <3>4. s \in all /\ s.venue # v
      BY <3>3
    <3>5. b.day = s.day /\ b.venue \in {s.venue, "BSE"}
      BY <1>2, <1>7, <2>1, <3>3, <3>4 DEF Outranks
    <3>6. QED
      BY <1>12, <3>1, <3>4, <3>5
  <2>3. QED
    BY <1>2, <1>9, <1>10, <2>1, <2>2
<1>13. ASSUME Renames(v, i)
       PROVE  b.venue = v /\ day = b.day
  <2>1. day = b.day
    BY <1>2, <1>3, <1>4, <1>9, <1>10, <1>13 DEF Outranks
  <2>2. b.venue = v
    <3>1. SUFFICES ASSUME b.venue # v PROVE FALSE
      OBVIOUS
    <3>2. b.venue = "BSE" /\ v # "BSE"
      BY <1>2, <1>3, <1>4, <2>1, <3>1 DEF Outranks
    <3>3. b.day <= lastOfOthers
      BY <1>6, <1>8, <3>1 DEF lastOfOthers
    <3>4. lastOfOthers <= last
      <4>1. CASE others = {}
        BY <1>8, <3>1, <4>1
      <4>2. CASE others # {}
        <5>1. PICK s \in others : s.day = lastOfOthers
          BY <1>6, <4>2 DEF lastOfOthers
        <5>2. s \in all
          BY <5>1
        <5>3. QED
          BY <1>5, <5>1, <5>2 DEF last
      <4>3. QED
        BY <4>1, <4>2
    <3>5. QED
      BY <1>2, <1>9, <1>10, <1>11, <1>13, <2>1, <3>2, <3>3, <3>4
  <2>3. QED
    BY <2>1, <2>2
<1>14. QED
  BY <1>12, <1>13

\* The end of a run: the names it writes are of the latest bars, and it writes those
\* of all it read.
LEMMA NamingKeeps ==
  ASSUME FilesIInv, NEW v \in Exchanges, NameInstruments(v)
  PROVE  FilesIInv'
<1> DEFINE run == fileRuns[v]
<1>1. /\ BhavcopiesTypeOK /\ run \in FileRun /\ run.phase = "reading"
      /\ NamesOfBars(v)
  BY DEF FilesIInv, BhavcopiesTypeOK, NameInstruments
<1>2. UNCHANGED <<copies, stored, outcomes, runsLeft>>
  BY DEF NameInstruments
<1>3. names' = [i \in Isins |-> IF Renames(v, i) THEN <<v, run.read[i]>> ELSE names[i]]
  BY DEF NameInstruments
<1>4. namedAt' = namedAt \union {<<i, v, run.read[i]>> : i \in {j \in Isins : run.read[j] # 0}}
  BY DEF NameInstruments
<1>5. /\ NotRunning \in FileRun /\ NotRunning.phase = "idle" /\ NotRunning.bars = {}
      /\ NotRunning.changed = {} /\ \A i \in Isins : NotRunning.read[i] = 0
  BY DEF NotRunning, FileRun
<1>6. /\ fileRuns' \in [Exchanges -> FileRun] /\ fileRuns'[v] = NotRunning
      /\ \A u \in Exchanges : u # v => fileRuns'[u] = fileRuns[u]
  BY <1>1, <1>5 DEF NameInstruments, BhavcopiesTypeOK
<1>7. \A i \in Isins : run.read[i] \in FileDays \union {0}
  BY <1>1 DEF FileRun
<1>8. \A i \in Isins : Renames(v, i) => run.read[i] \in FileDays /\ run.read[i] # 0
  BY <1>7 DEF Renames
<1>9. BhavcopiesTypeOK'
  <2>1. names' \in [Isins -> {Unnamed} \union (Exchanges \X FileDays)]
    BY <1>1, <1>3, <1>8 DEF BhavcopiesTypeOK
  <2>2. namedAt' \subseteq Isins \X Exchanges \X FileDays
    BY <1>1, <1>4, <1>7 DEF BhavcopiesTypeOK
  <2>3. QED
    BY <1>1, <1>2, <1>6, <2>1, <2>2 DEF BhavcopiesTypeOK
<1>10. \A i \in Isins : names[i] # Unnamed => names'[i] # Unnamed
  <2>1. \A i \in Isins : <<v, run.read[i]>> # Unnamed
    BY DEF Unnamed, Exchanges
  <2>2. QED
    BY <1>3, <2>1
<1>11. ReadInOrder(v)' /\ NamesBeforeBars(v)' /\ NamesOfBars(v)'
  BY <1>5, <1>6 DEF ReadInOrder, NamesBeforeBars, NamesOfBars
<1>12. \A b \in stored : b.isin \in Isins /\ b.venue \in Exchanges /\ b.day \in Nat /\ b.day # 0
  BY <1>1, DaysAreNumbers DEF BhavcopiesTypeOK, StoredBar
<1>13. \A b \in stored' : names'[b.isin] # Unnamed
  BY <1>2, <1>10, <1>12 DEF FilesIInv
<1>14. NamedAreStored'
  <2> SUFFICES ASSUME NEW i \in Isins, NEW u \in Exchanges, NEW d \in FileDays,
                      <<i, u, d>> \in namedAt'
               PROVE  \E b \in stored : b.isin = i /\ b.venue = u /\ b.day = d
    BY <1>2 DEF NamedAreStored
  <2>1. CASE <<i, u, d>> \in namedAt
    BY <2>1 DEF FilesIInv, NamedAreStored
  <2>2. CASE u = v /\ d = run.read[i] /\ run.read[i] # 0
    BY <1>1, <2>2 DEF NamesOfBars
  <2>3. QED
    BY <1>4, <2>1, <2>2
<1>15. NamedByLatest'
  <2> SUFFICES ASSUME NEW b \in stored, IsLatest(b), <<b.isin, b.venue, b.day>> \in namedAt'
               PROVE  names'[b.isin] = <<b.venue, b.day>>
    BY <1>2 DEF NamedByLatest, IsLatest, Outranks
  <2>1. run.read[b.isin] # 0 =>
          /\ b.venue = v /\ run.read[b.isin] >= b.day => Renames(v, b.isin) /\ run.read[b.isin] = b.day
          /\ Renames(v, b.isin) => b.venue = v /\ run.read[b.isin] = b.day
    BY <1>1, RenamesTheLatest
  <2>2. CASE Renames(v, b.isin)
    BY <1>3, <1>8, <1>12, <2>1, <2>2
  <2>3. CASE ~Renames(v, b.isin)
    <3>1. names'[b.isin] = names[b.isin]
      BY <1>3, <1>12, <2>3
    <3>2. <<b.isin, b.venue, b.day>> \in namedAt
      <4>1. SUFFICES ASSUME b.venue = v, b.day = run.read[b.isin], run.read[b.isin] # 0
                     PROVE  FALSE
        BY <1>4
      <4>2. run.read[b.isin] >= b.day
        BY <1>12, <4>1
      <4>3. QED
        BY <2>1, <2>3, <4>1, <4>2
    <3>3. QED
      BY <3>1, <3>2 DEF FilesIInv, NamedByLatest
  <2>4. QED
    BY <2>2, <2>3
<1>16. ~HoldsTurn(v)'
  BY <1>5, <1>6 DEF HoldsTurn
<1>17. stored \subseteq stored'
  BY <1>2
<1>18. QED
  BY <1>6, <1>9, <1>10, <1>11, <1>13, <1>14, <1>15, <1>16, <1>17, StepOfARun

-----------------------------------------------------------------------------
\* The parts of the invariant hold between any two steps.
LEMMA FilesNextInvariant == FilesIInv /\ [BhavcopiesNext]_fileVars => FilesIInv'
<1> SUFFICES ASSUME FilesIInv, [BhavcopiesNext]_fileVars PROVE FilesIInv'
  OBVIOUS
<1>1. CASE UNCHANGED fileVars
  <2>1. \A v \in Exchanges : (ReadInOrder(v) /\ NamesBeforeBars(v) /\ NamesOfBars(v))'
    BY <1>1, OtherRunsKeep DEF fileVars
  <2>2. NamedAreStored' /\ NamedByLatest' /\ \A b \in stored' : names'[b.isin] # Unnamed
    BY <1>1, NamesStay DEF fileVars
  <2>3. BhavcopiesTypeOK' /\ \A u, v \in Exchanges : HoldsTurn(u)' /\ HoldsTurn(v)' => u = v
    BY <1>1 DEF FilesIInv, fileVars, BhavcopiesTypeOK, HoldsTurn
  <2>4. QED
    BY ONLY <2>1, <2>2, <2>3 DEF FilesIInv
<1>2. CASE BhavcopiesNext
  BY <1>2, StartKeeps, ReadKeeps, TurnKeeps, IntroduceKeeps, StoreKeeps, NamingKeeps,
     InterruptKeeps
  DEF BhavcopiesNext
<1>3. QED
  BY <1>1, <1>2

\* What the invariant says of the latest day of an instrument.
LEMMA NamesFollow == FilesIInv => NamesFollowLatestDay
<1> SUFFICES ASSUME FilesIInv, NEW c \in stored
             PROVE  LET i == c.isin
                        d == LatestDay(i, Exchanges)
                        v == IF \E b \in stored: b.isin = i /\ b.day = d /\ b.venue = "BSE"
                             THEN "BSE" ELSE "NSE"
                    IN  <<i, v, d>> \in namedAt => names[i] = <<v, d>>
  BY DEF NamesFollowLatestDay
<1> DEFINE i == c.isin
           d == LatestDay(i, Exchanges)
           v == IF \E b \in stored: b.isin = i /\ b.day = d /\ b.venue = "BSE" THEN "BSE" ELSE "NSE"
           own == {s \in stored : s.isin = i /\ s.venue \in Exchanges}
<1>1. stored \subseteq StoredBar
  BY DEF FilesIInv, BhavcopiesTypeOK
<1>2. \A b \in stored : b.isin \in Isins /\ b.venue \in Exchanges /\ b.day \in Nat /\ b.day # 0
  BY <1>1, DaysAreNumbers DEF StoredBar
<1>3. (\E s \in own : s.day = d) /\ \A s \in own : s.day <= d
  BY <1>1, <1>2, LatestIsLatest
<1> HIDE DEF d
<1>4. PICK b \in stored : b.isin = i /\ b.day = d /\ b.venue = v
  BY <1>2, <1>3 DEF Exchanges
<1>5. IsLatest(b)
  <2> SUFFICES ASSUME NEW s \in stored, s.isin = i PROVE Outranks(b, s)
    BY <1>4 DEF IsLatest
  <2>1. s.day <= d
    BY <1>2, <1>3
  <2>2. s.day = d /\ s.venue # v => v = "BSE"
    BY <1>2 DEF Exchanges
  <2>3. QED
    BY <1>2, <1>4, <2>1, <2>2 DEF Outranks
<1>6. <<i, v, d>> \in namedAt => names[i] = <<v, d>>
  BY <1>4, <1>5 DEF FilesIInv, NamedByLatest
<1>7. QED
  BY <1>6 DEF d

\* Two venues read their files at once, in any order and any number of times, refused,
\* absent, corrected or read by scrip code, and ended at any moment: neither can block
\* the other for good, no bar is of an instrument the master lacks, and an instrument
\* whose latest stored day a run read to its end bears the name of that day, BSE's
\* where both venues traded it.
THEOREM FilesWriteSafely == BhavcopiesSpec => []BothVenuesWriteSafely
<1>1. FilesIInv => BothVenuesWriteSafely
  <2>1. FilesIInv => WritersTakeTurns
    BY DEF FilesIInv, WritersTakeTurns, WaitsFor, HoldsTurn, Exchanges
  <2>2. QED
    BY <2>1, NamesFollow DEF BothVenuesWriteSafely
<1>2. QED
  BY <1>1, FilesInitInvariant, FilesNextInvariant, PTL DEF BhavcopiesSpec

\* Every part of the files' state has its type.
THEOREM FilesTypeCorrect == BhavcopiesSpec => []BhavcopiesTypeOK
<1>1. FilesIInv => BhavcopiesTypeOK
  BY DEF FilesIInv
<1>2. QED
  BY <1>1, FilesInitInvariant, FilesNextInvariant, PTL DEF BhavcopiesSpec

-----------------------------------------------------------------------------
(* SecurityLists, for any lists, parts, dates and runs.                    *)
(*                                                                         *)
(* The argument: an instrument has at most one version of a date           *)
(* (OneAVersion), so its latest is one version, and what a reading states  *)
(* of an instrument is one name and one value, however ties are broken; a  *)
(* version written now is the only one of the date, and one left as it is  *)
(* states what was read.                                                   *)

\* Versions are dated no later than today, and an instrument has one of a date.
OneAVersion(versions) ==
  /\ \A v \in versions: v.asOf \in Nat /\ v.asOf <= listDate
  /\ \A v, w \in versions: v.isin = w.isin /\ v.asOf = w.asOf => v = w

ListReadings == [part: 0 .. Parts + 1, read: [1 .. Parts -> Moments \union {Unread}],
                 failed: BOOLEAN]

ListsIInv ==
  /\ listDate \in Nat /\ moment \in Moments
  /\ heldParts \in [1 .. Parts -> Moments \union {Unread}]
  /\ listRun \in ListReadings
  /\ OneAVersion(named) /\ OneAVersion(valued)

\* What the rows state of an instrument is one name.
LEMMA OneName ==
  ASSUME NEW rows, NEW f \in NamesByIsin(rows), NEW g \in NamesByIsin(rows), f.isin = g.isin
  PROVE  f = g
  BY DEF NamesByIsin

\* The names written keep one version of a date.
LEMMA NameWritten ==
  ASSUME ListsIInv, NEW rows
  PROVE  OneAVersion(PersistNames(rows))
<1> DEFINE added == {[isin |-> n.isin, asOf |-> listDate, name |-> n.name]:
                       n \in {f \in FreshNames(rows): ~StoredOn(named, f.isin)}}
<1>1. PersistNames(rows) = named \union added
  BY DEF PersistNames
<1>2. listDate \in Nat /\ OneAVersion(named)
  BY DEF ListsIInv
<1>3. ASSUME NEW v \in added
      PROVE  /\ v.asOf = listDate
             /\ \A w \in named: ~(v.isin = w.isin /\ v.asOf = w.asOf)
  BY DEF StoredOn
<1>4. ASSUME NEW v \in added, NEW w \in added, v.isin = w.isin
      PROVE  v = w
  <2>1. PICK f \in FreshNames(rows): v = [isin |-> f.isin, asOf |-> listDate, name |-> f.name]
    OBVIOUS
  <2>2. PICK g \in FreshNames(rows): w = [isin |-> g.isin, asOf |-> listDate, name |-> g.name]
    OBVIOUS
  <2>3. f \in NamesByIsin(rows) /\ g \in NamesByIsin(rows) /\ f.isin = g.isin
    BY <1>4, <2>1, <2>2 DEF FreshNames
  <2>4. f = g
    BY <2>3, OneName
  <2>5. QED
    BY <2>1, <2>2, <2>4
<1> HIDE DEF added
<1>5. \A v \in named \union added: v.asOf \in Nat /\ v.asOf <= listDate
  BY <1>2, <1>3 DEF OneAVersion
<1>6. \A v, w \in named \union added: v.isin = w.isin /\ v.asOf = w.asOf => v = w
  BY <1>2, <1>3, <1>4 DEF OneAVersion
<1>7. QED
  BY <1>1, <1>5, <1>6 DEF OneAVersion

\* What is written of an instrument stated stands as its latest, unless the
\* date already had a version of it.
LEMMA NameStands ==
  ASSUME ListsIInv, NEW rows, NEW n \in NamesByIsin(rows), n.isin \in Named,
         ~StoredOn(named, n.isin)
  PROVE  {v.name: v \in LatestOf(PersistNames(rows), n.isin)} = {n.name}
<1> DEFINE after == PersistNames(rows)
           stated == [isin |-> n.isin, asOf |-> listDate, name |-> n.name]
<1>1. listDate \in Nat /\ OneAVersion(named) /\ OneAVersion(after)
  BY NameWritten DEF ListsIInv
<1>2. CASE n \in FreshNames(rows)
  <2>1. stated \in after
    BY <1>2 DEF PersistNames
  <2>2. stated.isin = n.isin /\ stated.asOf = listDate /\ stated.name = n.name
    OBVIOUS
  <2> HIDE DEF after, stated
  <2>3. \A v \in after: v.isin = n.isin => v.asOf <= stated.asOf
    BY <1>1, <2>2 DEF OneAVersion
  <2>4. LatestOf(after, n.isin) = {stated}
    <3>1. stated \in LatestOf(after, n.isin)
      BY <2>1, <2>2, <2>3 DEF LatestOf
    <3>2. ASSUME NEW v \in LatestOf(after, n.isin)
          PROVE  v = stated
      <4>1. v \in after /\ v.isin = stated.isin /\ stated.asOf <= v.asOf /\ v.asOf <= stated.asOf
        BY <2>1, <2>2, <2>3 DEF LatestOf
      <4>2. v.asOf \in Nat /\ stated.asOf \in Nat
        BY <1>1, <2>2, <4>1 DEF OneAVersion
      <4>3. v.asOf = stated.asOf
        BY <4>1, <4>2
      <4>4. QED
        BY <1>1, <2>1, <4>1, <4>3 DEF OneAVersion
    <3>3. QED
      BY <3>1, <3>2
  <2>5. QED
    BY <2>2, <2>4 DEF after
<1>3. CASE n \notin FreshNames(rows)
  <2>1. PICK v \in LatestOf(named, n.isin): v.name = n.name
    BY <1>3 DEF FreshNames
  <2>2. \A w \in after: w.isin = n.isin => w \in named
    <3>1. SUFFICES ASSUME NEW w \in after, w.isin = n.isin, w \notin named PROVE FALSE
      OBVIOUS
    <3>2. PICK f \in FreshNames(rows): w = [isin |-> f.isin, asOf |-> listDate, name |-> f.name]
      BY <3>1 DEF PersistNames
    <3>3. f \in NamesByIsin(rows) /\ f.isin = n.isin
      BY <3>1, <3>2 DEF FreshNames
    <3>4. f = n
      BY <3>3, OneName
    <3>5. QED
      BY <1>3, <3>4
  <2>3. named \subseteq after
    BY DEF PersistNames
  <2> HIDE DEF after
  <2>4. LatestOf(after, n.isin) = LatestOf(named, n.isin)
    BY <2>2, <2>3 DEF LatestOf
  <2>5. LatestOf(named, n.isin) = {v}
    <3>1. ASSUME NEW w \in LatestOf(named, n.isin)
          PROVE  w = v
      <4>1. /\ v \in named /\ w \in named /\ v.isin = w.isin
            /\ v.asOf <= w.asOf /\ w.asOf <= v.asOf
        BY <2>1 DEF LatestOf
      <4>2. v.asOf \in Nat /\ w.asOf \in Nat
        BY <1>1, <4>1 DEF OneAVersion
      <4>3. v.asOf = w.asOf
        BY <4>1, <4>2
      <4>4. QED
        BY <1>1, <4>1, <4>3 DEF OneAVersion
    <3>2. QED
      BY <2>1, <3>1
  <2>6. QED
    BY <2>1, <2>4, <2>5 DEF after
<1>4. QED
  BY <1>2, <1>3

\* What the rows state of an instrument is one face value.
LEMMA OneFaceValue ==
  ASSUME NEW rows, NEW f \in FaceValuesByIsin(rows), NEW g \in FaceValuesByIsin(rows), f.isin = g.isin
  PROVE  f = g
<1> DEFINE stating == {l \in rows: l.row.face # Unstated}
           of(isin) == IF lister = "BSE" THEN Chosen(rows, isin) ELSE Chosen(stating, isin)
<1>1. \A h \in FaceValuesByIsin(rows): \E l \in stating:
        h = [isin |-> l.row.isin, value |-> of(l.row.isin).row.face]
  BY DEF FaceValuesByIsin
<1> HIDE DEF of
<1>2. QED
  BY <1>1

\* The face values written keep one version of a date.
LEMMA FaceValueWritten ==
  ASSUME ListsIInv, NEW rows
  PROVE  OneAVersion(PersistFaceValues(rows))
<1> DEFINE added == {[isin |-> n.isin, asOf |-> listDate, value |-> n.value]:
                       n \in {f \in FreshFaceValues(rows): ~StoredOn(valued, f.isin)}}
<1>1. PersistFaceValues(rows) = valued \union added
  BY DEF PersistFaceValues
<1>2. listDate \in Nat /\ OneAVersion(valued)
  BY DEF ListsIInv
<1>3. ASSUME NEW v \in added
      PROVE  /\ v.asOf = listDate
             /\ \A w \in valued: ~(v.isin = w.isin /\ v.asOf = w.asOf)
  BY DEF StoredOn
<1>4. ASSUME NEW v \in added, NEW w \in added, v.isin = w.isin
      PROVE  v = w
  <2>1. PICK f \in FreshFaceValues(rows): v = [isin |-> f.isin, asOf |-> listDate, value |-> f.value]
    OBVIOUS
  <2>2. PICK g \in FreshFaceValues(rows): w = [isin |-> g.isin, asOf |-> listDate, value |-> g.value]
    OBVIOUS
  <2>3. f \in FaceValuesByIsin(rows) /\ g \in FaceValuesByIsin(rows) /\ f.isin = g.isin
    BY <1>4, <2>1, <2>2 DEF FreshFaceValues
  <2>4. f = g
    BY <2>3, OneFaceValue
  <2>5. QED
    BY <2>1, <2>2, <2>4
<1> HIDE DEF added
<1>5. \A v \in valued \union added: v.asOf \in Nat /\ v.asOf <= listDate
  BY <1>2, <1>3 DEF OneAVersion
<1>6. \A v, w \in valued \union added: v.isin = w.isin /\ v.asOf = w.asOf => v = w
  BY <1>2, <1>3, <1>4 DEF OneAVersion
<1>7. QED
  BY <1>1, <1>5, <1>6 DEF OneAVersion

\* What is written of an instrument stated stands as its latest, unless the
\* date already had a version of it.
LEMMA FaceValueStands ==
  ASSUME ListsIInv, NEW rows, NEW n \in FaceValuesByIsin(rows), n.isin \in Named,
         ~StoredOn(valued, n.isin)
  PROVE  {v.value: v \in LatestOf(PersistFaceValues(rows), n.isin)} = {n.value}
<1> DEFINE after == PersistFaceValues(rows)
           stated == [isin |-> n.isin, asOf |-> listDate, value |-> n.value]
<1>1. listDate \in Nat /\ OneAVersion(valued) /\ OneAVersion(after)
  BY FaceValueWritten DEF ListsIInv
<1>2. CASE n \in FreshFaceValues(rows)
  <2>1. stated \in after
    BY <1>2 DEF PersistFaceValues
  <2>2. stated.isin = n.isin /\ stated.asOf = listDate /\ stated.value = n.value
    OBVIOUS
  <2> HIDE DEF after, stated
  <2>3. \A v \in after: v.isin = n.isin => v.asOf <= stated.asOf
    BY <1>1, <2>2 DEF OneAVersion
  <2>4. LatestOf(after, n.isin) = {stated}
    <3>1. stated \in LatestOf(after, n.isin)
      BY <2>1, <2>2, <2>3 DEF LatestOf
    <3>2. ASSUME NEW v \in LatestOf(after, n.isin)
          PROVE  v = stated
      <4>1. v \in after /\ v.isin = stated.isin /\ stated.asOf <= v.asOf /\ v.asOf <= stated.asOf
        BY <2>1, <2>2, <2>3 DEF LatestOf
      <4>2. v.asOf \in Nat /\ stated.asOf \in Nat
        BY <1>1, <2>2, <4>1 DEF OneAVersion
      <4>3. v.asOf = stated.asOf
        BY <4>1, <4>2
      <4>4. QED
        BY <1>1, <2>1, <4>1, <4>3 DEF OneAVersion
    <3>3. QED
      BY <3>1, <3>2
  <2>5. QED
    BY <2>2, <2>4 DEF after
<1>3. CASE n \notin FreshFaceValues(rows)
  <2>1. PICK v \in LatestOf(valued, n.isin): v.value = n.value
    BY <1>3 DEF FreshFaceValues
  <2>2. \A w \in after: w.isin = n.isin => w \in valued
    <3>1. SUFFICES ASSUME NEW w \in after, w.isin = n.isin, w \notin valued PROVE FALSE
      OBVIOUS
    <3>2. PICK f \in FreshFaceValues(rows): w = [isin |-> f.isin, asOf |-> listDate, value |-> f.value]
      BY <3>1 DEF PersistFaceValues
    <3>3. f \in FaceValuesByIsin(rows) /\ f.isin = n.isin
      BY <3>1, <3>2 DEF FreshFaceValues
    <3>4. f = n
      BY <3>3, OneFaceValue
    <3>5. QED
      BY <1>3, <3>4
  <2>3. valued \subseteq after
    BY DEF PersistFaceValues
  <2> HIDE DEF after
  <2>4. LatestOf(after, n.isin) = LatestOf(valued, n.isin)
    BY <2>2, <2>3 DEF LatestOf
  <2>5. LatestOf(valued, n.isin) = {v}
    <3>1. ASSUME NEW w \in LatestOf(valued, n.isin)
          PROVE  w = v
      <4>1. /\ v \in valued /\ w \in valued /\ v.isin = w.isin
            /\ v.asOf <= w.asOf /\ w.asOf <= v.asOf
        BY <2>1 DEF LatestOf
      <4>2. v.asOf \in Nat /\ w.asOf \in Nat
        BY <1>1, <4>1 DEF OneAVersion
      <4>3. v.asOf = w.asOf
        BY <4>1, <4>2
      <4>4. QED
        BY <1>1, <4>1, <4>3 DEF OneAVersion
    <3>2. QED
      BY <2>1, <3>1
  <2>6. QED
    BY <2>1, <2>4, <2>5 DEF after
<1>4. QED
  BY <1>2, <1>3

\* Every step of a run, and around the runs, keeps the versions in order.
LEMMA ListsStepInOrder ==
  ASSUME ListsIInv, [ListsNext]_listVars
  PROVE  ListsIInv'
<1>1. CASE WriteLists
  <2>1. UNCHANGED <<moment, listDate, heldParts>> /\ listRun' = NoListRun
    BY <1>1 DEF WriteLists
  <2>2. NoListRun \in ListReadings
    BY SecurityListsAssumption DEF NoListRun, ListReadings
  <2>3. OneAVersion(named) /\ OneAVersion(valued)
    BY DEF ListsIInv
  <2>4. \/ named' = named /\ valued' = valued
        \/ \E rows: named' = PersistNames(rows) /\ valued' = PersistFaceValues(rows)
    BY <1>1 DEF WriteLists
  <2>5. OneAVersion(named') /\ OneAVersion(valued')
    BY <2>3, <2>4, NameWritten, FaceValueWritten
  <2>6. QED
    BY <2>1, <2>2, <2>5 DEF ListsIInv, OneAVersion
<1>2. CASE \/ StartLists \/ KillLists \/ Relist \/ NextListDate \/ DeriveCodesAgain
           \/ UNCHANGED listVars
  <2>1. UNCHANGED <<named, valued>> /\ listDate' \in Nat /\ listDate <= listDate'
    BY <1>2 DEF StartLists, KillLists, Relist, NextListDate, DeriveCodesAgain, listVars, ListsIInv
  <2>2. OneAVersion(named)' /\ OneAVersion(valued)'
    BY <2>1 DEF OneAVersion, ListsIInv
  <2>3. moment' \in Moments /\ heldParts' \in [1 .. Parts -> Moments \union {Unread}]
    BY <1>2 DEF StartLists, KillLists, Relist, NextListDate, DeriveCodesAgain, listVars, ListsIInv
  <2>4. listRun' \in ListReadings
    <3>1. NoListRun \in ListReadings /\ 1 \in 0 .. Parts + 1
      BY SecurityListsAssumption DEF NoListRun, ListReadings
    <3>2. [NoListRun EXCEPT !.part = 1] \in ListReadings
      BY <3>1 DEF ListReadings
    <3>3. \/ listRun' = listRun \/ listRun' = NoListRun
          \/ listRun' = [NoListRun EXCEPT !.part = 1]
      BY <1>2 DEF StartLists, KillLists, Relist, NextListDate, DeriveCodesAgain, listVars
    <3>4. QED
      BY <3>1, <3>2, <3>3 DEF ListsIInv
  <2>5. QED
    BY <2>1, <2>2, <2>3, <2>4 DEF ListsIInv
<1>3. CASE ReadPart
  <2> DEFINE p == listRun.part
  <2>1. UNCHANGED <<moment, listDate, named, valued>> /\ p \in 1 .. Parts
    BY <1>3 DEF ReadPart
  <2>2. heldParts' \in [1 .. Parts -> Moments \union {Unread}]
    BY <1>3 DEF ReadPart, ListsIInv
  <2>3. \/ \E k \in Moments \union {Unread}:
             listRun' = [listRun EXCEPT !.part = @ + 1, !.read = [@ EXCEPT ![p] = k]]
        \/ listRun' = [listRun EXCEPT !.part = @ + 1, !.failed = TRUE]
    BY <1>3 DEF ReadPart, ListsIInv
  <2>4. listRun' \in ListReadings
    <3>1. listRun \in ListReadings /\ p \in 1 .. Parts /\ p + 1 \in 0 .. Parts + 1
      BY <2>1, SecurityListsAssumption DEF ListsIInv
    <3>2. [listRun EXCEPT !.part = @ + 1, !.failed = TRUE] \in ListReadings
      BY <3>1 DEF ListReadings
    <3>3. ASSUME NEW k \in Moments \union {Unread}
          PROVE  [listRun EXCEPT !.part = @ + 1, !.read = [@ EXCEPT ![p] = k]] \in ListReadings
      <4>1. [listRun.read EXCEPT ![p] = k] \in [1 .. Parts -> Moments \union {Unread}]
        BY <3>1 DEF ListReadings
      <4>2. [listRun EXCEPT !.part = @ + 1] \in ListReadings
        BY <3>1 DEF ListReadings
      <4>3. QED
        BY <3>1, <4>1, <4>2 DEF ListReadings
    <3>4. QED
      BY <2>3, <3>2, <3>3
  <2>5. OneAVersion(named)' /\ OneAVersion(valued)'
    BY <2>1 DEF OneAVersion, ListsIInv
  <2>6. QED
    BY <2>1, <2>2, <2>4, <2>5 DEF ListsIInv
<1>4. QED
  BY <1>1, <1>2, <1>3 DEF ListsNext

\* A reading that is whole leaves what the lists say.
LEMMA WholeReadingHeals ==
  ASSUME ListsIInv, WriteLists, ~listRun.failed, NEW k \in Moments,
         \A p \in 1 .. Parts: listRun.read[p] = k,
         NEW isin \in Named, NEW l \in Listed(isin, k)
  PROVE  /\ StoredOn(named, isin) \/ {v.name: v \in LatestOf(named', isin)} = {l.name}
         /\ \/ StoredOn(valued, isin) \/ l.values = {}
            \/ {v.value: v \in LatestOf(valued', isin)} = l.values
<1> DEFINE rows == RowsOf(listRun.read)
<1>1. listRun.read = [p \in 1 .. Parts |-> k]
  BY DEF ListsIInv, ListReadings
<1>2. named' = PersistNames(rows) /\ valued' = PersistFaceValues(rows)
  BY DEF WriteLists
<1>3. PICK n \in NamesByIsin(rows):
        /\ n.isin = isin
        /\ l = [name |-> n.name,
                values |-> {f.value: f \in {g \in FaceValuesByIsin(rows): g.isin = isin}}]
  BY <1>1 DEF Listed
<1> HIDE DEF rows
<1>4. ~StoredOn(named, isin) => {v.name: v \in LatestOf(named', isin)} = {l.name}
  BY <1>2, <1>3, NameStands
<1>5. ASSUME ~StoredOn(valued, isin), l.values # {}
      PROVE  {v.value: v \in LatestOf(valued', isin)} = l.values
  <2>1. PICK f \in FaceValuesByIsin(rows): f.isin = isin
    BY <1>3, <1>5
  <2>2. {v.value: v \in LatestOf(valued', isin)} = {f.value}
    BY <1>2, <1>5, <2>1, FaceValueStands
  <2>3. {g \in FaceValuesByIsin(rows): g.isin = isin} = {f}
    BY <2>1, OneFaceValue
  <2>4. l.values = {f.value}
    BY <1>3, <2>3
  <2>5. QED
    BY <2>2, <2>4
<1>6. QED
  BY <1>4, <1>5

\* For any lists, however often they move, and whatever was read torn, failed,
\* killed or repeated before: a whole reading of lists that did not move leaves
\* every instrument listed under the name and the face value the venue gives it,
\* but for one whose version of the date an earlier reading had stored
\* (assets/ingestion/instrument_names.py).
THEOREM WholeReadingsHealNames == ListsSpec => NamesHealByAWholeReading
<1>1. ListsInit => ListsIInv
  BY SecurityListsAssumption
     DEF ListsInit, ListsIInv, OneAVersion, NoListRun, Moments, ListReadings
<1>2. ListsIInv /\ [ListsNext]_listVars => ListsIInv'
  BY ListsStepInOrder
<1> DEFINE Heals ==
      (WriteLists /\ ~listRun.failed) =>
       \A k \in Moments: (\A p \in 1 .. Parts: listRun.read[p] = k) =>
         \A isin \in Named: \A l \in Listed(isin, k):
           /\ StoredOn(named, isin) \/ {v.name: v \in LatestOf(named', isin)} = {l.name}
           /\ \/ StoredOn(valued, isin) \/ l.values = {}
              \/ {v.value: v \in LatestOf(valued', isin)} = l.values
<1>3. ListsIInv => Heals
  BY WholeReadingHeals
<1> HIDE DEF Heals
<1>4. ListsSpec => [][Heals]_listVars
  BY <1>1, <1>2, <1>3, PTL DEF ListsSpec
<1>5. QED
  BY <1>4 DEF NamesHealByAWholeReading, Heals

\* The rows of a reading are securities the parts read list, a code of an ISIN
\* once in a part.
LEMMA RowsAreListed ==
  ASSUME NEW read \in [1 .. Parts -> Moments \union {Unread}]
  PROVE  /\ \A l \in RowsOf(read) : /\ l = [part |-> l.part, row |-> l.row]
                                    /\ l.part \in Nat /\ l.row \in Security
                                    /\ l.row.isin # Unkeyed
         /\ \A l, m \in RowsOf(read) :
              l.part = m.part /\ l.row.isin = m.row.isin /\ l.row.code = m.row.code => l = m
<1>1. ASSUME NEW l \in RowsOf(read)
      PROVE  /\ l = [part |-> l.part, row |-> l.row]
             /\ l.part \in 1 .. Parts /\ read[l.part] \in Moments
             /\ l.row \in Lists[read[l.part]][l.part] /\ l.row.isin # Unkeyed
  <2>1. PICK p \in {q \in 1 .. Parts: read[q] # Unread} :
          l \in {[part |-> p, row |-> r]: r \in Parsed(Lists[read[p]][p])}
    BY <1>1 DEF RowsOf
  <2>2. PICK r \in Parsed(Lists[read[p]][p]) : l = [part |-> p, row |-> r]
    BY <2>1
  <2>3. r \in Lists[read[p]][p] /\ r.isin # Unkeyed
    BY <2>2 DEF Parsed
  <2>4. p \in 1 .. Parts /\ read[p] \in Moments
    BY <2>1
  <2>5. QED
    BY <2>2, <2>3, <2>4
<1>2. \A k \in Moments, p \in 1 .. Parts : Lists[k][p] \subseteq Security
  BY SecurityListsAssumption DEF Moments
<1>3. ASSUME NEW l \in RowsOf(read)
      PROVE  l.part \in Nat /\ l.row \in Security
  BY <1>1, <1>2
<1>4. ASSUME NEW l \in RowsOf(read), NEW m \in RowsOf(read),
             l.part = m.part, l.row.isin = m.row.isin, l.row.code = m.row.code
      PROVE  l = m
  <2>1. \A k \in Moments, p \in 1 .. Parts : \A r, t \in Lists[k][p] :
          r.code = t.code /\ r.isin = t.isin => r = t
    BY SecurityListsAssumption DEF Moments
  <2>2. /\ l.part \in 1 .. Parts /\ read[l.part] \in Moments
        /\ l.row \in Lists[read[l.part]][l.part] /\ m.row \in Lists[read[l.part]][l.part]
    BY <1>1, <1>4
  <2>3. l.row = m.row
    BY ONLY <1>4, <2>1, <2>2
  <2>4. QED
    BY <1>1, <1>4, <2>3
<1>5. QED
  BY <1>1, <1>3, <1>4

\* The row that stands for an instrument is one of its own: one precedes the rest.
LEMMA ChosenIsOwn ==
  ASSUME NEW read \in [1 .. Parts -> Moments \union {Unread}],
         NEW rows \in SUBSET RowsOf(read), NEW isin, \E l \in rows : l.row.isin = isin
  PROVE  Chosen(rows, isin) \in rows /\ Chosen(rows, isin).row.isin = isin
<1> DEFINE own == {l \in rows : l.row.isin = isin}
           Held(l) == <<l.row.isin, l.row.code>> \in HeldCodes[listStage]
           First(l) == \A m \in own \ {l}:
                         IF lister = "BSE" THEN Precedes(l, m)
                         ELSE l.part < m.part \/ (l.part = m.part /\ l.row.code < m.row.code)
<1>1. /\ \A l \in own : l.part \in Nat /\ l.row.code \in Nat
      /\ \A l, m \in own : l.part = m.part /\ l.row.code = m.row.code => l = m
  BY RowsAreListed DEF Security
<1>2. own # {}
  OBVIOUS
<1>3. Chosen(rows, isin) = CHOOSE l \in own : First(l)
  BY Zenon DEF Chosen
<1>4. \A l, m \in own : Precedes(l, m) <=>
        \/ l.part < m.part
        \/ l.part = m.part /\ Held(l) /\ ~Held(m)
        \/ l.part = m.part /\ (Held(l) <=> Held(m)) /\ l.row.code < m.row.code
  BY Zenon DEF Precedes
<1>5. \E l \in own : First(l)
  <2> HIDE DEF own, Held
  <2>1. PICK least \in own : \A m \in own : least.part <= m.part
    <3> DEFINE S == {l.part : l \in own}
    <3>1. S \subseteq Nat /\ S # {}
      BY <1>1, <1>2
    <3>2. PICK p \in S : \A q \in S : p <= q
      <4> HIDE DEF S
      <4> QED
        BY <3>1, LeastNatural
    <3>3. QED
      BY <3>2
  <2> DEFINE there == {l \in own : l.part = least.part}
             kept == {l \in there : Held(l)}
             best == IF lister = "BSE" /\ kept # {} THEN kept ELSE there
  <2>2. best # {} /\ best \subseteq own
    OBVIOUS
  <2>3. PICK l \in best : \A m \in best : l.row.code <= m.row.code
    <3> HIDE DEF best
    <3> DEFINE S == {m.row.code : m \in best}
    <3>1. S \subseteq Nat /\ S # {}
      BY <1>1, <2>2
    <3>2. PICK c \in S : \A d \in S : c <= d
      <4> HIDE DEF S
      <4> QED
        BY <3>1, LeastNatural
    <3>3. QED
      BY <3>2
  <2>4. ASSUME NEW m \in own \ {l}
        PROVE  IF lister = "BSE" THEN Precedes(l, m)
               ELSE l.part < m.part \/ (l.part = m.part /\ l.row.code < m.row.code)
    <3>1. l \in own /\ l.part = least.part
      BY <2>3
    <3>2. l.part <= m.part /\ l.part \in Nat /\ m.part \in Nat
      BY <1>1, <2>1, <3>1
    <3>3. l.part = m.part /\ m \in best => l.row.code < m.row.code
      <4>1. SUFFICES ASSUME l.part = m.part, m \in best PROVE l.row.code < m.row.code
        OBVIOUS
      <4>2. l.row.code <= m.row.code
        BY <2>3, <4>1
      <4>3. l.row.code # m.row.code /\ l.row.code \in Nat /\ m.row.code \in Nat
        BY <1>1, <3>1, <4>1
      <4>4. QED
        BY <4>2, <4>3
    <3>4. CASE l.part # m.part
      <4>1. l.part < m.part
        BY <3>2, <3>4
      <4>2. QED
        BY <1>4, <3>1, <4>1
    <3>5. CASE l.part = m.part /\ lister = "BSE"
      <4>1. m \in there
        BY <3>1, <3>5
      <4>2. CASE m \in best
        <5>1. Held(l) <=> Held(m)
          BY <2>3, <3>5, <4>2
        <5>2. QED
          BY <1>4, <3>1, <3>3, <3>5, <4>2, <5>1
      <4>3. CASE m \notin best
        <5>1. Held(l) /\ ~Held(m)
          BY <2>3, <3>5, <4>1, <4>3
        <5>2. QED
          BY <1>4, <3>1, <3>5, <5>1
      <4>4. QED
        BY <4>2, <4>3
    <3>6. CASE l.part = m.part /\ lister # "BSE"
      <4>1. m \in best
        BY <3>1, <3>6
      <4>2. QED
        BY <3>3, <3>6, <4>1
    <3>7. QED
      BY <3>4, <3>5, <3>6
  <2>5. QED
    BY <2>2, <2>3, <2>4
<1> HIDE DEF First
<1>6. Chosen(rows, isin) \in own
  BY <1>3, <1>5
<1>7. QED
  BY <1>6

\* A face value a reading states is a positive one.
LEMMA FaceValuesArePositive ==
  ASSUME NEW read \in [1 .. Parts -> Moments \union {Unread}],
         NEW f \in FaceValuesByIsin(RowsOf(read))
  PROVE  f.value > 0
<1> DEFINE rows == RowsOf(read)
           stating == {l \in rows: l.row.face # Unstated}
           of(isin) == IF lister = "BSE" THEN Chosen(rows, isin) ELSE Chosen(stating, isin)
<1>1. PICK l \in stating : /\ of(l.row.isin).row.face # Unstated
                           /\ f = [isin |-> l.row.isin, value |-> of(l.row.isin).row.face]
  <2>1. PICK l \in {k \in stating: of(k.row.isin).row.face # Unstated} :
          f = [isin |-> l.row.isin, value |-> of(l.row.isin).row.face]
    BY Zenon DEF FaceValuesByIsin
  <2>2. QED
    BY <2>1
<1>2. Chosen(rows, l.row.isin) \in rows
  BY ChosenIsOwn
<1>3. Chosen(stating, l.row.isin) \in rows
  BY ChosenIsOwn
<1>4. of(l.row.isin) \in rows
  BY <1>2, <1>3
<1> HIDE DEF of
<1>5. of(l.row.isin).row.face \in Nat
  BY <1>4, RowsAreListed DEF Security
<1>6. QED
  BY <1>1, <1>5 DEF Unstated

\* Every step keeps the types: what is written is of an instrument held, of
\* today, and a face value that was stated.
LEMMA ListsStepTyped ==
  ASSUME ListsTypeOK, [ListsNext]_listVars
  PROVE  ListsTypeOK'
<1>1. /\ NoListRun \in ListReadings /\ listRun \in ListReadings
      /\ ListsTypeOK' <=>
           /\ lister' \in {"BSE", "NSE"} /\ moment' \in Moments /\ listDate' \in 1 .. ListDays
           /\ heldParts' \in [1 .. Parts -> Moments \union {Unread}]
           /\ listStage' \in 1 .. 2 /\ listRun' \in ListReadings
           /\ partOutcomes' \in [1 .. Parts -> {"none", "succeeded", "failed"}]
           /\ \A v \in named': v.isin \in Named /\ v.asOf \in 1 .. listDate'
           /\ \A v \in valued': v.isin \in Named /\ v.asOf \in 1 .. listDate' /\ v.value > 0
           /\ listRuns' \in 0 .. MaxListRuns
  BY SecurityListsAssumption DEF ListsTypeOK, ListReadings, NoListRun
<1>2. ListDays \in Nat \ {0} /\ Parts \in Nat \ {0} /\ MaxListRuns \in Nat
  BY SecurityListsAssumption
<1>3. CASE StartLists
  <2>1. 1 \in 0 .. Parts + 1
    BY <1>2
  <2>2. [NoListRun EXCEPT !.part = 1] \in ListReadings
    BY <1>1, <2>1 DEF ListReadings
  <2>3. listRun' \in ListReadings
    BY <1>3, <2>2 DEF StartLists
  <2>4. listRuns' \in 0 .. MaxListRuns
    BY <1>2, <1>3 DEF StartLists, ListsTypeOK
  <2>5. QED
    BY <1>1, <1>3, <2>3, <2>4 DEF StartLists, ListsTypeOK
<1>4. CASE ReadPart
  <2> DEFINE p == listRun.part
  <2>1. p \in 1 .. Parts /\ p + 1 \in 0 .. Parts + 1
    BY <1>2, <1>4 DEF ReadPart
  <2>2. heldParts' \in [1 .. Parts -> Moments \union {Unread}]
    BY <1>4 DEF ReadPart, ListsTypeOK
  <2>3. partOutcomes' \in [1 .. Parts -> {"none", "succeeded", "failed"}]
    BY <1>4 DEF ReadPart, ListsTypeOK
  <2>4. \/ \E k \in Moments \union {Unread}:
             listRun' = [listRun EXCEPT !.part = @ + 1, !.read = [@ EXCEPT ![p] = k]]
        \/ listRun' = [listRun EXCEPT !.part = @ + 1, !.failed = TRUE]
    BY <1>4 DEF ReadPart, ListsTypeOK
  <2>5. [listRun EXCEPT !.part = @ + 1, !.failed = TRUE] \in ListReadings
    BY <1>1, <2>1 DEF ListReadings
  <2>6. ASSUME NEW k \in Moments \union {Unread}
        PROVE  [listRun EXCEPT !.part = @ + 1, !.read = [@ EXCEPT ![p] = k]] \in ListReadings
    <3>1. [listRun.read EXCEPT ![p] = k] \in [1 .. Parts -> Moments \union {Unread}]
      BY <1>1 DEF ListReadings
    <3>2. [listRun EXCEPT !.part = @ + 1] \in ListReadings
      BY <1>1, <2>1 DEF ListReadings
    <3>3. QED
      BY <3>1, <3>2 DEF ListReadings
  <2>7. listRun' \in ListReadings
    BY <2>4, <2>5, <2>6
  <2>8. QED
    BY <1>1, <1>4, <2>2, <2>3, <2>7 DEF ReadPart, ListsTypeOK
<1>5. CASE WriteLists
  <2>1. listDate \in 1 .. listDate /\ listRun.read \in [1 .. Parts -> Moments \union {Unread}]
    BY <1>1, <1>2 DEF ListsTypeOK, ListReadings
  <2>2. \A v \in named': v.isin \in Named /\ v.asOf \in 1 .. listDate
    BY <1>5, <2>1 DEF WriteLists, ListsTypeOK, PersistNames, FreshNames
  <2>3. \A v \in valued': v.isin \in Named /\ v.asOf \in 1 .. listDate /\ v.value > 0
    <3>1. SUFFICES ASSUME NEW v \in valued', v \notin valued
                   PROVE  v.isin \in Named /\ v.asOf \in 1 .. listDate /\ v.value > 0
      BY DEF ListsTypeOK
    <3>2. PICK f \in FreshFaceValues(RowsOf(listRun.read)) :
            v = [isin |-> f.isin, asOf |-> listDate, value |-> f.value]
      BY <1>5, <3>1 DEF WriteLists, PersistFaceValues
    <3>3. f \in FaceValuesByIsin(RowsOf(listRun.read)) /\ f.isin \in Named
      BY <3>2 DEF FreshFaceValues
    <3>4. f.value > 0
      BY <2>1, <3>3, FaceValuesArePositive
    <3>5. QED
      BY <2>1, <3>2, <3>3, <3>4
  <2>4. QED
    BY <1>1, <1>5, <2>2, <2>3 DEF WriteLists, ListsTypeOK
<1>6. CASE \/ KillLists \/ Relist \/ DeriveCodesAgain \/ UNCHANGED listVars
  BY <1>1, <1>6 DEF KillLists, Relist, DeriveCodesAgain, listVars, ListsTypeOK
<1>7. CASE NextListDate
  <2>1. listDate \in 1 .. ListDays /\ listDate' = listDate + 1 /\ listDate' \in 1 .. ListDays
    BY <1>2, <1>7 DEF NextListDate, ListsTypeOK
  <2>2. 1 .. listDate \subseteq 1 .. listDate'
    BY <2>1
  <2>3. /\ \A v \in named': v.isin \in Named /\ v.asOf \in 1 .. listDate'
        /\ \A v \in valued': v.isin \in Named /\ v.asOf \in 1 .. listDate' /\ v.value > 0
    BY <1>7, <2>2 DEF NextListDate, ListsTypeOK
  <2>4. QED
    BY <1>1, <1>7, <2>1, <2>3 DEF NextListDate, ListsTypeOK
<1>8. QED
  BY <1>3, <1>4, <1>5, <1>6, <1>7 DEF ListsNext

\* For any lists, parts, dates and runs, every variable keeps its type: a name or
\* face value stored is of an instrument held, dated no later than today, and the
\* face value is a positive one (assets/ingestion/instrument_names.py).
THEOREM ListsTypeCorrect == ListsSpec => []ListsTypeOK
<1>1. ListsInit => ListsTypeOK
  BY SecurityListsAssumption DEF ListsInit, ListsTypeOK, NoListRun, Moments
<1>2. ListsTypeOK /\ [ListsNext]_listVars => ListsTypeOK'
  BY ListsStepTyped
<1>3. QED
  BY <1>1, <1>2, PTL DEF ListsSpec

-----------------------------------------------------------------------------
(* Deliveries, for any days, identifiers, listings and files.              *)
(*                                                                         *)
(* A figure stored states what a copy held of its date, or one published   *)
(* before that, states of an instrument that has a bar (RowKnown); that    *)
(* each is the owner's own follows.  That every date can be read back      *)
(* needs the order copies are held in (CopiesInOrder), one figure a date   *)
(* (OneRowADate), and that figures stored by an earlier run, under the     *)
(* listings derived by then, are right as far as they go (Kept).  Storing  *)
(* a day goes over its corrected files by a recursion, which is right up   *)
(* to each step as it was up to the one before (StepRight).                *)

\* Trading days are dates, and dates natural numbers.
LEMMA DatesAreNumbers ==
  /\ LastNotice \in Nat /\ SettledDays \in SUBSET NoticeDates
  /\ NoticeDates \in SUBSET Nat /\ NoticeDates \in SUBSET (0 .. LastNotice)
  /\ \A n \in NoticeDates : n \in Int /\ 0 < n /\ n <= LastNotice
  /\ \A d \in SettledDays : d \in NoticeDates /\ d \in Int
  /\ Contents \in SUBSET Nat /\ 0 \notin Contents
<1>1. LastNotice \in Nat
  BY DeliveriesAssumption
<1>2. NoticeDates \in SUBSET (0 .. LastNotice)
  BY <1>1 DEF NoticeDates
<1>3. \A n \in NoticeDates : n \in Int /\ 0 < n /\ n <= LastNotice
  BY <1>1 DEF NoticeDates
<1>4. QED
  BY <1>1, <1>2, <1>3, DeliveriesAssumption

\* A content states a quantity or none under an identifier.
LEMMA FiguresTyped ==
  ASSUME NEW c \in Contents, NEW k \in Identifiers
  PROVE  Figures[c][k] \in Nat \union {NoFigure}
BY DeliveriesAssumption

USE DatesAreNumbers

-----------------------------------------------------------------------------
(* The inductive invariant.                                                *)

\* A figure is of an instrument with a bar, as a copy of the day states it: the first
\* held, or the one held as noticed on its date, or one published before that.
RowKnown(r) ==
  /\ r.isin \in Priced[r.day]
  /\ \/ /\ r.asOf = r.day
        /\ \E c \in {fullCopy[r.day], otherCopy[r.day]} :
             c # Missing /\ States(c, r.day, r.isin, r.quantity)
     \/ /\ corrected[r.day][r.asOf] # Missing
        /\ \E c \in Contents : /\ c <= corrected[r.day][r.asOf]
                               /\ States(c, r.day, r.isin, r.quantity)

\* An instrument has one figure of a day under a date.
OneRowADate(rows) ==
  \A r, s \in rows : r.isin = s.isin /\ r.day = s.day /\ r.asOf = s.asOf => r.quantity = s.quantity

\* Corrections of a day are noticed no earlier than the day and no later than the date,
\* once its file is held; and each is a later publication than that file.
CopiesInOrder(d) ==
  /\ d <= date /\ fullCopy[d] <= posted[d]
  /\ \A n \in NoticeDates : corrected[d][n] # Missing =>
       /\ d <= n /\ n <= date /\ fullCopy[d] # Missing
       /\ fullCopy[d] <= corrected[d][n] /\ corrected[d][n] <= posted[d]

\* The file read is one held of the day.
FileHeld ==
  progress.file # Missing => Reading /\ progress.file \in {fullCopy[Day], otherCopy[Day]}

FInv ==
  /\ DeliveriesTypeOK
  /\ \A d \in SettledDays : CopiesInOrder(d)
  /\ OneRowADate(settled)
  /\ \A r \in settled : RowKnown(r)
  /\ FileHeld

\* The day was read from its registered file, or from one that says the same.
OneContent(d) == fullCopy[d] # Missing /\ otherCopy[d] \in {Missing, fullCopy[d]}

\* A day's figure of an instrument is stored under a date.
Dated(rows, d, i, n) == \E r \in rows : r.isin = i /\ r.day = d /\ r.asOf = n

\* What stands of an instrument's figure on a date is what the file known states, save
\* where the date that file was noticed on has a figure.
Right(rows, d, i, n) ==
  OneIdentifier(d, i) =>
    \A q \in Nat : States(KnownFile(d, n), d, i, q) =>
      StandingFigures(rows, i, d, n) = {q} \/ Dated(rows, d, i, NoticedOn(d, n))

\* The figures stored of a day are right up to the date of each of them.
Kept(rows, d) ==
  \A r \in rows : r.day = d => \A n \in d .. r.asOf : Right(rows, d, r.isin, n)

KInv == FInv /\ \A d \in SettledDays : OneContent(d) => Kept(settled, d)

-----------------------------------------------------------------------------
(* What is read out of a file, and what is stored of it.                   *)

\* The day read is one of those left.
LEMMA DayIsLeft ==
  ASSUME progress.rest # {}, progress.rest \subseteq SettledDays
  PROVE  Day \in progress.rest
<1>1. progress.rest \subseteq Nat
  OBVIOUS
<1>2. \E d \in progress.rest : \A e \in progress.rest : d <= e
  BY <1>1, LeastNatural
<1>3. QED
  BY <1>2, Zenon DEF Day

\* An instrument the listings in force give an identifier to, with a bar to stand beside.
ResolvedOn(d, i) ==
  \E k \in Identifiers : /\ OwnersOf(k, d) # {} /\ i = (CHOOSE j \in OwnersOf(k, d) : TRUE)
                         /\ HasBar(i, d)

\* A figure read of a file is one it states of an instrument with a bar.
LEMMA FigureStated ==
  ASSUME DeliveriesTypeOK, NEW c \in Contents, NEW d \in SettledDays, NEW f \in FiguresOf(c, d)
  PROVE  /\ f = [isin |-> f.isin, quantity |-> f.quantity]
         /\ f.isin \in Owners /\ f.quantity \in Nat /\ f.isin \in Priced[d]
         /\ States(c, d, f.isin, f.quantity) /\ ResolvedOn(d, f.isin)
<1>1. f \in Resolved(c, d) /\ HasBar(f.isin, d)
  BY DEF FiguresOf
<1>2. PICK k \in Identifiers :
        /\ Figures[c][k] # NoFigure /\ OwnersOf(k, d) # {}
        /\ f = [isin |-> CHOOSE i \in OwnersOf(k, d) : TRUE, quantity |-> Figures[c][k]]
  BY <1>1 DEF Resolved
<1>3. f.isin \in OwnersOf(k, d) /\ f.isin = (CHOOSE i \in OwnersOf(k, d) : TRUE)
  <2>1. (CHOOSE i \in OwnersOf(k, d) : TRUE) \in OwnersOf(k, d)
    BY <1>2, Zenon
  <2>2. f.isin = (CHOOSE i \in OwnersOf(k, d) : TRUE)
    BY <1>2
  <2>3. QED
    BY <2>1, <2>2
<1>4. ListedUnder(d, k, f.isin)
  <2>1. stage = 1 \/ stage = 2
    BY DEF DeliveriesTypeOK
  <2>2. Derivations[stage] \subseteq Derivations[1] \union Derivations[2]
    BY <2>1
  <2>3. QED
    BY <1>3, <2>2 DEF OwnersOf, ListedUnder
<1>5. f.quantity = Figures[c][k] /\ f.quantity \in Nat
  BY <1>2, FiguresTyped
<1>6. f.isin \in Priced[d] /\ f.isin \in Owners
  <2>1. Priced[d] \subseteq Owners
    BY DeliveriesAssumption
  <2>2. QED
    BY <1>1, <2>1 DEF HasBar
<1>7. f = [isin |-> f.isin, quantity |-> f.quantity]
  BY <1>2
<1>8. States(c, d, f.isin, f.quantity)
  BY <1>2, <1>4, <1>5 DEF States
<1>9. ResolvedOn(d, f.isin)
  BY <1>1, <1>2, <1>3 DEF ResolvedOn
<1>10. QED
  BY <1>5, <1>6, <1>7, <1>8, <1>9

\* What an instrument resolved is listed under.
LEMMA ResolvedListed ==
  ASSUME DeliveriesTypeOK, NEW d \in SettledDays, NEW i, NEW k \in Identifiers,
         OwnersOf(k, d) # {}, i = (CHOOSE j \in OwnersOf(k, d) : TRUE)
  PROVE  ListedUnder(d, k, i)
<1>1. i \in OwnersOf(k, d)
  BY Zenon
<1>2. stage = 1 \/ stage = 2
  BY DEF DeliveriesTypeOK
<1>3. Derivations[stage] \subseteq Derivations[1] \union Derivations[2]
  BY <1>2
<1>4. QED
  BY <1>1, <1>3 DEF OwnersOf, ListedUnder

\* Whatever a file states of an instrument resolved, under its one identifier, is read of it.
LEMMA StatedIsRead ==
  ASSUME DeliveriesTypeOK, NEW c \in Contents, NEW d \in SettledDays,
         NEW i, ResolvedOn(d, i), OneIdentifier(d, i), NEW q, States(c, d, i, q)
  PROVE  [isin |-> i, quantity |-> q] \in FiguresOf(c, d)
<1>1. PICK k \in Identifiers : OwnersOf(k, d) # {} /\ i = (CHOOSE j \in OwnersOf(k, d) : TRUE)
                               /\ HasBar(i, d)
  BY DEF ResolvedOn
<1>2. PICK m \in Identifiers : ListedUnder(d, m, i) /\ Figures[c][m] = q /\ q # NoFigure
  BY DEF States
<1>3. m = k
  <2>1. ListedUnder(d, k, i)
    BY <1>1, ResolvedListed
  <2>2. QED
    BY <1>2, <2>1 DEF OneIdentifier
<1>4. [isin |-> i, quantity |-> q] \in Resolved(c, d)
  BY <1>1, <1>2, <1>3 DEF Resolved
<1>5. QED
  BY <1>1, <1>4 DEF FiguresOf

\* A file states one quantity of an instrument under its one identifier.
LEMMA StatesOne ==
  ASSUME NEW c, NEW d \in SettledDays, NEW i, OneIdentifier(d, i), NEW q, NEW s,
         States(c, d, i, q), States(c, d, i, s)
  PROVE  q = s
BY DEF States, OneIdentifier

\* Figures as they are read.
Readings == [isin : Owners, quantity : Nat]

\* Storing adds a row of every figure its instrument has none of that date, one of each.
Adds(new, rows, figures, d, n) ==
  /\ new \in SUBSET Figure /\ rows \subseteq new
  /\ \A r \in new : r \notin rows =>
       /\ r.day = d /\ r.asOf = n
       /\ [isin |-> r.isin, quantity |-> r.quantity] \in figures
       /\ ~\E s \in rows : s.isin = r.isin /\ s.day = d /\ s.asOf = n
  /\ \A r, s \in new : r \notin rows /\ s \notin rows /\ r.isin = s.isin => r = s
  /\ \A f \in figures : \E r \in new : r.isin = f.isin /\ r.day = d /\ r.asOf = n

\* Writing a day's figures adds them in that sense.
LEMMA WrittenRows ==
  ASSUME NEW rows \in SUBSET Figure, NEW figures \in SUBSET Readings,
         NEW d \in SettledDays, NEW n \in NoticeDates
  PROVE  Adds(Written(rows, figures, d, n), rows, figures, d, n)
<1> DEFINE new == Written(rows, figures, d, n)
           First(i) == CHOOSE f \in figures : f.isin = i
           Row(i) == [isin |-> i, day |-> d, asOf |-> n, quantity |-> First(i).quantity]
           Fresh == {i \in Owners : /\ \E f \in figures : f.isin = i
                                    /\ ~\E r \in rows : r.isin = i /\ r.day = d /\ r.asOf = n}
<1>1. new = rows \union {Row(i) : i \in Fresh}
  BY DEF Written
<1>2. ASSUME NEW i \in Fresh
      PROVE  First(i) \in figures /\ First(i).isin = i
  <2>1. \E f \in figures : f.isin = i
    OBVIOUS
  <2>2. QED
    BY <2>1, Zenon
<1> HIDE DEF First
<1>3. \A i \in Fresh : First(i) \in Readings
  BY <1>2
<1>4. \A i \in Fresh : First(i) = [isin |-> i, quantity |-> First(i).quantity]
                       /\ First(i).quantity \in Nat
  BY <1>2, <1>3 DEF Readings
<1>5. \A i \in Fresh : /\ Row(i) \in Figure /\ Row(i).isin = i /\ Row(i).day = d /\ Row(i).asOf = n
                       /\ Row(i).quantity = First(i).quantity
  BY <1>4 DEF Figure
<1>6. \A i \in Fresh : /\ [isin |-> Row(i).isin, quantity |-> Row(i).quantity] \in figures
                       /\ ~\E s \in rows : s.isin = i /\ s.day = d /\ s.asOf = n
  BY <1>2, <1>4, <1>5
<1>7. \A f \in figures : f.isin \in Owners
  BY DEF Readings
<1>8. \A f \in figures : f.isin \in Fresh \/ \E r \in rows : r.isin = f.isin /\ r.day = d /\ r.asOf = n
  BY <1>7
<1> HIDE DEF Row, Fresh, new
<1>9. new \in SUBSET Figure /\ rows \subseteq new
  BY <1>1, <1>5
<1>10. \A r \in new : r \notin rows =>
        /\ r.day = d /\ r.asOf = n
        /\ [isin |-> r.isin, quantity |-> r.quantity] \in figures
        /\ ~\E s \in rows : s.isin = r.isin /\ s.day = d /\ s.asOf = n
  BY <1>1, <1>5, <1>6
<1>11. \A r, s \in new : r \notin rows /\ s \notin rows /\ r.isin = s.isin => r = s
  BY <1>1, <1>5
<1>12. \A f \in figures : \E r \in new : r.isin = f.isin /\ r.day = d /\ r.asOf = n
  BY <1>1, <1>5, <1>8
<1>13. Adds(new, rows, figures, d, n)
  BY <1>9, <1>10, <1>11, <1>12 DEF Adds
<1>14. QED
  BY <1>13 DEF new

-----------------------------------------------------------------------------
(* What stands.                                                            *)

\* A row that is the latest up to a date, any of the same date saying the same.
LatestRow(rows, i, d, n, r) ==
  /\ r \in rows /\ r.isin = i /\ r.day = d /\ r.asOf <= n
  /\ \A o \in rows : o.isin = i /\ o.day = d /\ o.asOf <= n =>
       o.asOf <= r.asOf /\ (o.asOf = r.asOf => o.quantity = r.quantity)

\* The figure of the latest date stands.
LEMMA LatestStands ==
  ASSUME NEW rows \in SUBSET Figure, NEW i, NEW d, NEW n, NEW r, LatestRow(rows, i, d, n, r)
  PROVE  StandingFigures(rows, i, d, n) = {r.quantity}
<1> DEFINE own == {o \in rows : o.isin = i /\ o.day = d /\ o.asOf <= n}
           top == {t \in own : \A o \in own : o.asOf <= t.asOf}
<1>1. r \in top
  BY DEF LatestRow
<1>2. \A t \in top : t.quantity = r.quantity
  <2>1. \A o \in rows : o.asOf \in Nat
    BY DEF Figure, NoticeDates
  <2>2. QED
    BY <1>1, <2>1 DEF LatestRow
<1>3. StandingFigures(rows, i, d, n) = {t.quantity : t \in top}
  BY DEF StandingFigures
<1> HIDE DEF top
<1>4. QED
  BY <1>1, <1>2, <1>3

\* A figure that stands is of the latest date.
LEMMA StandsLatest ==
  ASSUME NEW rows \in SUBSET Figure, NEW i, NEW d, NEW n, NEW q,
         q \in StandingFigures(rows, i, d, n)
  PROVE  \E r \in rows : /\ r.isin = i /\ r.day = d /\ r.asOf <= n /\ r.quantity = q
                         /\ \A o \in rows : o.isin = i /\ o.day = d /\ o.asOf <= n => o.asOf <= r.asOf
BY DEF StandingFigures

\* What stands depends on the instrument's figures of the day up to the date alone.
LEMMA StandsAlike ==
  ASSUME NEW rows, NEW more, NEW i, NEW d, NEW n, rows \subseteq more,
         \A r \in more : r.isin = i /\ r.day = d /\ r.asOf <= n => r \in rows
  PROVE  StandingFigures(more, i, d, n) = StandingFigures(rows, i, d, n)
<1>1. {r \in more : r.isin = i /\ r.day = d /\ r.asOf <= n}
        = {r \in rows : r.isin = i /\ r.day = d /\ r.asOf <= n}
  OBVIOUS
<1>2. QED
  BY <1>1 DEF StandingFigures

-----------------------------------------------------------------------------
(* The file known on a date.                                               *)

\* The latest of the corrected files noticed up to a date, where there is one.
LEMMA LatestNoticed ==
  ASSUME NEW d, NEW n, NEW m \in NoticedBy(d, n), \A k \in NoticedBy(d, n) : k <= m
  PROVE  NoticedOn(d, n) = m
<1>1. NoticedBy(d, n) # {} /\ NoticedBy(d, n) \in SUBSET NoticeDates
  BY DEF NoticedBy
<1> DEFINE k == CHOOSE k \in NoticedBy(d, n) : \A j \in NoticedBy(d, n) : j <= k
<1>2. k \in NoticedBy(d, n) /\ \A j \in NoticedBy(d, n) : j <= k
  BY Zenon
<1>3. NoticedOn(d, n) = k
  BY <1>1 DEF NoticedOn
<1> HIDE DEF k
<1>4. m <= k /\ k <= m /\ m \in Nat /\ k \in Nat
  BY <1>1, <1>2
<1>5. QED
  BY <1>3, <1>4

\* Where one was noticed up to a date, the date it was noticed on is the last of them.
LEMMA NoticedIsLast ==
  ASSUME NEW d, NEW n, NoticedBy(d, n) # {}
  PROVE  /\ NoticedOn(d, n) \in NoticedBy(d, n) /\ \A k \in NoticedBy(d, n) : k <= NoticedOn(d, n)
         /\ KnownFile(d, n) = corrected[d][NoticedOn(d, n)]
<1>1. NoticedBy(d, n) \subseteq 0 .. LastNotice
  BY DEF NoticedBy
<1>2. PICK m \in NoticedBy(d, n) : \A k \in NoticedBy(d, n) : k <= m
  BY <1>1, GreatestUpTo
<1>3. NoticedOn(d, n) = m
  BY <1>2, LatestNoticed
<1>4. QED
  BY <1>2, <1>3 DEF KnownFile

\* A corrected file is known from the date it was noticed.
LEMMA CorrectedIsKnown ==
  ASSUME NEW d \in SettledDays, NEW n \in NoticeDates, corrected[d][n] # Missing
  PROVE  KnownFile(d, n) = corrected[d][n] /\ NoticedOn(d, n) = n
<1>1. n \in NoticedBy(d, n) /\ \A k \in NoticedBy(d, n) : k <= n
  <2>1. n <= n
    <3>1. n \in Int
      BY DatesAreNumbers
    <3>2. QED
      BY ONLY <3>1
  <2>2. n \in NoticedBy(d, n)
    BY <2>1, Zenon DEF NoticedBy
  <2>3. \A k \in NoticedBy(d, n) : k <= n
    BY Zenon DEF NoticedBy
  <2>4. QED
    BY <2>2, <2>3
<1>2. NoticedOn(d, n) = n
  BY <1>1, LatestNoticed
<1>3. QED
  BY <1>1, <1>2 DEF KnownFile

\* On a date nothing was noticed the file known the date before is known.
LEMMA KnownAsBefore ==
  ASSUME NEW d \in SettledDays, NEW n \in NoticeDates, corrected[d][n] = Missing
  PROVE  KnownFile(d, n) = KnownFile(d, n - 1) /\ NoticedOn(d, n) = NoticedOn(d, n - 1)
<1>1. NoticedBy(d, n) = NoticedBy(d, n - 1)
  <2>1. \A k \in NoticeDates : k # n => (k <= n <=> k <= n - 1)
    <3>1. n \in Int /\ \A k \in NoticeDates : k \in Int
      BY DatesAreNumbers
    <3>2. QED
      BY ONLY <3>1
  <2>2. QED
    BY <2>1 DEF NoticedBy
<1> DEFINE On(N) == IF N = {} THEN d ELSE CHOOSE k \in N : \A j \in N : j <= k
<1>2. NoticedOn(d, n) = On(NoticedBy(d, n)) /\ NoticedOn(d, n - 1) = On(NoticedBy(d, n - 1))
  BY Zenon DEF NoticedOn
<1> HIDE DEF On
<1>3. NoticedOn(d, n) = NoticedOn(d, n - 1)
  BY <1>1, <1>2
<1>4. QED
  BY <1>1, <1>3 DEF KnownFile

\* What is known on the day itself is of the day: its first file, unless one was noticed.
LEMMA FirstIsKnown ==
  ASSUME NEW d \in SettledDays, CopiesInOrder(d)
  PROVE  /\ NoticedOn(d, d) = d
         /\ corrected[d][d] = Missing => KnownFile(d, d) = fullCopy[d]
<1>1. CASE corrected[d][d] = Missing
  <2>1. NoticedBy(d, d) = {}
    <3>1. SUFFICES ASSUME NEW k \in NoticedBy(d, d) PROVE FALSE
      OBVIOUS
    <3>2. k \in NoticeDates /\ k <= d /\ corrected[d][k] # Missing
      BY DEF NoticedBy
    <3>3. d <= k /\ k \in Int /\ d \in Int
      BY <3>2 DEF CopiesInOrder
    <3>4. k = d
      BY <3>2, <3>3
    <3>5. QED
      BY <1>1, <3>2, <3>4
  <2>2. QED
    BY <2>1 DEF NoticedOn, KnownFile
<1>2. CASE corrected[d][d] # Missing
  BY <1>2, CorrectedIsKnown
<1>3. QED
  BY <1>1, <1>2

\* What is known of a day that is held is a content.
LEMMA KnownIsContent ==
  ASSUME DeliveriesTypeOK, NEW d \in SettledDays, NEW n, fullCopy[d] # Missing
  PROVE  KnownFile(d, n) \in Contents
<1>1. CASE NoticedBy(d, n) = {}
  BY <1>1 DEF KnownFile, DeliveriesTypeOK
<1>2. CASE NoticedBy(d, n) # {}
  <2>1. NoticedOn(d, n) \in NoticeDates /\ corrected[d][NoticedOn(d, n)] # Missing
    BY <1>2, NoticedIsLast DEF NoticedBy
  <2>2. corrected[d][NoticedOn(d, n)] \in {Missing} \union Contents
    BY <2>1 DEF DeliveriesTypeOK
  <2>3. KnownFile(d, n) = corrected[d][NoticedOn(d, n)]
    BY <1>2, NoticedIsLast
  <2>4. QED
    BY <2>1, <2>2, <2>3
<1>3. QED
  BY <1>1, <1>2

-----------------------------------------------------------------------------
(* Storing the figures of one copy.                                        *)

\* Rows stored, each of them known, and one a date.
RowsKnown(rows) == rows \in SUBSET Figure /\ OneRowADate(rows) /\ \A r \in rows : RowKnown(r)

\* A copy held of a day, under the date it was noticed.
CopyHeld(c, d, n) ==
  /\ c \in Contents
  /\ (n = d /\ c \in {fullCopy[d], otherCopy[d]}) \/ corrected[d][n] = c

\* The figures of a file are readings.
LEMMA FiguresAreReadings ==
  ASSUME DeliveriesTypeOK, NEW c \in Contents, NEW d \in SettledDays
  PROVE  FiguresOf(c, d) \in SUBSET Readings
<1>1. ASSUME NEW f \in FiguresOf(c, d)
      PROVE  f \in Readings
  BY FigureStated DEF Readings
<1>2. QED
  BY <1>1

\* Storing figures of a copy held adds known rows of the day.
LEMMA WrittenKnown ==
  ASSUME DeliveriesTypeOK, NEW d \in SettledDays, NEW n \in NoticeDates, NEW c, CopyHeld(c, d, n),
         NEW rows, RowsKnown(rows), NEW figures \in SUBSET FiguresOf(c, d),
         NEW new, new = Written(rows, figures, d, n)
  PROVE  /\ RowsKnown(new) /\ rows \subseteq new
         /\ \A r \in new : r \notin rows => r.day = d
<1>1. c \in Contents /\ c # Missing
  BY DEF CopyHeld, Missing
<1>2. rows \in SUBSET Figure /\ figures \in SUBSET Readings
  BY <1>1, FiguresAreReadings DEF RowsKnown
<1>3. /\ new \in SUBSET Figure /\ rows \subseteq new
      /\ \A r \in new : r \notin rows =>
           /\ r.day = d /\ r.asOf = n /\ [isin |-> r.isin, quantity |-> r.quantity] \in figures
           /\ ~\E s \in rows : s.isin = r.isin /\ s.day = d /\ s.asOf = n
      /\ \A r, s \in new : r \notin rows /\ s \notin rows /\ r.isin = s.isin => r = s
  <2>1. Adds(new, rows, figures, d, n)
    BY <1>2, WrittenRows
  <2>2. QED
    BY <2>1 DEF Adds
<1>4. ASSUME NEW r \in new, r \notin rows
      PROVE  RowKnown(r)
  <2> DEFINE f == [isin |-> r.isin, quantity |-> r.quantity]
  <2>1. f \in FiguresOf(c, d) /\ r.day = d /\ r.asOf = n
    BY <1>3, <1>4
  <2>2. r.isin \in Priced[d] /\ States(c, d, r.isin, r.quantity)
    <3>1. f.isin \in Priced[d] /\ States(c, d, f.isin, f.quantity)
      BY <1>1, <2>1, FigureStated
    <3>2. f.isin = r.isin /\ f.quantity = r.quantity
      OBVIOUS
    <3>3. QED
      BY <3>1, <3>2
  <2> HIDE DEF f
  <2>3. CASE corrected[d][n] = c
    <3>1. c <= c
      BY <1>1
    <3>2. QED
      BY <1>1, <2>1, <2>2, <2>3, <3>1 DEF RowKnown
  <2>4. CASE n = d /\ c \in {fullCopy[d], otherCopy[d]}
    BY <1>1, <2>1, <2>2, <2>4 DEF RowKnown
  <2>5. QED
    BY <2>3, <2>4 DEF CopyHeld
<1>5. OneRowADate(new)
  <2>1. OneRowADate(rows)
    BY DEF RowsKnown
  <2>2. ASSUME NEW r \in new, NEW s \in new, r.isin = s.isin, r.day = s.day, r.asOf = s.asOf
        PROVE  r.quantity = s.quantity
    <3>1. CASE r \in rows /\ s \in rows
      BY <2>1, <2>2, <3>1 DEF OneRowADate
    <3>2. CASE r \notin rows /\ s \notin rows
      BY <1>3, <2>2, <3>2
    <3>3. CASE r \in rows /\ s \notin rows
      <4>1. s.day = d /\ s.asOf = n /\ ~\E o \in rows : o.isin = s.isin /\ o.day = d /\ o.asOf = n
        BY <1>3, <3>3
      <4>2. QED
        BY <2>2, <3>3, <4>1
    <3>4. CASE r \notin rows /\ s \in rows
      <4>1. r.day = d /\ r.asOf = n /\ ~\E o \in rows : o.isin = r.isin /\ o.day = d /\ o.asOf = n
        BY <1>3, <3>4
      <4>2. QED
        BY <2>2, <3>4, <4>1
    <3>5. QED
      BY <3>1, <3>2, <3>3, <3>4
  <2>3. QED
    BY <2>2 DEF OneRowADate
<1>6. QED
  BY <1>3, <1>4, <1>5 DEF RowsKnown

\* A known row of a day is dated the day, or the date a correction was noticed on.
LEMMA RowIsDated ==
  ASSUME NEW d \in SettledDays, CopiesInOrder(d), NEW r \in Figure, RowKnown(r), r.day = d
  PROVE  /\ r.asOf \in NoticeDates /\ r.asOf \in Int /\ d <= r.asOf /\ r.asOf <= date
         /\ r.asOf = d \/ corrected[d][r.asOf] # Missing
<1>1. r.asOf \in NoticeDates /\ (r.asOf = d \/ corrected[d][r.asOf] # Missing)
  BY DEF RowKnown, Figure
<1>2. d <= r.asOf /\ r.asOf <= date
  <2>1. CASE r.asOf = d
    BY <2>1 DEF CopiesInOrder
  <2>2. CASE corrected[d][r.asOf] # Missing
    BY <1>1, <2>2 DEF CopiesInOrder
  <2>3. QED
    BY <1>1, <2>1, <2>2
<1>3. QED
  BY <1>1, <1>2

\* The figures of the instruments resolved are right up to a date.
RightUpTo(rows, d, n) ==
  \A i : ResolvedOn(d, i) => \A m \in d .. n : Right(rows, d, i, m)

\* What is right stays right while what is known and what stands are the same.
LEMMA StaysRight ==
  ASSUME NEW rows, NEW more, rows \subseteq more, NEW d, NEW i, NEW n, Right(rows, d, i, n),
         StandingFigures(more, i, d, n) = StandingFigures(rows, i, d, n)
  PROVE  Right(more, d, i, n)
<1>1. \A m : Dated(rows, d, i, m) => Dated(more, d, i, m)
  BY DEF Dated
<1>2. QED
  BY <1>1 DEF Right

\* On a date nothing was noticed what stood before is right.
LEMMA SkipRight ==
  ASSUME NEW d \in SettledDays, CopiesInOrder(d), NEW n \in NoticeDates, d < n,
         corrected[d][n] = Missing, NEW rows, RowsKnown(rows), RightUpTo(rows, d, n - 1)
  PROVE  RightUpTo(rows, d, n)
<1>1. ASSUME NEW i, ResolvedOn(d, i), NEW m \in d .. n
      PROVE  Right(rows, d, i, m)
  <2>1. CASE m # n
    <3>1. d \in Int /\ n \in Int /\ m \in d .. n
      BY <1>1, DatesAreNumbers
    <3>2. m \in d .. n - 1
      BY ONLY <2>1, <3>1
    <3>3. QED
      BY <1>1, <3>2 DEF RightUpTo
  <2>2. CASE m = n
    <3>1. n - 1 \in d .. n - 1
      OBVIOUS
    <3>2. Right(rows, d, i, n - 1)
      BY <1>1, <3>1 DEF RightUpTo
    <3>3. KnownFile(d, n) = KnownFile(d, n - 1) /\ NoticedOn(d, n) = NoticedOn(d, n - 1)
      BY KnownAsBefore
    <3>4. \A r \in rows : r.isin = i /\ r.day = d =>
            (r.asOf <= n <=> r.asOf <= n - 1)
      <4>1. ASSUME NEW r \in rows, r.day = d
            PROVE  r.asOf # n /\ r.asOf \in Int
        <5>1. r.asOf \in Int /\ (r.asOf = d \/ corrected[d][r.asOf] # Missing)
          BY <4>1, RowIsDated DEF RowsKnown
        <5>2. d # n
          OBVIOUS
        <5>3. QED
          BY <5>1, <5>2
      <4>2. n \in Int
        OBVIOUS
      <4>3. QED
        BY ONLY <4>1, <4>2
    <3>5. StandingFigures(rows, i, d, n) = StandingFigures(rows, i, d, n - 1)
      <4>1. {r \in rows : r.isin = i /\ r.day = d /\ r.asOf <= n}
              = {r \in rows : r.isin = i /\ r.day = d /\ r.asOf <= n - 1}
        BY <3>4
      <4>2. QED
        BY <4>1 DEF StandingFigures
    <3>6. QED
      BY <2>2, <3>2, <3>3, <3>5 DEF Right
  <2>3. QED
    BY <2>1, <2>2
<1>2. QED
  BY <1>1 DEF RightUpTo

\* Storing the figures of a day's first file under the day, or those of the file known from
\* a date under that date, but those that stand already, leaves right what stood, and makes
\* right what stands on the date where the file stored is the one known.
LEMMA StepRight ==
  ASSUME DeliveriesTypeOK, NEW d \in SettledDays, CopiesInOrder(d),
         NEW n \in NoticeDates, d <= n, NoticedOn(d, n) = n,
         NEW c, c = KnownFile(d, n) \/ n = d, CopyHeld(c, d, n),
         NEW rows, RowsKnown(rows), Kept(rows, d), RightUpTo(rows, d, n - 1),
         NEW figures \in SUBSET FiguresOf(c, d),
         \A f \in FiguresOf(c, d) :
           f \notin figures => StandingFigures(rows, f.isin, d, LastNotice) = {f.quantity},
         NEW new, new = Written(rows, figures, d, n)
  PROVE  /\ RowsKnown(new) /\ Kept(new, d)
         /\ c = KnownFile(d, n) => RightUpTo(new, d, n)
<1>1. RowsKnown(new) /\ rows \subseteq new
  BY WrittenKnown
<1>2. /\ \A r \in new : r \notin rows =>
           /\ r.day = d /\ r.asOf = n
           /\ [isin |-> r.isin, quantity |-> r.quantity] \in figures
           /\ ~\E s \in rows : s.isin = r.isin /\ s.day = d /\ s.asOf = n
      /\ \A f \in figures : \E r \in new : r.isin = f.isin /\ r.day = d /\ r.asOf = n
  <2>1. rows \in SUBSET Figure /\ figures \in SUBSET Readings
    BY FiguresAreReadings DEF RowsKnown, CopyHeld
  <2>2. Adds(new, rows, figures, d, n)
    BY <2>1, WrittenRows
  <2>3. QED
    BY <2>2 DEF Adds
<1>3. /\ c \in Contents /\ rows \in SUBSET Figure /\ new \in SUBSET Figure
      /\ \A r \in new : r.asOf \in NoticeDates /\ r.asOf \in Int
      /\ n \in Int /\ d \in Int
  BY <1>1 DEF CopyHeld, RowsKnown, Figure
<1>4. \A r, s \in new : r.isin = s.isin /\ r.day = s.day /\ r.asOf = s.asOf => r.quantity = s.quantity
  BY <1>1 DEF RowsKnown, OneRowADate
\* What is stored of an instrument is what the file states of it.
<1>5. ASSUME NEW r \in new, r \notin rows
      PROVE  /\ ResolvedOn(d, r.isin) /\ States(c, d, r.isin, r.quantity)
             /\ r.quantity \in Nat /\ r.day = d /\ r.asOf = n
  <2> DEFINE f == [isin |-> r.isin, quantity |-> r.quantity]
  <2>1. f \in FiguresOf(c, d)
    BY <1>2, <1>5
  <2>2. ResolvedOn(d, f.isin) /\ States(c, d, f.isin, f.quantity) /\ f.quantity \in Nat
    BY <1>3, <2>1, FigureStated
  <2>3. f.isin = r.isin /\ f.quantity = r.quantity
    OBVIOUS
  <2> HIDE DEF f
  <2>4. QED
    BY <1>2, <1>5, <2>2, <2>3
\* What stands before the date, and of an instrument nothing is stored of, is as it stood.
<1>6. ASSUME NEW i, NEW m \in Int, m < n \/ (\A r \in new : r.isin = i => r \in rows)
      PROVE  StandingFigures(new, i, d, m) = StandingFigures(rows, i, d, m)
  <2>1. \A r \in new : r.isin = i /\ r.asOf <= m => r \in rows
    <3>1. CASE m < n
      <4>1. \A r \in new : r.asOf <= m => r.asOf # n
        BY ONLY <1>3, <3>1, m \in Int
      <4>2. QED
        BY <1>2, <4>1
    <3>2. QED
      BY <1>6, <3>1
  <2>2. QED
    BY <1>1, <2>1, StandsAlike
\* An instrument something is stored of has a figure of the date.
<1>7. ASSUME NEW i, ~\A r \in new : r.isin = i => r \in rows
      PROVE  /\ Right(new, d, i, n) /\ ResolvedOn(d, i) /\ ~Dated(rows, d, i, n)
             /\ \E o \in new : /\ o \notin rows /\ o.isin = i /\ o.day = d /\ o.asOf = n
                              /\ States(c, d, i, o.quantity) /\ o.quantity \in Nat
  <2>1. PICK o \in new : o \notin rows /\ o.isin = i
    BY <1>7
  <2>2. /\ ResolvedOn(d, i) /\ States(c, d, i, o.quantity) /\ o.quantity \in Nat
        /\ o.day = d /\ o.asOf = n
    BY <1>5, <2>1
  <2>3. ~Dated(rows, d, i, n)
    BY <1>2, <2>1 DEF Dated
  <2>4. Right(new, d, i, n)
    BY <2>1, <2>2 DEF Right, Dated
  <2>5. QED
    BY <2>1, <2>2, <2>3, <2>4
<1>8. ASSUME c = KnownFile(d, n), NEW i, ResolvedOn(d, i), OneIdentifier(d, i),
             NEW q \in Nat, States(c, d, i, q)
      PROVE  StandingFigures(new, i, d, n) = {q} \/ Dated(new, d, i, n)
  <2> DEFINE f == [isin |-> i, quantity |-> q]
  <2>1. f \in FiguresOf(c, d) /\ f.isin = i /\ f.quantity = q
    BY <1>3, <1>8, StatedIsRead
  <2> HIDE DEF f
  <2>2. CASE f \in figures
    BY <1>2, <2>1, <2>2 DEF Dated
  <2>3. CASE ~\A r \in new : r.isin = i => r \in rows
    BY <1>7, <2>3 DEF Dated
  <2>4. CASE f \notin figures /\ \A r \in new : r.isin = i => r \in rows
    <3>1. StandingFigures(rows, i, d, LastNotice) = {q}
      BY <2>1, <2>4
    <3>2. PICK r \in rows :
            /\ r.isin = i /\ r.day = d /\ r.quantity = q
            /\ \A o \in rows : o.isin = i /\ o.day = d /\ o.asOf <= LastNotice => o.asOf <= r.asOf
      BY <1>3, <3>1, StandsLatest
    <3>3. \A o \in rows : o.isin = i /\ o.day = d => o.asOf <= r.asOf
      BY <1>1, <1>3, <3>2
    <3>4. r \in new /\ r.asOf \in Int
      BY <1>1, <1>3
    <3>5. CASE r.asOf <= n
      <4>1. \A o \in new : o.isin = i /\ o.day = d /\ o.asOf <= n =>
               o.asOf <= r.asOf /\ (o.asOf = r.asOf => o.quantity = r.quantity)
        BY <1>4, <2>4, <3>2, <3>3, <3>4
      <4>2. LatestRow(new, i, d, n, r)
        BY ONLY <3>2, <3>4, <3>5, <4>1 DEF LatestRow
      <4>3. QED
        BY <1>3, <3>2, <4>2, LatestStands
    <3>6. CASE ~(r.asOf <= n)
      <4>1. n \in d .. r.asOf
        BY ONLY <1>3, <3>4, <3>6, d <= n
      <4>2. Right(rows, d, i, n)
        BY <3>2, <4>1 DEF Kept
      <4>3. StandingFigures(new, i, d, n) = StandingFigures(rows, i, d, n)
        BY <1>3, <1>6, <2>4
      <4>4. Right(new, d, i, n)
        BY <1>1, <4>2, <4>3, StaysRight
      <4>5. QED
        BY <1>8, <4>4 DEF Right
    <3>7. QED
      BY <3>5, <3>6
  <2>5. QED
    BY <2>2, <2>3, <2>4
<1>9. ASSUME NEW i, NEW m \in d .. n, m # n, Right(rows, d, i, m)
      PROVE  Right(new, d, i, m)
  <2>1. m \in Int /\ m < n
    BY ONLY <1>3, <1>9
  <2>2. StandingFigures(new, i, d, m) = StandingFigures(rows, i, d, m)
    BY <1>6, <2>1
  <2>3. QED
    BY <1>1, <1>9, <2>2, StaysRight
<1>10. ASSUME NEW i, ResolvedOn(d, i), NEW m \in d .. n, m # n
       PROVE  Right(rows, d, i, m)
  <2>1. m \in d .. n - 1
    BY ONLY <1>3, <1>10
  <2>2. QED
    BY <1>10, <2>1 DEF RightUpTo
<1>11. ASSUME c = KnownFile(d, n)
       PROVE  RightUpTo(new, d, n)
  <2>1. ASSUME NEW i, ResolvedOn(d, i), NEW m \in d .. n
        PROVE  Right(new, d, i, m)
    <3>1. CASE m = n
      BY <1>8, <1>11, <2>1, <3>1 DEF Right
    <3>2. CASE m # n
      BY <1>9, <1>10, <2>1, <3>2
    <3>3. QED
      BY <3>1, <3>2
  <2>2. QED
    BY <2>1 DEF RightUpTo
\* Between the date and that of a later figure the figure stored changes nothing: what
\* stood from before the date was right on it, and so is the figure stored.
<1>12. ASSUME NEW r \in rows, r.day = d, NEW m \in d .. r.asOf, n < m,
              ~\A o \in new : o.isin = r.isin => o \in rows
       PROVE  Right(new, d, r.isin, m)
  <2> DEFINE i == r.isin
  <2>1. PICK o \in new : /\ o \notin rows /\ o.isin = i /\ o.day = d /\ o.asOf = n
                         /\ States(c, d, i, o.quantity) /\ o.quantity \in Nat
    BY <1>7, <1>12
  <2>2. ~Dated(rows, d, i, n) /\ \A p \in rows : p.isin = i /\ p.day = d => p.asOf # n
    BY <1>7, <1>12 DEF Dated
  <2>3. m \in Int /\ n \in d .. r.asOf
    <3>1. r.asOf \in Int
      BY <1>1, <1>3
    <3>2. QED
      BY ONLY <1>3, <1>12, <3>1, d <= n
  <2>4. Right(rows, d, i, m) /\ Right(rows, d, i, n)
    BY <1>12, <2>3 DEF Kept
  <2> HIDE DEF i
  <2>5. ASSUME OneIdentifier(d, i), NEW q \in Nat, States(KnownFile(d, m), d, i, q),
               StandingFigures(rows, i, d, m) = {q}
        PROVE  StandingFigures(new, i, d, m) = {q}
    <3>1. PICK s \in rows :
            /\ s.isin = i /\ s.day = d /\ s.asOf <= m /\ s.quantity = q
            /\ \A p \in rows : p.isin = i /\ p.day = d /\ p.asOf <= m => p.asOf <= s.asOf
      BY <1>3, <2>5, StandsLatest
    <3>2. s \in new /\ s.asOf \in Int /\ s.asOf # n
      BY <1>1, <1>3, <2>2, <3>1
    <3>3. \A p \in new : p \in rows \/ p.asOf = n
      BY <1>2
    <3>4. CASE n < s.asOf
      <4>1. \A p \in new : p.isin = i /\ p.day = d /\ p.asOf <= m =>
               p.asOf <= s.asOf /\ (p.asOf = s.asOf => p.quantity = s.quantity)
        <5>1. ASSUME NEW p \in new, p.isin = i, p.day = d, p.asOf <= m
              PROVE  p.asOf <= s.asOf
          <6>1. CASE p \in rows
            BY <3>1, <5>1, <6>1
          <6>2. CASE p.asOf = n
            BY ONLY <1>3, <3>2, <3>4, <6>2
          <6>3. QED
            BY <3>3, <6>1, <6>2
        <5>2. QED
          BY <1>4, <3>1, <3>2, <5>1
      <4>2. LatestRow(new, i, d, m, s)
        BY ONLY <3>1, <3>2, <4>1 DEF LatestRow
      <4>3. QED
        BY <1>3, <3>1, <4>2, LatestStands
    <3>5. CASE s.asOf < n
      <4>1. s.asOf <= n /\ d < n
        <5>1. d <= s.asOf
          BY <3>1, RowIsDated DEF RowsKnown
        <5>2. QED
          BY ONLY <1>3, <3>2, <3>5, <5>1
      <4>2. c = KnownFile(d, n)
        BY <1>3, <4>1
      <4>3. \A p \in rows : p.isin = i /\ p.day = d /\ p.asOf <= n =>
               p.asOf <= s.asOf /\ (p.asOf = s.asOf => p.quantity = s.quantity)
        <5>1. \A p \in rows : p.asOf <= n => p.asOf <= m
          <6>1. \A p \in rows : p.asOf \in Int
            BY <1>1, <1>3
          <6>2. QED
            BY ONLY <1>3, <1>12, <2>3, <6>1
        <5>2. QED
          BY <1>1, <1>4, <3>1, <5>1
      <4>4. StandingFigures(rows, i, d, n) = {q}
        <5>1. LatestRow(rows, i, d, n, s)
          BY ONLY <3>1, <4>1, <4>3 DEF LatestRow
        <5>2. QED
          BY <1>3, <3>1, <5>1, LatestStands
      <4>5. o.quantity = q
        <5>1. StandingFigures(rows, i, d, n) = {o.quantity} \/ Dated(rows, d, i, n)
          BY <2>1, <2>4, <2>5, <4>2 DEF Right
        <5>2. QED
          BY <2>2, <4>4, <5>1
      <4>6. \A p \in new : p.isin = i /\ p.day = d /\ p.asOf <= m =>
               p.asOf <= o.asOf /\ (p.asOf = o.asOf => p.quantity = o.quantity)
        <5>1. ASSUME NEW p \in new, p.isin = i, p.day = d, p.asOf <= m
              PROVE  p.asOf <= o.asOf
          <6>1. CASE p \in rows
            <7>1. p.asOf <= s.asOf /\ p.asOf \in Int
              BY <1>3, <3>1, <5>1, <6>1
            <7>2. QED
              BY ONLY <1>3, <2>1, <3>2, <3>5, <7>1
          <6>2. CASE p.asOf = n
            BY ONLY <1>3, <2>1, <6>2
          <6>3. QED
            BY <3>3, <6>1, <6>2
        <5>2. QED
          BY <1>4, <2>1, <5>1
      <4>7. o.asOf <= m
        BY ONLY <1>3, <1>12, <2>1, <2>3
      <4>8. LatestRow(new, i, d, m, o)
        BY ONLY <2>1, <4>6, <4>7 DEF LatestRow
      <4>9. QED
        BY <1>3, <4>5, <4>8, LatestStands
    <3>6. s.asOf < n \/ n < s.asOf
      BY ONLY <1>3, <3>2
    <3>7. QED
      BY <3>4, <3>5, <3>6
  <2>6. \A p : Dated(rows, d, i, p) => Dated(new, d, i, p)
    BY <1>1 DEF Dated
  <2>7. Right(new, d, i, m)
    BY <2>4, <2>5, <2>6 DEF Right
  <2>8. QED
    BY <2>7 DEF i
<1>13. ASSUME NEW r \in new, r.day = d, NEW m \in d .. r.asOf
       PROVE  Right(new, d, r.isin, m)
  <2>1. m \in Int /\ m <= r.asOf /\ r.asOf \in Int
    BY <1>3, <1>13
  <2>2. r \in rows => Right(rows, d, r.isin, m)
    BY <1>13 DEF Kept
  <2>3. CASE \A o \in new : o.isin = r.isin => o \in rows
    <3>1. StandingFigures(new, r.isin, d, m) = StandingFigures(rows, r.isin, d, m)
      BY <1>6, <2>1, <2>3
    <3>2. QED
      BY <1>1, <2>2, <2>3, <3>1, StaysRight
  <2>4. CASE ~\A o \in new : o.isin = r.isin => o \in rows
    <3>1. CASE m = n
      BY <1>7, <2>4, <3>1
    <3>2. CASE n < m
      <4>1. r \in rows
        <5>1. r.asOf # n
          BY ONLY <1>3, <2>1, <3>2
        <5>2. QED
          BY <1>2, <5>1
      <4>2. QED
        BY <1>12, <1>13, <2>4, <3>2, <4>1
    <3>3. CASE m < n
      <4>1. m \in d .. n /\ m # n
        BY ONLY <1>3, <1>13, <2>1, <3>3
      <4>2. ResolvedOn(d, r.isin)
        BY <1>7, <2>4
      <4>3. QED
        BY <1>9, <1>10, <4>1, <4>2
    <3>4. m = n \/ n < m \/ m < n
      BY ONLY <1>3, <2>1
    <3>5. QED
      BY <3>1, <3>2, <3>3, <3>4
  <2>5. QED
    BY <2>3, <2>4
<1>14. Kept(new, d)
  BY <1>13 DEF Kept
<1>15. QED
  BY <1>1, <1>11, <1>14

-----------------------------------------------------------------------------
(* Storing a day: its figures, then those of its corrected files.          *)

\* What a date adds to the figures stored.
Stepped(rows, d, n) ==
  IF corrected[d][n] = Missing THEN rows ELSE Written(rows, Changed(rows, d, n), d, n)

\* A run over the dates, from the figures of the day's own file.
Corrects(after, base, d) ==
  /\ after \in [0 .. LastNotice -> SUBSET Figure] /\ after[0] = base
  /\ \A n \in 1 .. LastNotice : after[n] = Stepped(after[n - 1], d, n)

\* A date adds figures.
LEMMA SteppedTyped ==
  ASSUME DeliveriesTypeOK, NEW d \in SettledDays, NEW n \in 1 .. LastNotice,
         NEW rows \in SUBSET Figure
  PROVE  Stepped(rows, d, n) \in SUBSET Figure
<1>1. n \in NoticeDates
  BY DEF NoticeDates
<1>2. CASE corrected[d][n] = Missing
  BY <1>2 DEF Stepped
<1>3. CASE corrected[d][n] # Missing
  <2>1. corrected[d][n] \in Contents
    BY <1>1, <1>3 DEF DeliveriesTypeOK
  <2>2. Changed(rows, d, n) \in SUBSET Readings
    BY <2>1, FiguresAreReadings DEF Changed
  <2>3. Adds(Written(rows, Changed(rows, d, n), d, n), rows, Changed(rows, d, n), d, n)
    BY <1>1, <2>2, WrittenRows
  <2>4. QED
    BY <1>3, <2>3 DEF Adds, Stepped
<1>4. QED
  BY <1>2, <1>3

\* Storing the corrected files is such a run.
LEMMA CorrectionsRun ==
  ASSUME DeliveriesTypeOK, NEW d \in SettledDays, NEW base \in SUBSET Figure
  PROVE  \E after : Corrects(after, base, d) /\ WithCorrections(base, d) = after[LastNotice]
<1> DEFINE Stores == SUBSET Figure
           G == [n \in 1 .. LastNotice |-> [rows \in Stores |-> Stepped(rows, d, n)]]
           Runs(f) == f = [n \in 0 .. LastNotice |->
                            IF n = 0 THEN base
                            ELSE IF corrected[d][n] = Missing THEN f[n - 1]
                            ELSE Written(f[n - 1], Changed(f[n - 1], d, n), d, n)]
<1>1. \A n \in 1 .. LastNotice, rows \in Stores :
        G[n][rows] = Stepped(rows, d, n) /\ Stepped(rows, d, n) \in Stores
  BY SteppedTyped
<1>2. G \in [1 .. LastNotice -> [Stores -> Stores]]
  BY <1>1
<1> HIDE DEF Stores, G
<1>3. base \in Stores
  BY DEF Stores
<1>4. PICK f \in [0 .. LastNotice -> Stores] : Recurs(f, base, G, LastNotice)
  BY ONLY <1>2, <1>3, LastNotice \in Nat, RecursionExists
<1>5. \A n \in 1 .. LastNotice : f[n] = Stepped(f[n - 1], d, n)
  <2>1. \A n \in 1 .. LastNotice : f[n - 1] \in Stores
    OBVIOUS
  <2>2. QED
    BY <1>1, <1>4, <2>1 DEF Recurs
<1>6. Runs(f)
  <2>1. f[0] = base
    BY <1>4 DEF Recurs
  <2>2. QED
    BY <1>5, <2>1 DEF Stepped
<1> DEFINE after == CHOOSE g : Runs(g)
<1>7. Runs(after)
  BY <1>6, Zenon
<1>8. WithCorrections(base, d) = after[LastNotice]
  BY DEF WithCorrections
<1> HIDE DEF after
<1>9. after[0] = base /\ \A n \in 1 .. LastNotice : after[n] = Stepped(after[n - 1], d, n)
  BY <1>7 DEF Stepped
<1>10. after = [n \in 0 .. LastNotice |-> after[n]]
  BY <1>7
<1>11. \A n \in 0 .. LastNotice : after[n] \in Stores
  <2> DEFINE Missed == {n \in 0 .. LastNotice : after[n] \notin Stores}
  <2>1. SUFFICES ASSUME Missed # {} PROVE FALSE
    OBVIOUS
  <2>2. PICK n \in Missed : \A m \in Missed : n <= m
    <3>1. Missed \subseteq Nat
      OBVIOUS
    <3> HIDE DEF Missed
    <3>2. QED
      BY <2>1, <3>1, LeastNatural
  <2>3. n # 0 /\ n \in 1 .. LastNotice
    BY <1>3, <1>9
  <2>4. n - 1 \in 0 .. LastNotice /\ ~(n <= n - 1)
    BY <2>3
  <2>5. after[n - 1] \in Stores
    BY <2>2, <2>4
  <2>6. after[n] \in Stores
    BY <1>1, <1>9, <2>3, <2>5
  <2>7. QED
    BY <2>6
<1>12. Corrects(after, base, d)
  BY <1>9, <1>10, <1>11 DEF Corrects, Stores
<1>13. QED
  BY <1>8, <1>12

\* A corrected file is held under the date it was noticed.
LEMMA CorrectedIsHeld ==
  ASSUME DeliveriesTypeOK, NEW d \in SettledDays, NEW n \in NoticeDates, corrected[d][n] # Missing
  PROVE  CopyHeld(corrected[d][n], d, n)
BY DEF DeliveriesTypeOK, CopyHeld

\* The corrected files of a day add known figures of it.
LEMMA CorrectionsKnown ==
  ASSUME DeliveriesTypeOK, NEW d \in SettledDays, NEW base, RowsKnown(base)
  PROVE  /\ RowsKnown(WithCorrections(base, d)) /\ base \subseteq WithCorrections(base, d)
         /\ \A r \in WithCorrections(base, d) : r \notin base => r.day = d
<1> DEFINE Good(rows) == RowsKnown(rows) /\ base \subseteq rows /\ \A r \in rows : r \notin base => r.day = d
<1>1. PICK after : Corrects(after, base, d) /\ WithCorrections(base, d) = after[LastNotice]
  BY CorrectionsRun DEF RowsKnown
<1>2. Good(after[0])
  BY <1>1 DEF Corrects
<1>3. ASSUME NEW n \in 1 .. LastNotice, Good(after[n - 1])
      PROVE  Good(after[n])
  <2>1. n \in NoticeDates
    BY DEF NoticeDates
  <2>2. after[n] = Stepped(after[n - 1], d, n)
    BY <1>1 DEF Corrects
  <2>3. CASE corrected[d][n] = Missing
    BY <1>3, <2>2, <2>3 DEF Stepped
  <2>4. CASE corrected[d][n] # Missing
    <3>1. after[n] = Written(after[n - 1], Changed(after[n - 1], d, n), d, n)
      BY <2>2, <2>4 DEF Stepped
    <3>2. Changed(after[n - 1], d, n) \in SUBSET FiguresOf(corrected[d][n], d)
      BY DEF Changed
    <3>3. /\ RowsKnown(after[n]) /\ after[n - 1] \subseteq after[n]
          /\ \A r \in after[n] : r \notin after[n - 1] => r.day = d
      BY <1>3, <2>1, <2>4, <3>1, <3>2, CorrectedIsHeld, WrittenKnown
    <3>4. QED
      BY <1>3, <3>3
  <2>5. QED
    BY <2>3, <2>4
<1> HIDE DEF Good
<1>4. Good(after[LastNotice])
  <2> DEFINE Missed == {n \in 0 .. LastNotice : ~Good(after[n])}
  <2>1. SUFFICES ASSUME Missed # {} PROVE FALSE
    OBVIOUS
  <2>2. PICK n \in Missed : \A m \in Missed : n <= m
    <3>1. Missed \subseteq Nat
      OBVIOUS
    <3> HIDE DEF Missed
    <3>2. QED
      BY <2>1, <3>1, LeastNatural
  <2>3. n # 0 /\ n \in 1 .. LastNotice
    BY <1>2
  <2>4. n - 1 \in 0 .. LastNotice /\ ~(n <= n - 1)
    BY <2>3
  <2>5. Good(after[n - 1])
    BY <2>2, <2>4
  <2>6. QED
    BY <1>3, <2>3, <2>5
<1>5. QED
  BY <1>1, <1>4 DEF Good

\* Where the day's own figures are right, so is what stands once its corrected files
\* are stored, as of every date.
LEMMA CorrectionsRight ==
  ASSUME DeliveriesTypeOK, NEW d \in SettledDays, CopiesInOrder(d),
         NEW base, RowsKnown(base), Kept(base, d),
         corrected[d][d] = Missing => RightUpTo(base, d, d)
  PROVE  /\ RowsKnown(WithCorrections(base, d)) /\ Kept(WithCorrections(base, d), d)
         /\ RightUpTo(WithCorrections(base, d), d, LastNotice)
<1> DEFINE Good(rows, n) == /\ RowsKnown(rows) /\ Kept(rows, d)
                            /\ n < d => rows = base
                            /\ d <= n => RightUpTo(rows, d, n)
<1>1. PICK after : Corrects(after, base, d) /\ WithCorrections(base, d) = after[LastNotice]
  BY CorrectionsRun DEF RowsKnown
<1>2. Good(after[0], 0)
  <2>1. ~(d <= 0)
    OBVIOUS
  <2>2. QED
    BY <1>1, <2>1 DEF Corrects
<1>3. ASSUME NEW n \in 1 .. LastNotice, Good(after[n - 1], n - 1)
      PROVE  Good(after[n], n)
  <2>1. n \in NoticeDates /\ n \in Int /\ d \in Int
    BY DEF NoticeDates
  <2>2. after[n] = Stepped(after[n - 1], d, n)
    BY <1>1 DEF Corrects
  <2>3. CASE n < d
    <3>1. corrected[d][n] = Missing
      BY <2>1, <2>3 DEF CopiesInOrder
    <3>2. after[n] = after[n - 1]
      BY <2>2, <3>1 DEF Stepped
    <3>3. n - 1 < d /\ ~(d <= n)
      BY <2>1, <2>3
    <3>4. QED
      BY <1>3, <3>2, <3>3
  <2>4. CASE d <= n
    <3>1. RowsKnown(after[n - 1]) /\ Kept(after[n - 1], d) /\ ~(n < d)
      BY <1>3, <2>1, <2>4
    <3>2. RightUpTo(after[n - 1], d, n - 1)
      <4>1. CASE d <= n - 1
        BY <1>3, <4>1
      <4>2. CASE ~(d <= n - 1)
        <5>1. \A m : m \notin d .. n - 1
          BY <2>1, <4>2
        <5>2. QED
          BY <5>1 DEF RightUpTo
      <4>3. QED
        BY <4>1, <4>2
    <3>3. CASE corrected[d][n] = Missing
      <4>1. after[n] = after[n - 1]
        BY <2>2, <3>3 DEF Stepped
      <4>2. CASE d < n
        <5>1. RightUpTo(after[n], d, n)
          BY <2>1, <3>1, <3>2, <3>3, <4>1, <4>2, SkipRight
        <5>2. QED
          BY <3>1, <4>1, <5>1
      <4>3. CASE n = d
        <5>1. after[n - 1] = base
          BY <1>3, <2>1, <4>3
        <5>2. RightUpTo(after[n], d, n)
          BY <3>3, <4>1, <4>3, <5>1
        <5>3. QED
          BY <3>1, <4>1, <5>2
      <4>4. QED
        BY <2>1, <2>4, <4>2, <4>3
    <3>4. CASE corrected[d][n] # Missing
      <4> DEFINE c == corrected[d][n]
                 figures == Changed(after[n - 1], d, n)
      <4>1. c = KnownFile(d, n) /\ NoticedOn(d, n) = n /\ CopyHeld(c, d, n)
        BY <2>1, <3>4, CorrectedIsKnown, CorrectedIsHeld
      <4>2. /\ figures \in SUBSET FiguresOf(c, d)
            /\ \A f \in FiguresOf(c, d) : f \notin figures =>
                 StandingFigures(after[n - 1], f.isin, d, LastNotice) = {f.quantity}
        BY DEF Changed
      <4>3. after[n] = Written(after[n - 1], figures, d, n)
        BY <2>2, <3>4 DEF Stepped
      <4> HIDE DEF c, figures
      <4>4. RowsKnown(after[n]) /\ Kept(after[n], d) /\ RightUpTo(after[n], d, n)
        BY <2>1, <2>4, <3>1, <3>2, <4>1, <4>2, <4>3, StepRight
      <4>5. QED
        BY <3>1, <4>4
    <3>5. QED
      BY <3>3, <3>4
  <2>5. QED
    BY <2>1, <2>3, <2>4
<1> HIDE DEF Good
<1>4. Good(after[LastNotice], LastNotice)
  <2> DEFINE Missed == {n \in 0 .. LastNotice : ~Good(after[n], n)}
  <2>1. SUFFICES ASSUME Missed # {} PROVE FALSE
    OBVIOUS
  <2>2. PICK n \in Missed : \A m \in Missed : n <= m
    <3>1. Missed \subseteq Nat
      OBVIOUS
    <3> HIDE DEF Missed
    <3>2. QED
      BY <2>1, <3>1, LeastNatural
  <2>3. n # 0 /\ n \in 1 .. LastNotice
    BY <1>2
  <2>4. n - 1 \in 0 .. LastNotice /\ ~(n <= n - 1)
    BY <2>3
  <2>5. Good(after[n - 1], n - 1)
    BY <2>2, <2>4
  <2>6. QED
    BY <1>3, <2>3, <2>5
<1>5. d <= LastNotice
  OBVIOUS
<1>6. QED
  BY <1>1, <1>4, <1>5 DEF Good

-----------------------------------------------------------------------------
(* Types.                                                                  *)

\* The start is typed.
LEMMA InitTyped ==
  ASSUME DeliveriesInit
  PROVE  DeliveriesTypeOK
<1>1. \E d \in SettledDays : \A e \in SettledDays : e <= d
  <2>1. SettledDays \subseteq 0 .. LastNotice /\ SettledDays # {}
    BY DeliveriesAssumption
  <2>2. QED
    BY <2>1, GreatestUpTo
<1>2. date \in NoticeDates
  <2>1. date \in SettledDays
    BY <1>1, Zenon DEF DeliveriesInit
  <2>2. QED
    BY <2>1
<1>3. AtRest \in Progress
  BY DEF AtRest, Progress
<1>4. 0 \in 0 .. MaxRereads
  BY DeliveriesAssumption
<1>5. QED
  BY <1>2, <1>3, <1>4 DEF DeliveriesInit, DeliveriesTypeOK

\* Of a typed record of the days left.
LEMMA ProgressTyped ==
  ASSUME DeliveriesTypeOK
  PROVE  /\ progress.rest \in SUBSET SettledDays /\ progress.again \in SUBSET SettledDays
         /\ progress.file \in {Missing} \union Contents
         /\ Reading => Day \in SettledDays /\ Day \in progress.rest
<1>1. /\ progress.rest \in SUBSET SettledDays /\ progress.again \in SUBSET SettledDays
      /\ progress.file \in {Missing} \union Contents
  BY DEF DeliveriesTypeOK, Progress
<1>2. Reading => Day \in progress.rest
  BY <1>1, DayIsLeft DEF Reading
<1>3. QED
  BY <1>1, <1>2

\* Every step but the commit keeps the types: the commit is CommitTyped's.
LEMMA StepTyped ==
  ASSUME DeliveriesTypeOK, [DeliveriesNext]_deliveryVars, ~CommitDelivery
  PROVE  DeliveriesTypeOK'
<1> USE DEF DeliveriesTypeOK
<1>1. CASE UNCHANGED deliveryVars
  BY <1>1 DEF deliveryVars
<1>2. CASE StartDelivery
  <2>1. LatestSettled \in SUBSET SettledDays
    BY DEF LatestSettled, Figure
  <2>2. progress' \in Progress
    <3>1. PICK again \in {{}, LatestSettled} :
            progress' = [rest |-> SettledDays, again |-> again, file |-> Missing]
      BY <1>2 DEF StartDelivery
    <3>2. again \in SUBSET SettledDays
      BY <2>1
    <3>3. QED
      BY <3>1, <3>2 DEF Progress
  <2>3. rereads' \in 0 .. MaxRereads
    BY <1>2, DeliveriesAssumption DEF StartDelivery
  <2>4. QED
    BY <1>2, <2>2, <2>3 DEF StartDelivery
<1>3. CASE RecheckDelivery
  <2>1. Day \in SettledDays
    BY <1>3, ProgressTyped DEF RecheckDelivery
  <2>2. progress' \in Progress
    BY <1>3, ProgressTyped DEF RecheckDelivery, Progress
  <2>3. corrected' \in [SettledDays -> [NoticeDates -> {Missing} \union Contents]]
    <3>1. CASE UNCHANGED corrected
      BY <3>1
    <3>2. CASE corrected' = [corrected EXCEPT ![Day][date] = posted[Day]]
      <4>1. corrected[Day] \in [NoticeDates -> {Missing} \union Contents]
        BY <2>1
      <4>2. posted[Day] \in {Missing} \union Contents
        BY <2>1
      <4>3. [corrected[Day] EXCEPT ![date] = posted[Day]] \in [NoticeDates -> {Missing} \union Contents]
        BY <4>1, <4>2
      <4>4. QED
        BY <2>1, <3>2, <4>3
    <3>3. QED
      BY <1>3, <3>1, <3>2 DEF RecheckDelivery
  <2>4. QED
    BY <1>3, <2>2, <2>3 DEF RecheckDelivery
<1>4. CASE FetchDelivery
  <2>1. Day \in SettledDays
    BY <1>4, ProgressTyped DEF FetchDelivery
  <2>2. \A c \in {Missing} \union Contents : Read(c) => progress' \in Progress
    BY ProgressTyped DEF Read, Progress
  <2>3. \A outcome \in {"not_published", "failed"} : PassOver(Day, outcome) =>
          progress' \in Progress /\ deliveryLog' \in [SettledDays -> {"none", "succeeded", "not_published", "failed"}]
    BY <2>1, ProgressTyped DEF PassOver, Progress
  <2>4. \A failures, session : OutcomeFor(failures, session) \in {"not_published", "failed"}
    BY DEF OutcomeFor
  <2>5. posted[Day] \in {Missing} \union Contents
    BY <2>1
  <2>6. /\ fullCopy' \in [SettledDays -> {Missing} \union Contents]
        /\ otherCopy' \in [SettledDays -> {Missing} \union Contents]
    BY <1>4, <2>1, <2>5 DEF FetchDelivery
  <2>7. /\ progress' \in Progress
        /\ deliveryLog' \in [SettledDays -> {"none", "succeeded", "not_published", "failed"}]
    <3>1. fullCopy[Day] \in {Missing} \union Contents /\ otherCopy[Day] \in {Missing} \union Contents
      BY <2>1
    <3>2. \/ \E c \in {Missing} \union Contents : Read(c) /\ deliveryLog' = deliveryLog
          \/ \E failures, session : PassOver(Day, OutcomeFor(failures, session))
      <4>1. CASE Read(fullCopy[Day]) /\ deliveryLog' = deliveryLog
        BY <3>1, <4>1
      <4>2. CASE Read(posted[Day]) /\ deliveryLog' = deliveryLog
        BY <2>5, <4>2
      <4>3. CASE Read(otherCopy[Day]) /\ deliveryLog' = deliveryLog
        BY <3>1, <4>3
      <4>4. CASE \E failures, session : PassOver(Day, OutcomeFor(failures, session))
        BY <4>4
      <4>5. QED
        BY <1>4, <4>1, <4>2, <4>3, <4>4, Zenon DEF FetchDelivery
    <3>3. QED
      BY <2>2, <2>3, <2>4, <3>2
  <2>8. QED
    BY <1>4, <2>6, <2>7 DEF FetchDelivery
<1>5. CASE KillDelivery
  <2>1. AtRest \in Progress
    BY DEF AtRest, Progress
  <2>2. QED
    BY <1>5, <2>1 DEF KillDelivery
<1>6. CASE \E d \in SettledDays : PostDelivery(d)
  BY <1>6 DEF PostDelivery
<1>7. CASE \E d \in SettledDays, outcome \in {"not_published", "succeeded"} : ReadPrices(d, outcome)
  BY <1>7 DEF ReadPrices
<1>8. CASE PassDate
  <2>1. date' \in NoticeDates
    BY <1>8 DEF PassDate, NoticeDates
  <2>2. QED
    BY <1>8, <2>1 DEF PassDate
<1>9. CASE DeriveListingsAgain
  BY <1>9 DEF DeriveListingsAgain
<1>10. QED
  BY <1>1, <1>2, <1>3, <1>4, <1>5, <1>6, <1>7, <1>8, <1>9 DEF DeliveriesNext

-----------------------------------------------------------------------------
(* What a step leaves of the copies and the figures.                       *)

\* Copies held stay as they are, save a correction noticed on a date one is held under,
\* which takes its place and is a later publication.
CopiesStay ==
  \A d \in SettledDays :
    /\ fullCopy[d] # Missing => fullCopy'[d] = fullCopy[d]
    /\ otherCopy[d] # Missing => otherCopy'[d] = otherCopy[d]
    /\ \A n \in NoticeDates : corrected[d][n] # Missing =>
         corrected'[d][n] # Missing /\ corrected[d][n] <= corrected'[d][n]

\* A content, or none, is a number.
LEMMA ContentIsANumber ==
  ASSUME NEW c \in {Missing} \union Contents
  PROVE  c \in Nat /\ c \in Int /\ c <= c
BY DEF Missing

\* What is held and posted of a day are numbers.
LEMMA ContentsAreNumbers ==
  ASSUME DeliveriesTypeOK, NEW d \in SettledDays
  PROVE  /\ posted[d] \in Nat /\ fullCopy[d] \in Nat /\ date \in Int
         /\ \A n \in NoticeDates : corrected[d][n] \in Nat
<1>1. Contents \subseteq Nat /\ Missing \in Nat
  BY DEF Missing
<1>2. posted[d] \in {Missing} \union Contents /\ fullCopy[d] \in {Missing} \union Contents
  BY DEF DeliveriesTypeOK
<1>3. corrected[d] \in [NoticeDates -> {Missing} \union Contents] /\ date \in NoticeDates
  BY DEF DeliveriesTypeOK
<1>4. \A n \in NoticeDates : corrected[d][n] \in {Missing} \union Contents
  BY <1>3
<1>5. QED
  BY <1>1, <1>2, <1>3, <1>4

\* A figure known stays known while the copies do.
LEMMA StaysKnown ==
  ASSUME CopiesStay, DeliveriesTypeOK, DeliveriesTypeOK', NEW r \in Figure, RowKnown(r)
  PROVE  RowKnown(r)'
<1>1. r.day \in SettledDays /\ r.asOf \in NoticeDates
  BY DEF Figure
<1>2. CASE /\ r.asOf = r.day
           /\ \E c \in {fullCopy[r.day], otherCopy[r.day]} :
                c # Missing /\ States(c, r.day, r.isin, r.quantity)
  <2>1. PICK c \in {fullCopy[r.day], otherCopy[r.day]} :
               c # Missing /\ States(c, r.day, r.isin, r.quantity)
    BY <1>2
  <2>2. c \in {fullCopy'[r.day], otherCopy'[r.day]}
    BY <1>1, <2>1 DEF CopiesStay
  <2>3. States(c, r.day, r.isin, r.quantity)'
    BY <2>1 DEF States, ListedUnder
  <2>4. QED
    BY <1>2, <2>1, <2>2, <2>3 DEF RowKnown
<1>3. CASE /\ corrected[r.day][r.asOf] # Missing
           /\ \E c \in Contents : c <= corrected[r.day][r.asOf] /\ States(c, r.day, r.isin, r.quantity)
  <2>1. PICK c \in Contents : c <= corrected[r.day][r.asOf] /\ States(c, r.day, r.isin, r.quantity)
    BY <1>3
  <2>2. /\ corrected'[r.day][r.asOf] # Missing
        /\ corrected[r.day][r.asOf] <= corrected'[r.day][r.asOf]
    BY <1>1, <1>3 DEF CopiesStay
  <2>3. c \in Int /\ corrected[r.day][r.asOf] \in Int /\ corrected'[r.day][r.asOf] \in Int
    <3>1. corrected'[r.day] \in [NoticeDates -> {Missing} \union Contents]
      BY <1>1 DEF DeliveriesTypeOK
    <3>2. corrected'[r.day][r.asOf] \in {Missing} \union Contents
      BY <1>1, <3>1
    <3>3. corrected[r.day] \in [NoticeDates -> {Missing} \union Contents]
      BY <1>1 DEF DeliveriesTypeOK
    <3>4. corrected[r.day][r.asOf] \in {Missing} \union Contents
      BY <1>1, <3>3
    <3>5. c \in {Missing} \union Contents
      OBVIOUS
    <3>6. QED
      BY ONLY <3>2, <3>4, <3>5, ContentIsANumber
  <2>4. c <= corrected'[r.day][r.asOf]
    BY ONLY <2>1, <2>2, <2>3
  <2>5. QED
    BY <1>3, <2>1, <2>2, <2>4 DEF RowKnown, States, ListedUnder
<1>4. QED
  BY <1>2, <1>3 DEF RowKnown

\* Every step keeps the copies held.
LEMMA StepKeepsCopies ==
  ASSUME FInv, [DeliveriesNext]_deliveryVars
  PROVE  CopiesStay
<1>1. CASE RecheckDelivery
  <2>1. Day \in SettledDays
    BY <1>1, ProgressTyped DEF RecheckDelivery, FInv
  <2>2. CASE UNCHANGED corrected
    <3>1. ASSUME NEW d \in SettledDays, NEW n \in NoticeDates
          PROVE  corrected[d][n] <= corrected'[d][n]
      <4>1. corrected[d][n] \in Nat /\ corrected'[d][n] = corrected[d][n]
        BY <2>2, ContentsAreNumbers DEF FInv
      <4>2. QED
        BY ONLY <4>1
    <3>2. QED
      BY <1>1, <2>2, <3>1 DEF RecheckDelivery, CopiesStay
  <2>3. CASE /\ fullCopy[Day] # Missing /\ posted[Day] \notin {Missing, LatestCopy(Day)}
             /\ corrected' = [corrected EXCEPT ![Day][date] = posted[Day]]
    <3>1. \A d \in SettledDays, n \in NoticeDates :
            corrected'[d][n] = IF d = Day /\ n = date THEN posted[Day] ELSE corrected[d][n]
      BY <2>1, <2>3 DEF FInv, DeliveriesTypeOK
    <3>2. ASSUME NEW d \in SettledDays, NEW n \in NoticeDates, corrected[d][n] # Missing
          PROVE  corrected'[d][n] # Missing /\ corrected[d][n] <= corrected'[d][n]
      <4>1. CASE d = Day /\ n = date
        <5>1. corrected[d][n] <= posted[d]
          BY <3>2 DEF FInv, CopiesInOrder
        <5>2. QED
          BY <2>3, <3>1, <4>1, <5>1
      <4>2. CASE ~(d = Day /\ n = date)
        <5>1. corrected'[d][n] = corrected[d][n] /\ corrected[d][n] \in Nat
          BY <3>1, <4>2, ContentsAreNumbers DEF FInv
        <5>2. QED
          BY <3>2, <5>1
      <4>3. QED
        BY <4>1, <4>2
    <3>3. QED
      BY <1>1, <3>2 DEF RecheckDelivery, CopiesStay
  <2>4. QED
    BY <1>1, <2>2, <2>3 DEF RecheckDelivery
<1>2. CASE FetchDelivery
  <2>1. corrected' = corrected
    BY <1>2 DEF FetchDelivery
  <2>2. \/ fullCopy' = fullCopy
        \/ fullCopy[Day] = Missing /\ fullCopy' = [fullCopy EXCEPT ![Day] = posted[Day]]
    BY <1>2 DEF FetchDelivery
  <2>3. \/ otherCopy' = otherCopy
        \/ otherCopy[Day] = Missing /\ otherCopy' = [otherCopy EXCEPT ![Day] = posted[Day]]
    BY <1>2 DEF FetchDelivery
  <2>4. \A d \in SettledDays : fullCopy[d] # Missing => fullCopy'[d] = fullCopy[d]
    BY <2>2 DEF FInv, DeliveriesTypeOK
  <2>5. \A d \in SettledDays : otherCopy[d] # Missing => otherCopy'[d] = otherCopy[d]
    BY <2>3 DEF FInv, DeliveriesTypeOK
  <2>6. \A d \in SettledDays, n \in NoticeDates : corrected[d][n] <= corrected'[d][n]
    BY <2>1, ContentsAreNumbers DEF FInv
  <2>7. QED
    BY <2>1, <2>4, <2>5, <2>6 DEF CopiesStay
<1>3. CASE ~RecheckDelivery /\ ~FetchDelivery
  <2>1. UNCHANGED <<fullCopy, otherCopy, corrected>>
    BY <1>3 DEF DeliveriesNext, deliveryVars, StartDelivery, CommitDelivery, KillDelivery,
                PostDelivery, ReadPrices, PassDate, DeriveListingsAgain
  <2>2. \A d \in SettledDays, n \in NoticeDates : corrected[d][n] <= corrected'[d][n]
    BY <2>1, ContentsAreNumbers DEF FInv
  <2>3. QED
    BY <2>1, <2>2 DEF CopiesStay
<1>4. QED
  BY <1>1, <1>2, <1>3

\* Only the commit stores a figure.
LEMMA OnlyCommitStores ==
  ASSUME [DeliveriesNext]_deliveryVars, ~CommitDelivery
  PROVE  settled' = settled
BY DEF DeliveriesNext, deliveryVars, StartDelivery, RecheckDelivery, FetchDelivery, KillDelivery,
       PostDelivery, ReadPrices, PassDate, DeriveListingsAgain

\* The copies of a day nothing happens to stay in order.
LEMMA IdleInOrder ==
  ASSUME NEW d \in SettledDays, CopiesInOrder(d), date' = date, posted'[d] = posted[d],
         fullCopy'[d] = fullCopy[d], corrected'[d] = corrected[d]
  PROVE  CopiesInOrder(d)'
BY DEF CopiesInOrder

\* A step keeps the copies in the order they are noticed.
LEMMA StepInOrder ==
  ASSUME FInv, [DeliveriesNext]_deliveryVars, NEW d \in SettledDays
  PROVE  CopiesInOrder(d)'
<1> USE DEF FInv
<1>0. /\ CopiesInOrder(d) /\ date \in NoticeDates
      /\ posted[d] \in Nat /\ fullCopy[d] \in Nat /\ date \in Int /\ d \in Int
      /\ \A n \in NoticeDates : corrected[d][n] \in Nat /\ n \in Int
  BY ContentsAreNumbers DEF DeliveriesTypeOK
<1>1. CASE RecheckDelivery
  <2>1. Day \in SettledDays
    BY <1>1, ProgressTyped DEF RecheckDelivery
  <2>2. CASE UNCHANGED corrected \/ d # Day
    <3>1. corrected'[d] = corrected[d]
      BY <1>1, <2>1, <2>2 DEF RecheckDelivery, DeliveriesTypeOK
    <3>2. QED
      BY <1>0, <1>1, <3>1, IdleInOrder DEF RecheckDelivery
  <2>3. CASE /\ fullCopy[d] # Missing /\ posted[d] \notin {Missing, LatestCopy(d)} /\ d = Day
             /\ corrected' = [corrected EXCEPT ![d][date] = posted[d]]
    <3>1. \A n \in NoticeDates : corrected'[d][n] = IF n = date THEN posted[d] ELSE corrected[d][n]
      BY <2>3 DEF DeliveriesTypeOK
    <3>2. UNCHANGED <<date, posted, fullCopy>>
      BY <1>1 DEF RecheckDelivery
    <3>3. ASSUME NEW n \in NoticeDates, corrected'[d][n] # Missing
          PROVE  /\ d <= n /\ n <= date /\ fullCopy[d] # Missing
                 /\ fullCopy[d] <= corrected'[d][n] /\ corrected'[d][n] <= posted[d]
      <4>1. CASE n = date
        BY <1>0, <2>3, <3>1, <4>1 DEF CopiesInOrder
      <4>2. CASE n # date
        BY <1>0, <3>1, <3>3, <4>2 DEF CopiesInOrder
      <4>3. QED
        BY <4>1, <4>2
    <3>4. QED
      BY <1>0, <3>2, <3>3 DEF CopiesInOrder
  <2>4. QED
    BY <1>1, <2>2, <2>3 DEF RecheckDelivery
<1>2. CASE FetchDelivery
  <2>1. UNCHANGED <<date, posted, corrected>> /\ Day \in SettledDays
    BY <1>2, ProgressTyped DEF FetchDelivery
  <2>2. CASE fullCopy' = fullCopy \/ d # Day
    <3>1. fullCopy'[d] = fullCopy[d]
      BY <1>2, <2>2 DEF FetchDelivery, DeliveriesTypeOK
    <3>2. QED
      BY <1>0, <2>1, <3>1, IdleInOrder
  <2>3. CASE /\ fullCopy' # fullCopy /\ d = Day
    <3>1. /\ fullCopy[d] = Missing /\ "file" \in Serves(d)
          /\ fullCopy' = [fullCopy EXCEPT ![d] = posted[d]]
      BY <1>2, <2>3, Zenon DEF FetchDelivery
    <3>2. fullCopy'[d] = posted[d]
      BY <3>1 DEF DeliveriesTypeOK
    <3>3. \A n \in NoticeDates : corrected[d][n] = Missing
      BY <1>0, <3>1 DEF CopiesInOrder
    <3>4. QED
      BY <1>0, <2>1, <3>2, <3>3 DEF CopiesInOrder
  <2>4. QED
    BY <2>2, <2>3
<1>3. CASE \E e \in SettledDays : PostDelivery(e)
  <2>1. PICK e \in SettledDays : PostDelivery(e)
    BY <1>3
  <2>2. UNCHANGED <<date, fullCopy, corrected>>
    BY <2>1 DEF PostDelivery
  <2>3. posted'[d] = posted[d] \/ posted'[d] = posted[d] + 1
    BY <2>1 DEF PostDelivery, DeliveriesTypeOK
  <2>4. fullCopy[d] <= posted'[d]
    BY <1>0, <2>3 DEF CopiesInOrder
  <2>5. \A n \in NoticeDates : corrected[d][n] # Missing => corrected[d][n] <= posted'[d]
    BY <1>0, <2>3 DEF CopiesInOrder
  <2>6. QED
    BY <1>0, <2>2, <2>4, <2>5 DEF CopiesInOrder
<1>4. CASE PassDate
  <2>1. UNCHANGED <<posted, fullCopy, corrected>> /\ date' = date + 1
    BY <1>4 DEF PassDate
  <2>2. d <= date' /\ \A n \in NoticeDates : n <= date => n <= date'
    <3>1. d <= date
      BY <1>0 DEF CopiesInOrder
    <3>2. QED
      BY ONLY <1>0, <2>1, <3>1
  <2>3. QED
    BY <1>0, <2>1, <2>2 DEF CopiesInOrder
<1>5. CASE UNCHANGED <<date, posted, fullCopy, corrected>>
  BY <1>0, <1>5, IdleInOrder
<1>6. QED
  BY <1>1, <1>2, <1>3, <1>4, <1>5 DEF DeliveriesNext, deliveryVars, StartDelivery, CommitDelivery,
     KillDelivery, ReadPrices, DeriveListingsAgain

\* The file a step leaves read is one held of the day left first.
LEMMA StepFileHeld ==
  ASSUME FInv, [DeliveriesNext]_deliveryVars
  PROVE  FileHeld'
<1> USE DEF FInv
<1>1. CASE RecheckDelivery
  <2>1. progress'.rest = progress.rest /\ progress'.file = progress.file
    BY <1>1, ProgressTyped DEF RecheckDelivery, DeliveriesTypeOK, Progress
  <2>2. Day' = Day /\ Reading' = Reading
    BY <2>1 DEF Day, Reading
  <2>3. QED
    BY <1>1, <2>1, <2>2 DEF FileHeld, RecheckDelivery
<1>2. CASE FetchDelivery
  <2>1. SUFFICES ASSUME progress'.file # Missing
                 PROVE  Reading' /\ progress'.file \in {fullCopy'[Day'], otherCopy'[Day']}
    BY DEF FileHeld
  <2>2. progress.file = Missing /\ Reading /\ Day \in SettledDays
    BY <1>2, ProgressTyped DEF FetchDelivery
  <2>3. \A outcome : PassOver(Day, outcome) => progress'.file = progress.file
    BY ProgressTyped DEF PassOver, DeliveriesTypeOK, Progress
  <2>4. \A c : Read(c) => progress'.rest = progress.rest /\ progress'.file = c
    BY ProgressTyped DEF Read, DeliveriesTypeOK, Progress
  <2>5. /\ progress'.rest = progress.rest
        /\ progress'.file \in {fullCopy'[Day], otherCopy'[Day]}
    <3>1. CASE Read(fullCopy[Day]) /\ UNCHANGED fullCopy
      BY <2>4, <3>1
    <3>2. CASE Read(posted[Day]) /\ fullCopy' = [fullCopy EXCEPT ![Day] = posted[Day]]
      BY <2>2, <2>4, <3>2 DEF DeliveriesTypeOK
    <3>3. CASE Read(otherCopy[Day]) /\ UNCHANGED otherCopy
      BY <2>4, <3>3
    <3>4. CASE Read(posted[Day]) /\ otherCopy' = [otherCopy EXCEPT ![Day] = posted[Day]]
      BY <2>2, <2>4, <3>4 DEF DeliveriesTypeOK
    <3>5. CASE \E outcome : PassOver(Day, outcome)
      BY <2>1, <2>2, <2>3, <3>5
    <3>6. QED
      BY <1>2, <3>1, <3>2, <3>3, <3>4, <3>5, Zenon DEF FetchDelivery
  <2>6. Day' = Day /\ Reading' = Reading
    BY <2>5 DEF Day, Reading
  <2>7. QED
    BY <2>2, <2>5, <2>6
<1>3. CASE StartDelivery \/ CommitDelivery \/ KillDelivery
  <2>1. progress'.file = Missing
    <3>1. CASE StartDelivery
      <4>1. PICK again \in {{}, LatestSettled} :
              progress' = [rest |-> SettledDays, again |-> again, file |-> Missing]
        BY <3>1 DEF StartDelivery
      <4>2. QED
        BY <4>1
    <3>2. CASE CommitDelivery
      <4>1. progress' = [progress EXCEPT !.rest = @ \ {Day}, !.file = Missing]
        BY <3>2 DEF CommitDelivery
      <4>2. QED
        BY <4>1 DEF DeliveriesTypeOK, Progress
    <3>3. CASE KillDelivery
      BY <3>3 DEF KillDelivery, AtRest
    <3>4. QED
      BY <1>3, <3>1, <3>2, <3>3
  <2>2. QED
    BY <2>1 DEF FileHeld
<1>4. CASE UNCHANGED <<progress, fullCopy, otherCopy>>
  BY <1>4 DEF FileHeld, Reading, Day
<1>5. QED
  BY <1>1, <1>2, <1>3, <1>4 DEF DeliveriesNext, deliveryVars, PostDelivery, ReadPrices, PassDate,
     DeriveListingsAgain

-----------------------------------------------------------------------------
(* The commit.                                                             *)

\* What a commit stores, over what was stored.
LEMMA CommitStores ==
  ASSUME FInv, CommitDelivery
  PROVE  /\ Day \in SettledDays /\ CopyHeld(progress.file, Day, Day)
         /\ settled' = WithCorrections(Written(settled, FiguresOf(progress.file, Day), Day, Day), Day)
         /\ RowsKnown(Written(settled, FiguresOf(progress.file, Day), Day, Day))
         /\ RowsKnown(settled') /\ settled \subseteq settled'
         /\ \A r \in settled' : r \notin settled => r.day = Day
<1> DEFINE base == Written(settled, FiguresOf(progress.file, Day), Day, Day)
<1>1. Day \in SettledDays /\ progress.file \in Contents
  BY ProgressTyped DEF CommitDelivery, FInv
<1>2. CopyHeld(progress.file, Day, Day)
  BY <1>1 DEF CopyHeld, FInv, FileHeld, CommitDelivery
<1>3. settled' = WithCorrections(base, Day)
  BY DEF CommitDelivery
<1>4. RowsKnown(settled)
  BY DEF FInv, RowsKnown, DeliveriesTypeOK
<1>5. /\ RowsKnown(base) /\ settled \subseteq base
      /\ \A r \in base : r \notin settled => r.day = Day
  BY <1>1, <1>2, <1>4, WrittenKnown DEF FInv
<1> HIDE DEF base
<1>6. /\ RowsKnown(WithCorrections(base, Day)) /\ base \subseteq WithCorrections(base, Day)
      /\ \A r \in WithCorrections(base, Day) : r \notin base => r.day = Day
  BY <1>1, <1>5, CorrectionsKnown DEF FInv
<1>7. QED
  BY <1>1, <1>2, <1>3, <1>5, <1>6 DEF base

\* The commit keeps the types.
LEMMA CommitTyped ==
  ASSUME FInv, CommitDelivery
  PROVE  DeliveriesTypeOK'
<1>1. Day \in SettledDays /\ settled' \in SUBSET Figure
  BY CommitStores DEF RowsKnown
<1>2. progress' \in Progress
  <2>1. progress' = [progress EXCEPT !.rest = @ \ {Day}, !.file = Missing]
    BY DEF CommitDelivery
  <2>2. progress \in Progress
    BY DEF FInv, DeliveriesTypeOK
  <2>3. QED
    BY <2>1, <2>2 DEF Progress
<1>3. deliveryLog' \in [SettledDays -> {"none", "succeeded", "not_published", "failed"}]
  BY <1>1 DEF FInv, DeliveriesTypeOK, CommitDelivery
<1>4. QED
  BY <1>1, <1>2, <1>3 DEF FInv, DeliveriesTypeOK, CommitDelivery

-----------------------------------------------------------------------------
(* The invariant, and what follows of it.                                  *)

\* The start satisfies the invariant.
LEMMA InitFInv ==
  ASSUME DeliveriesInit
  PROVE  FInv
<1>1. DeliveriesTypeOK
  BY InitTyped
<1>2. \A d \in SettledDays : CopiesInOrder(d)
  <2>1. \E d \in SettledDays : \A e \in SettledDays : e <= d
    <3>1. SettledDays \subseteq 0 .. LastNotice /\ SettledDays # {}
      BY DeliveriesAssumption
    <3>2. QED
      BY <3>1, GreatestUpTo
  <2>2. \A d \in SettledDays : d <= date
    BY <2>1, Zenon DEF DeliveriesInit
  <2>3. \A d \in SettledDays : /\ fullCopy[d] = Missing /\ posted[d] = Missing
                               /\ \A n \in NoticeDates : corrected[d][n] = Missing
    BY DEF DeliveriesInit
  <2>4. QED
    BY <2>2, <2>3 DEF CopiesInOrder, Missing
<1>3. settled = {} /\ progress.file = Missing
  BY DEF DeliveriesInit, AtRest
<1>4. QED
  BY <1>1, <1>2, <1>3 DEF FInv, FileHeld, OneRowADate

\* Every step keeps it.
LEMMA NextFInv ==
  ASSUME FInv, [DeliveriesNext]_deliveryVars
  PROVE  FInv'
<1>0. RowsKnown(settled')
  <2>1. CASE CommitDelivery
    BY <2>1, CommitStores
  <2>2. CASE ~CommitDelivery
    BY <2>2, OnlyCommitStores DEF FInv, DeliveriesTypeOK, RowsKnown
  <2>3. QED
    BY <2>1, <2>2
<1>1. DeliveriesTypeOK'
  BY CommitTyped, StepTyped DEF FInv
<1>2. \A d \in SettledDays : CopiesInOrder(d)'
  BY StepInOrder
<1>3. \A r \in settled' : RowKnown(r)'
  <2>1. CopiesStay
    BY StepKeepsCopies
  <2>2. \A r \in settled' : r \in Figure /\ RowKnown(r)
    BY <1>0 DEF RowsKnown
  <2>3. DeliveriesTypeOK
    BY DEF FInv
  <2>4. QED
    BY <1>1, <2>1, <2>2, <2>3, StaysKnown
<1>4. FileHeld'
  BY StepFileHeld
<1>5. OneRowADate(settled)'
  BY <1>0 DEF RowsKnown, OneRowADate
<1>6. QED
  BY <1>1, <1>2, <1>3, <1>4, <1>5 DEF FInv

\* For any files, listings and runs, the copies, the figures and the run keep their
\* types: every figure stored is of a day, a date and a quantity a file can state.
THEOREM DeliveriesTypeCorrect == DeliveriesSpec => []DeliveriesTypeOK
<1>1. DeliveriesInit => FInv
  BY InitFInv
<1>2. FInv /\ [DeliveriesNext]_deliveryVars => FInv'
  BY NextFInv
<1>3. FInv => DeliveriesTypeOK
  BY DEF FInv
<1>4. QED
  BY <1>1, <1>2, <1>3, PTL DEF DeliveriesSpec

\* Where each identifier is that of one instrument among those with a bar on the day, a
\* day's figure under it counts for one instrument, whichever listings had been derived
\* each time a file was read.
THEOREM FiguresHaveOneOwner ==
  ASSUME OneOwnerEach
  PROVE  DeliveriesSpec => []OneOwnerOfAFigure
<1>1. DeliveriesInit => FInv
  BY InitFInv
<1>2. FInv /\ [DeliveriesNext]_deliveryVars => FInv'
  BY NextFInv
<1>3. FInv => OneOwnerOfAFigure
  <2>1. SUFFICES ASSUME FInv, NEW r \in settled, NEW s \in settled, r.day = s.day, r.isin # s.isin,
                        NEW k \in Identifiers, ListedUnder(r.day, k, r.isin), ListedUnder(r.day, k, s.isin)
                 PROVE  FALSE
    BY DEF OneOwnerOfAFigure
  <2>2. /\ r.isin \in Priced[r.day] /\ s.isin \in Priced[r.day] /\ r.day \in SettledDays
    BY <2>1 DEF FInv, RowKnown, DeliveriesTypeOK, Figure
  <2>3. QED
    BY <2>1, <2>2 DEF OneOwnerEach
<1>4. QED
  BY <1>1, <1>2, <1>3, PTL DEF DeliveriesSpec

-----------------------------------------------------------------------------
(* What can be read as of each date.                                       *)

\* Figures right by the files known before are right after a step that stores nothing and
\* leaves what was known as it was, save on a date they have a figure of themselves.
LEMMA KeptAfter ==
  ASSUME NEW d \in SettledDays, Kept(settled', d),
         \A r \in settled' : r.day = d => \A n \in d .. r.asOf :
           \/ KnownFile(d, n)' = KnownFile(d, n) /\ NoticedOn(d, n)' = NoticedOn(d, n)
           \/ n = r.asOf /\ NoticedOn(d, n)' = n
  PROVE  Kept(settled, d)'
<1>1. ASSUME NEW r \in settled', r.day = d, NEW n \in d .. r.asOf
      PROVE  Right(settled, d, r.isin, n)'
  <2>1. Right(settled', d, r.isin, n)
    BY <1>1 DEF Kept
  <2>2. ASSUME OneIdentifier(d, r.isin), NEW q \in Nat, States(KnownFile(d, n)', d, r.isin, q)
        PROVE  StandingFigures(settled', r.isin, d, n) = {q} \/ Dated(settled', d, r.isin, NoticedOn(d, n)')
    <3>1. CASE KnownFile(d, n)' = KnownFile(d, n) /\ NoticedOn(d, n)' = NoticedOn(d, n)
      BY <2>1, <2>2, <3>1 DEF Right
    <3>2. CASE n = r.asOf /\ NoticedOn(d, n)' = n
      BY <1>1, <3>2 DEF Dated
    <3>3. QED
      BY <1>1, <3>1, <3>2
  <2>3. QED
    BY <2>2 DEF Right, StandingFigures, States, ListedUnder, OneIdentifier, Dated
<1>2. QED
  BY <1>1 DEF Kept

\* What was noticed by a date is the same while the corrections up to it are.
LEMMA NoticedAlike ==
  ASSUME NEW d \in SettledDays, NEW n,
         \A k \in NoticeDates : k <= n => corrected'[d][k] = corrected[d][k]
  PROVE  NoticedBy(d, n)' = NoticedBy(d, n) /\ NoticedOn(d, n)' = NoticedOn(d, n)
<1>1. NoticedBy(d, n)' = NoticedBy(d, n)
  BY DEF NoticedBy
<1> DEFINE On(N) == IF N = {} THEN d ELSE CHOOSE k \in N : \A j \in N : j <= k
<1>2. NoticedOn(d, n) = On(NoticedBy(d, n)) /\ NoticedOn(d, n)' = On(NoticedBy(d, n)')
  BY Zenon DEF NoticedOn
<1> HIDE DEF On
<1>3. QED
  BY <1>1, <1>2

\* And so is the file known.
LEMMA KnownAlike ==
  ASSUME NEW d \in SettledDays, NEW n, fullCopy'[d] = fullCopy[d],
         \A k \in NoticeDates : k <= n => corrected'[d][k] = corrected[d][k]
  PROVE  KnownFile(d, n)' = KnownFile(d, n) /\ NoticedOn(d, n)' = NoticedOn(d, n)
<1>1. NoticedBy(d, n)' = NoticedBy(d, n) /\ NoticedOn(d, n)' = NoticedOn(d, n)
  BY NoticedAlike
<1>2. CASE NoticedBy(d, n) = {}
  BY <1>1, <1>2 DEF KnownFile
<1>3. CASE NoticedBy(d, n) # {}
  <2> DEFINE m == NoticedOn(d, n)
  <2>1. m \in NoticeDates /\ m <= n
    BY <1>3, NoticedIsLast DEF NoticedBy
  <2>2. corrected'[d][m] = corrected[d][m]
    BY <2>1
  <2>3. KnownFile(d, n)' = corrected'[d][m] /\ KnownFile(d, n) = corrected[d][m]
    BY <1>1, <1>3 DEF KnownFile
  <2>4. QED
    BY <1>1, <2>2, <2>3
<1>4. QED
  BY <1>2, <1>3, <1>1

\* A commit makes right what stands of the day's figures as of every date.
LEMMA CommitRight ==
  ASSUME KInv, CommitDelivery, OneContent(Day)
  PROVE  RowsKnown(settled') /\ Kept(settled', Day) /\ RightUpTo(settled', Day, LastNotice)
<1> DEFINE d == Day
           c == progress.file
           base == Written(settled, FiguresOf(c, d), d, d)
<1>1. /\ d \in SettledDays /\ CopyHeld(c, d, d) /\ settled' = WithCorrections(base, d)
      /\ RowsKnown(base)
  BY CommitStores DEF KInv
<1>2. DeliveriesTypeOK /\ CopiesInOrder(d) /\ OneContent(d) /\ Kept(settled, d) /\ RowsKnown(settled)
  BY <1>1 DEF KInv, FInv, RowsKnown, DeliveriesTypeOK
<1>3. corrected[d][d] = Missing => c = KnownFile(d, d)
  <2>1. c \in {fullCopy[d], otherCopy[d]} /\ c # Missing
    BY DEF KInv, FInv, FileHeld, CommitDelivery
  <2>2. c = fullCopy[d]
    BY <1>2, <2>1 DEF OneContent
  <2>3. QED
    BY <1>1, <1>2, <2>2, FirstIsKnown
<1>4. RightUpTo(settled, d, d - 1)
  <2>1. \A m : m \notin d .. d - 1
    BY <1>1
  <2>2. QED
    BY <2>1 DEF RightUpTo
<1> HIDE DEF d, c
<1>5. d \in NoticeDates /\ d <= d /\ NoticedOn(d, d) = d
  BY <1>1, <1>2, FirstIsKnown
<1>6. Kept(base, d) /\ (c = KnownFile(d, d) => RightUpTo(base, d, d))
  BY <1>1, <1>2, <1>4, <1>5, StepRight
<1> HIDE DEF base
<1>7. RowsKnown(settled') /\ Kept(settled', d) /\ RightUpTo(settled', d, LastNotice)
  BY <1>1, <1>2, <1>3, <1>6, CorrectionsRight
<1>8. QED
  BY <1>7 DEF d

\* A step leaves the figures of a day right as far as they go.
LEMMA StepKept ==
  ASSUME KInv, [DeliveriesNext]_deliveryVars, NEW d \in SettledDays, OneContent(d)'
  PROVE  Kept(settled, d)'
<1>1. /\ DeliveriesTypeOK /\ CopiesInOrder(d) /\ FInv /\ date \in NoticeDates
      /\ OneContent(d) => Kept(settled, d)
  BY DEF KInv, FInv, DeliveriesTypeOK
<1>2. CASE CommitDelivery
  <2>1. UNCHANGED <<fullCopy, otherCopy, corrected>>
    BY <1>2 DEF CommitDelivery
  <2>2. OneContent(d) /\ \A n : KnownFile(d, n)' = KnownFile(d, n) /\ NoticedOn(d, n)' = NoticedOn(d, n)
    BY <2>1, KnownAlike DEF OneContent
  <2>3. Kept(settled', d)
    <3>1. CASE d = Day
      BY <1>2, <2>2, <3>1, CommitRight
    <3>2. CASE d # Day
      <4>1. settled \subseteq settled' /\ \A r \in settled' : r.day = d => r \in settled
        BY <1>1, <1>2, <3>2, CommitStores
      <4>2. ASSUME NEW r \in settled', r.day = d, NEW n \in d .. r.asOf
            PROVE  Right(settled', d, r.isin, n)
        <5>1. Right(settled, d, r.isin, n)
          BY <1>1, <2>2, <4>1, <4>2 DEF Kept
        <5>2. StandingFigures(settled', r.isin, d, n) = StandingFigures(settled, r.isin, d, n)
          BY <4>1, StandsAlike
        <5>3. QED
          BY <4>1, <5>1, <5>2, StaysRight
      <4>3. QED
        BY <4>2 DEF Kept
    <3>3. QED
      BY <3>1, <3>2
  <2>4. QED
    BY <2>2, <2>3, KeptAfter
<1>3. CASE ~CommitDelivery /\ fullCopy'[d] = fullCopy[d] /\ otherCopy'[d] = otherCopy[d]
  <2>1. OneContent(d) /\ settled' = settled /\ Kept(settled', d)
    BY <1>1, <1>3, OnlyCommitStores DEF OneContent
  <2>2. CASE corrected'[d] = corrected[d]
    <3>1. \A n : KnownFile(d, n)' = KnownFile(d, n) /\ NoticedOn(d, n)' = NoticedOn(d, n)
      BY <1>3, <2>2, KnownAlike
    <3>2. QED
      BY <2>1, <3>1, KeptAfter
  <2>3. CASE corrected'[d] # corrected[d]
    <3>1. RecheckDelivery
      BY <2>3 DEF DeliveriesNext, deliveryVars, StartDelivery, FetchDelivery, CommitDelivery,
         KillDelivery, PostDelivery, ReadPrices, PassDate, DeriveListingsAgain
    <3>2. Day \in SettledDays
      BY <1>1, <3>1, ProgressTyped DEF RecheckDelivery
    <3>3. /\ posted[Day] # Missing /\ corrected' = [corrected EXCEPT ![Day][date] = posted[Day]]
      BY <2>3, <3>1 DEF RecheckDelivery
    <3>4. d = Day
      BY <1>1, <2>3, <3>2, <3>3 DEF DeliveriesTypeOK
    <3>5. \A n \in NoticeDates : corrected'[d][n] = IF n = date THEN posted[d] ELSE corrected[d][n]
      BY <1>1, <3>3, <3>4 DEF DeliveriesTypeOK
    <3>6. ASSUME NEW n \in NoticeDates, n = date
          PROVE  NoticedOn(d, n)' = n
      <4> DEFINE N == NoticedBy(d, n)'
                 m == CHOOSE k \in N : \A j \in N : j <= k
      <4>1. N = {k \in NoticeDates : k <= n /\ corrected'[d][k] # Missing}
        BY DEF NoticedBy
      <4>2. corrected'[d][n] # Missing
        BY <3>3, <3>4, <3>5, <3>6
      <4>3. n \in N /\ (\A k \in N : k <= n) /\ \A k \in N : k \in NoticeDates
        BY <4>1, <4>2
      <4>4. NoticedOn(d, n)' = IF N = {} THEN d ELSE m
        BY Zenon DEF NoticedOn
      <4> HIDE DEF N
      <4>5. m \in N /\ \A k \in N : k <= m
        BY <4>3, Zenon
      <4> HIDE DEF m
      <4>6. m <= n /\ n <= m /\ m \in Int /\ n \in Int
        BY <4>3, <4>5
      <4>7. m = n
        BY ONLY <4>6
      <4>8. QED
        BY <4>3, <4>4, <4>7
    <3>7. ASSUME NEW r \in settled', r.day = d, NEW n \in d .. r.asOf
          PROVE  \/ KnownFile(d, n)' = KnownFile(d, n) /\ NoticedOn(d, n)' = NoticedOn(d, n)
                 \/ n = r.asOf /\ NoticedOn(d, n)' = n
      <4>1. r \in Figure /\ RowKnown(r)
        BY <1>1, <2>1 DEF FInv, DeliveriesTypeOK
      <4>2. r.asOf \in Int /\ r.asOf <= date
        BY <1>1, <3>7, <4>1, RowIsDated
      <4>3. n \in Int /\ n <= r.asOf /\ date \in Int
        BY <1>1, <3>7, <4>2
      <4>4. CASE n = date
        <5>1. r.asOf = date
          BY ONLY <4>2, <4>3, <4>4
        <5>2. NoticedOn(d, n)' = n
          BY <1>1, <3>6, <4>4
        <5>3. QED
          BY <4>4, <5>1, <5>2
      <4>5. CASE n # date
        <5>1. ~(date <= n)
          BY ONLY <4>2, <4>3, <4>5
        <5>2. \A k \in NoticeDates : k <= n => corrected'[d][k] = corrected[d][k]
          BY <3>5, <5>1
        <5>3. QED
          BY <1>3, <5>2, KnownAlike
      <4>6. QED
        BY <4>4, <4>5
    <3>8. QED
      BY <2>1, <3>7, KeptAfter
  <2>4. QED
    BY <2>2, <2>3
<1>4. CASE ~CommitDelivery /\ ~(fullCopy'[d] = fullCopy[d] /\ otherCopy'[d] = otherCopy[d])
  <2>1. FetchDelivery
    BY <1>4 DEF DeliveriesNext, deliveryVars, StartDelivery, RecheckDelivery, CommitDelivery,
       KillDelivery, PostDelivery, ReadPrices, PassDate, DeriveListingsAgain
  <2>2. fullCopy[d] = Missing
    <3>1. CASE otherCopy' = otherCopy
      <4>1. fullCopy'[d] # fullCopy[d]
        BY <1>4, <3>1
      <4>2. CopiesStay
        BY <1>1, StepKeepsCopies
      <4>3. QED
        BY <4>1, <4>2 DEF CopiesStay
    <3>2. CASE otherCopy' # otherCopy
      <4>1. UNCHANGED fullCopy /\ fullCopy[Day] = Missing
            /\ otherCopy' = [otherCopy EXCEPT ![Day] = posted[Day]]
        BY <2>1, <3>2, Zenon DEF FetchDelivery
      <4>2. d = Day
        BY <1>1, <1>4, <4>1 DEF DeliveriesTypeOK
      <4>3. QED
        BY <4>1, <4>2
    <3>3. QED
      BY <3>1, <3>2
  <2>3. settled' = settled /\ corrected' = corrected
    BY <1>4, <2>1, OnlyCommitStores DEF FetchDelivery
  <2>4. \A n \in NoticeDates : corrected[d][n] = Missing
    BY <1>1, <2>2 DEF CopiesInOrder
  <2>5. NoticedOn(d, d)' = d
    <3>1. NoticedOn(d, d)' = NoticedOn(d, d)
      BY <2>3, NoticedAlike
    <3>2. QED
      BY <1>1, <3>1, FirstIsKnown
  \* What is stored already was read from the other file, and is of the day.
  <2>6. ASSUME NEW r \in settled', r.day = d, NEW n \in d .. r.asOf
        PROVE  Right(settled, d, r.isin, n)'
    <3>1. r \in settled /\ r \in Figure /\ RowKnown(r)
      BY <1>1, <2>3 DEF FInv, DeliveriesTypeOK
    <3>2. r.asOf = d
      BY <1>1, <2>4, <2>6, <3>1, RowIsDated
    <3>3. n = d /\ Dated(settled', d, r.isin, d)
      BY <2>6, <3>2 DEF Dated
    <3>4. Dated(settled, d, r.isin, NoticedOn(d, n))'
      BY <2>5, <3>3 DEF Dated
    <3>5. QED
      BY <3>4 DEF Right
  <2>7. QED
    BY <2>6 DEF Kept
<1>5. QED
  BY <1>2, <1>3, <1>4

\* Where what stands as of a date is not what the file known then states, though the date it
\* was noticed on has a figure, that figure is an earlier publication's.
LEMMA DatedIsForestalled ==
  ASSUME DeliveriesTypeOK, NEW d \in SettledDays, CopiesInOrder(d), OneContent(d),
         NEW rows, RowsKnown(rows), NEW n \in d .. LastNotice, NEW i, OneIdentifier(d, i),
         NEW q \in Nat, States(KnownFile(d, n), d, i, q), Dated(rows, d, i, NoticedOn(d, n))
  PROVE  StandingFigures(rows, i, d, n) = {q} \/ Forestalled(rows, d, i, n)
<1> DEFINE m == NoticedOn(d, n)
<1>1. PICK r \in rows : r.isin = i /\ r.day = d /\ r.asOf = m
  BY DEF Dated
<1>2. /\ r \in Figure /\ RowKnown(r) /\ r.quantity \in Nat /\ rows \in SUBSET Figure
      /\ n \in Int /\ d \in Int /\ d <= n
  BY DEF RowsKnown, Figure
<1>3. r.asOf \in NoticeDates /\ r.asOf \in Int
  BY <1>1, <1>2, RowIsDated
<1>4. \A o \in rows : o.isin = i /\ o.day = d /\ o.asOf <= n => o.asOf <= m
  <2>1. ASSUME NEW o \in rows, o.isin = i, o.day = d, o.asOf <= n
        PROVE  o.asOf <= m
    <3>1. /\ o.asOf \in NoticeDates /\ o.asOf \in Int /\ d <= o.asOf
          /\ o.asOf = d \/ corrected[d][o.asOf] # Missing
      BY <2>1, RowIsDated DEF RowsKnown
    <3>2. CASE corrected[d][o.asOf] # Missing
      <4>1. o.asOf \in NoticedBy(d, n)
        BY <2>1, <3>1, <3>2 DEF NoticedBy
      <4>2. QED
        BY <4>1, NoticedIsLast
    <3>3. CASE o.asOf = d
      <4>1. d <= r.asOf
        BY <1>1, <1>2, RowIsDated
      <4>2. QED
        BY <1>1, <3>3, <4>1
    <3>4. QED
      BY <3>1, <3>2, <3>3
  <2>2. QED
    BY <2>1
<1>5. m <= n
  <2>1. CASE NoticedBy(d, n) = {}
    BY <1>2, <2>1 DEF NoticedOn
  <2>2. CASE NoticedBy(d, n) # {}
    BY <2>2, NoticedIsLast DEF NoticedBy
  <2>3. QED
    BY <2>1, <2>2
<1>6. StandingFigures(rows, i, d, n) = {r.quantity}
  <2>1. \A o \in rows : o.isin = i /\ o.day = d /\ o.asOf = r.asOf => o.quantity = r.quantity
    BY <1>1 DEF RowsKnown, OneRowADate
  <2>2. LatestRow(rows, i, d, n, r)
    BY <1>1, <1>4, <1>5, <2>1 DEF LatestRow
  <2>3. QED
    BY <1>2, <2>2, LatestStands
<1>7. CASE r.quantity # q
  <2> DEFINE k == KnownFile(d, n)
  <2>1. \A c : States(c, d, i, r.quantity) => c # k
    BY <1>7, StatesOne
  <2>2. k \in Contents /\ k \in Nat
    BY KnownIsContent DEF OneContent
  <2>3. \E c \in Contents : c <= k /\ States(c, d, i, r.quantity)
    <3>1. CASE /\ corrected[d][m] # Missing
               /\ \E c \in Contents : c <= corrected[d][m] /\ States(c, d, i, r.quantity)
      <4>1. k = corrected[d][m]
        <5>1. m \in NoticedBy(d, n)
          BY <1>1, <1>3, <1>5, <3>1 DEF NoticedBy
        <5>2. QED
          BY <5>1, NoticedIsLast
      <4>2. QED
        BY <3>1, <4>1
    <3>2. CASE m = d /\ \E c \in {fullCopy[d], otherCopy[d]} : c # Missing /\ States(c, d, i, r.quantity)
      <4>1. States(fullCopy[d], d, i, r.quantity) /\ fullCopy[d] \in Contents
        BY <3>2 DEF OneContent, DeliveriesTypeOK
      <4>2. fullCopy[d] <= k
        <5>1. CASE NoticedBy(d, n) = {}
          BY <2>2, <5>1 DEF KnownFile
        <5>2. CASE NoticedBy(d, n) # {}
          <6>1. m \in NoticeDates /\ corrected[d][m] # Missing /\ k = corrected[d][m]
            BY <5>2, NoticedIsLast DEF NoticedBy
          <6>2. QED
            BY <6>1 DEF CopiesInOrder
        <5>3. QED
          BY <5>1, <5>2
      <4>3. QED
        BY <4>1, <4>2
    <3>3. QED
      BY <1>1, <1>2, <3>1, <3>2 DEF RowKnown
  <2> HIDE DEF k
  <2>4. PICK c \in Contents : c <= k /\ States(c, d, i, r.quantity) /\ c # k
    BY <2>1, <2>3
  <2>5. c \in Nat
    OBVIOUS
  <2>6. c < k
    BY ONLY <2>2, <2>4, <2>5
  <2>7. QED
    BY <1>1, <2>4, <2>6 DEF Forestalled, k
<1>8. QED
  BY <1>6, <1>7

\* What was known of a day on every date can be read as of it once the day is read, however
\* its corrections were noticed, lost with a killed run and stored again, save where the date
\* the file was noticed on has an earlier publication's figure.
THEOREM FiguresAreKnownAsOf == DeliveriesSpec => FiguresKnownAsOf
<1>1. DeliveriesInit => KInv
  <2>1. SUFFICES ASSUME DeliveriesInit PROVE KInv
    OBVIOUS
  <2>2. FInv /\ settled = {}
    BY <2>1, InitFInv DEF DeliveriesInit
  <2>3. QED
    BY <2>2 DEF KInv, Kept
<1>2. KInv /\ [DeliveriesNext]_deliveryVars => KInv'
  <2>1. SUFFICES ASSUME KInv, [DeliveriesNext]_deliveryVars PROVE KInv'
    OBVIOUS
  <2>2. FInv'
    BY <2>1, NextFInv DEF KInv
  <2>3. \A d \in SettledDays : OneContent(d)' => Kept(settled, d)'
    BY <2>1, StepKept
  <2>4. QED
    BY <2>2, <2>3 DEF KInv
<1> DEFINE Known == \A n \in Day .. LastNotice : \A f \in FiguresOf(KnownFile(Day, n), Day) :
                      OneIdentifier(Day, f.isin) =>
                        \/ StandingFigures(settled', f.isin, Day, n) = {f.quantity}
                        \/ Forestalled(settled', Day, f.isin, n)
<1>3. ASSUME KInv, CommitDelivery, fullCopy[Day] # Missing, otherCopy[Day] \in {Missing, fullCopy[Day]}
      PROVE  Known
  <2>1. RowsKnown(settled') /\ RightUpTo(settled', Day, LastNotice)
    BY <1>3, CommitRight DEF OneContent
  <2>2. Day \in SettledDays /\ DeliveriesTypeOK /\ CopiesInOrder(Day)
    BY <1>3, CommitStores DEF KInv, FInv
  <2>3. ASSUME NEW n \in Day .. LastNotice, NEW f \in FiguresOf(KnownFile(Day, n), Day),
               OneIdentifier(Day, f.isin)
        PROVE  \/ StandingFigures(settled', f.isin, Day, n) = {f.quantity}
               \/ Forestalled(settled', Day, f.isin, n)
    <3>1. KnownFile(Day, n) \in Contents
      BY <1>3, <2>2, KnownIsContent
    <3>2. /\ ResolvedOn(Day, f.isin) /\ States(KnownFile(Day, n), Day, f.isin, f.quantity)
          /\ f.quantity \in Nat
      BY <2>2, <3>1, FigureStated
    <3>3. \/ StandingFigures(settled', f.isin, Day, n) = {f.quantity}
          \/ Dated(settled', Day, f.isin, NoticedOn(Day, n))
      BY <2>1, <2>3, <3>2 DEF RightUpTo, Right
    <3>4. OneContent(Day)
      BY <1>3 DEF OneContent
    <3>5. QED
      BY <2>1, <2>2, <2>3, <3>2, <3>3, <3>4, DatedIsForestalled
  <2>4. QED
    BY <2>3
<1>4. KInv /\ [DeliveriesNext]_deliveryVars =>
        [CommitDelivery =>
           LET d == Day
           IN  fullCopy[d] # Missing /\ otherCopy[d] \in {Missing, fullCopy[d]}
                 => \A n \in d .. LastNotice : \A f \in FiguresOf(KnownFile(d, n), d) :
                      OneIdentifier(d, f.isin) =>
                        \/ StandingFigures(settled', f.isin, d, n) = {f.quantity}
                        \/ Forestalled(settled', d, f.isin, n)]_deliveryVars
  BY <1>3
<1>5. QED
  BY <1>1, <1>2, <1>4, PTL DEF DeliveriesSpec, FiguresKnownAsOf

-----------------------------------------------------------------------------
(* CorporateActions, for any announcements, wordings and histories.        *)
(*                                                                         *)
(* The argument: an action answered under an ISIN that is its own of now   *)
(* is looked up under it, and without a cycle of successions the ISIN of   *)
(* now is one nothing follows, so it is its own (IsinNowStays).            *)
(* Of two versions under one ISIN of now the one of the greater ISIN is    *)
(* held, and what a commit adds dates from today, after all that was held: *)
(* so whatever it stores or withdraws is what stands of it.                *)

\* What the walk to the current ISIN is at.
WalkSteps == Cardinality(ActionIsins)
Walks == [now: ActionIsins, seen: SUBSET ActionIsins]

\* There are finitely many ISINs, so a walk has a number of steps.
LEMMA WalkStepsAreCounted == WalkSteps \in Nat
BY CorporateActionsAssumption, FS_CardinalityType DEF WalkSteps

\* What follows an ISIN is an ISIN.
LEMMA FollowedByIsins ==
  ASSUME history \in 1 .. 2, NEW i
  PROVE  /\ FollowedBy(i) \subseteq ActionIsins
         /\ \A j \in FollowedBy(i) : <<i, j>> \in Present.links \union Present.otherLinks
         /\ FollowedBy(i) # {} => Following(i) \in FollowedBy(i)
<1>1. Present.links \subseteq ActionIsins \X ActionIsins /\ Present.otherLinks \subseteq ActionIsins \X ActionIsins
  BY CorporateActionsAssumption DEF Present
<1>2. \A j \in FollowedBy(i) : <<i, j>> \in Present.links \union Present.otherLinks
  <2>1. SUFFICES ASSUME NEW j \in FollowedBy(i)
                 PROVE  <<i, j>> \in Present.links \union Present.otherLinks
    OBVIOUS
  <2>2. PICK l \in Present.links \union Present.otherLinks : l[1] = i /\ l[2] = j
    BY DEF FollowedBy
  <2>3. l = <<l[1], l[2]>>
    BY <1>1, <2>2
  <2>4. QED
    BY <2>2, <2>3
<1>3. FollowedBy(i) \subseteq ActionIsins
  BY <1>1, <1>2
<1>4. FollowedBy(i) # {} => Following(i) \in FollowedBy(i)
  BY DEF Following
<1>5. QED
  BY <1>2, <1>3, <1>4

\* A step of the walk stays among the ISINs.
LEMMA OnwardTyped ==
  ASSUME history \in 1 .. 2, NEW w \in Walks
  PROVE  Onward(w) \in Walks
BY FollowedByIsins DEF Onward, Walks

\* The ISIN of now is where the walk is after as many steps as there are ISINs.
LEMMA WalkIs ==
  ASSUME history \in 1 .. 2, NEW i \in ActionIsins
  PROVE  \E walk : /\ \A n \in 0 .. WalkSteps : walk[n] \in Walks
                   /\ walk[0] = [now |-> i, seen |-> {i}]
                   /\ \A n \in 1 .. WalkSteps : walk[n] = Onward(walk[n - 1])
                   /\ IsinNow(i) = IF i \in Present.master THEN walk[WalkSteps].now ELSE i
<1> DEFINE start == [now |-> i, seen |-> {i}]
           G == [n \in 1 .. WalkSteps |-> [w \in Walks |-> Onward(w)]]
           Runs(f) == f = [n \in 0 .. WalkSteps |-> IF n = 0 THEN start ELSE Onward(f[n - 1])]
<1>1. start \in Walks
  BY DEF Walks
<1>2. \A n \in 1 .. WalkSteps, w \in Walks : G[n][w] = Onward(w)
  OBVIOUS
<1>3. G \in [1 .. WalkSteps -> [Walks -> Walks]]
  BY OnwardTyped
<1> HIDE DEF G, start
<1>4. PICK f \in [0 .. WalkSteps -> Walks] : Recurs(f, start, G, WalkSteps)
  BY ONLY <1>1, <1>3, WalkStepsAreCounted, RecursionExists
<1>5. Runs(f)
  <2>1. f[0] = start
    BY <1>4 DEF Recurs
  <2>2. \A n \in 1 .. WalkSteps : f[n] = Onward(f[n - 1])
    <3>1. \A n \in 1 .. WalkSteps : f[n - 1] \in Walks
      BY WalkStepsAreCounted
    <3>2. QED
      BY <1>2, <1>4, <3>1 DEF Recurs
  <2>3. QED
    BY <2>1, <2>2, WalkStepsAreCounted
<1> DEFINE walk == CHOOSE g : Runs(g)
<1>6. Runs(walk)
  BY <1>5, Zenon
<1>7. IsinNow(i) = IF i \in Present.master THEN walk[WalkSteps].now ELSE i
  BY DEF IsinNow, WalkSteps, start
<1> HIDE DEF walk
<1>8. walk[0] = start /\ \A n \in 1 .. WalkSteps : walk[n] = Onward(walk[n - 1])
  BY <1>6, WalkStepsAreCounted
<1>9. \A n \in 0 .. WalkSteps : walk[n] \in Walks
  <2> DEFINE K == [n \in 0 .. WalkSteps |-> Walks]
  <2>1. \A n \in 0 .. WalkSteps : K[n] = Walks
    OBVIOUS
  <2> HIDE DEF K
  <2>2. walk[0] \in K[0]
    BY <1>1, <1>8, <2>1, WalkStepsAreCounted
  <2>3. \A n \in 1 .. WalkSteps : walk[n - 1] \in K[n - 1] => walk[n] \in K[n]
    <3>1. \A n \in 1 .. WalkSteps : n \in 0 .. WalkSteps /\ n - 1 \in 0 .. WalkSteps
      BY WalkStepsAreCounted
    <3>2. QED
      BY <1>8, <2>1, <3>1, OnwardTyped
  <2>4. \A n \in 0 .. WalkSteps : walk[n] \in K[n]
    BY ONLY <2>2, <2>3, WalkStepsAreCounted, CarriedAlong
  <2>5. QED
    BY <2>1, <2>4
<1>10. QED
  BY <1>7, <1>8, <1>9 DEF start

\* The ISIN of now is an ISIN.
LEMMA IsinNowTyped ==
  ASSUME history \in 1 .. 2, NEW i \in ActionIsins
  PROVE  IsinNow(i) \in ActionIsins
<1>1. PICK walk : /\ \A n \in 0 .. WalkSteps : walk[n] \in Walks
                  /\ IsinNow(i) = IF i \in Present.master THEN walk[WalkSteps].now ELSE i
  BY WalkIs
<1>2. walk[WalkSteps] \in Walks
  BY <1>1, WalkStepsAreCounted
<1>3. QED
  BY <1>1, <1>2 DEF Walks

\* Where no ISIN follows one that follows it, nothing follows where a walk ends.
LEMMA NothingFollows ==
  ASSUME NoCycles, history \in 1 .. 2, NEW i \in ActionIsins, i \in Present.master
  PROVE  FollowedBy(IsinNow(i)) = {}
<1>1. PICK walk : /\ \A n \in 0 .. WalkSteps : walk[n] \in Walks
                  /\ walk[0] = [now |-> i, seen |-> {i}]
                  /\ \A n \in 1 .. WalkSteps : walk[n] = Onward(walk[n - 1])
                  /\ IsinNow(i) = walk[WalkSteps].now
  BY WalkIs
<1>2. PICK place \in [ActionIsins -> 0 .. WalkSteps] :
        \A l \in Present.links \union Present.otherLinks : place[l[1]] < place[l[2]]
  BY DEF NoCycles, WalkSteps, Present
<1>3. \A j \in ActionIsins : place[j] \in Int /\ 0 <= place[j] /\ place[j] <= WalkSteps
  BY WalkStepsAreCounted
<1>4. \A j \in ActionIsins : FollowedBy(j) # {} =>
        Following(j) \in ActionIsins /\ place[j] < place[Following(j)]
  <2>1. SUFFICES ASSUME NEW j \in ActionIsins, FollowedBy(j) # {}
                 PROVE  Following(j) \in ActionIsins /\ place[j] < place[Following(j)]
    OBVIOUS
  <2>2. Following(j) \in ActionIsins /\ <<j, Following(j)>> \in Present.links \union Present.otherLinks
    BY <2>1, FollowedByIsins
  <2>3. QED
    BY <1>2, <2>2
<1> DEFINE Ahead(w, n) == /\ \A j \in w.seen : place[j] <= place[w.now]
                          /\ FollowedBy(w.now) = {} \/ n <= place[w.now]
           K == [n \in 0 .. WalkSteps |-> {w \in Walks : Ahead(w, n)}]
<1>5. \A n \in 0 .. WalkSteps : \A w : w \in K[n] <=> w \in Walks /\ Ahead(w, n)
  OBVIOUS
<1>6. walk[0] \in K[0]
  <2>1. 0 \in 0 .. WalkSteps
    BY WalkStepsAreCounted
  <2>2. walk[0] \in Walks /\ place[i] \in Int /\ 0 <= place[i]
    BY <1>1, <1>3, <2>1
  <2>3. Ahead(walk[0], 0)
    BY <1>1, <2>2
  <2>4. QED
    BY <1>5, <2>1, <2>2, <2>3
<1>7. ASSUME NEW n \in 1 .. WalkSteps, walk[n - 1] \in K[n - 1]
      PROVE  walk[n] \in K[n]
  <2>1. n \in 0 .. WalkSteps /\ n - 1 \in 0 .. WalkSteps /\ n \in Int
    BY WalkStepsAreCounted
  <2> DEFINE w == walk[n - 1]
  <2>2. w \in Walks /\ Ahead(w, n - 1) /\ walk[n] \in Walks /\ walk[n] = Onward(w)
    BY <1>1, <1>5, <1>7, <2>1
  <2> HIDE DEF w, K
  <2>3. w.now \in ActionIsins /\ w.seen \subseteq ActionIsins
    BY <2>2 DEF Walks
  <2>4. Ahead(walk[n], n)
    <3>1. CASE FollowedBy(w.now) = {}
      BY <2>2, <3>1 DEF Onward
    <3>2. CASE FollowedBy(w.now) # {}
      <4>1. Following(w.now) \in ActionIsins /\ place[w.now] < place[Following(w.now)]
        BY <1>4, <2>3, <3>2
      <4>2. Following(w.now) \notin w.seen
        BY <1>3, <2>2, <2>3, <4>1
      <4>3. walk[n].now = Following(w.now) /\ walk[n].seen = w.seen \union {Following(w.now)}
        BY <2>2, <3>2, <4>2 DEF Onward
      <4>4. \A j \in w.seen : place[j] <= place[Following(w.now)]
        BY <1>3, <2>2, <2>3, <4>1
      <4>5. n <= place[Following(w.now)]
        <5>1. n - 1 <= place[w.now]
          BY <2>2, <3>2
        <5>2. place[w.now] \in Int /\ place[Following(w.now)] \in Int
          BY <1>3, <2>3, <4>1
        <5>3. QED
          BY ONLY <2>1, <4>1, <5>1, <5>2
      <4>6. place[Following(w.now)] <= place[Following(w.now)]
        BY <1>3, <4>1
      <4>7. QED
        BY <4>3, <4>4, <4>5, <4>6
    <3>3. QED
      BY <3>1, <3>2
  <2>5. QED
    BY <1>5, <2>1, <2>2, <2>4
<1>8. \A n \in 0 .. WalkSteps : walk[n] \in K[n]
  <2> HIDE DEF K
  <2>1. QED
    BY ONLY <1>6, <1>7, WalkStepsAreCounted, CarriedAlong
<1>9. walk[WalkSteps] \in Walks /\ Ahead(walk[WalkSteps], WalkSteps)
  <2>1. WalkSteps \in 0 .. WalkSteps
    BY WalkStepsAreCounted
  <2>2. QED
    BY <1>5, <1>8, <2>1
<1> DEFINE j == walk[WalkSteps].now
<1>10. j \in ActionIsins /\ (FollowedBy(j) = {} \/ WalkSteps <= place[j])
  BY <1>9 DEF Walks
<1> HIDE DEF j, K
<1>11. FollowedBy(j) = {}
  <2>1. SUFFICES ASSUME FollowedBy(j) # {} PROVE FALSE
    OBVIOUS
  <2>2. Following(j) \in ActionIsins /\ place[j] < place[Following(j)]
    BY <1>4, <1>10, <2>1
  <2>3. place[j] \in Int /\ place[Following(j)] \in Int /\ place[Following(j)] <= WalkSteps
    BY <1>3, <1>10, <2>2
  <2>4. QED
    BY ONLY <1>10, <2>1, <2>2, <2>3, WalkStepsAreCounted
<1>12. QED
  BY <1>1, <1>11 DEF j

\* So the ISIN of now is its own.
LEMMA IsinNowStays ==
  ASSUME NoCycles, history \in 1 .. 2, NEW i \in ActionIsins
  PROVE  IsinNow(IsinNow(i)) = IsinNow(i)
<1> DEFINE j == IsinNow(i)
<1>1. j \in ActionIsins
  BY IsinNowTyped
<1>2. PICK walk : /\ walk[0] = [now |-> j, seen |-> {j}]
                  /\ \A n \in 1 .. WalkSteps : walk[n] = Onward(walk[n - 1])
                  /\ IsinNow(j) = IF j \in Present.master THEN walk[WalkSteps].now ELSE j
  <2> HIDE DEF j
  <2>1. QED
    BY <1>1, WalkIs
<1>3. CASE i \notin Present.master
  <2>1. PICK w : IsinNow(i) = IF i \in Present.master THEN w[WalkSteps].now ELSE i
    BY WalkIs
  <2>2. j = i
    BY <1>3, <2>1
  <2>3. QED
    BY <2>2
<1>4. CASE i \in Present.master
  <2>1. FollowedBy(j) = {}
    BY <1>4, NothingFollows
  <2> HIDE DEF j
  <2> DEFINE start == [now |-> j, seen |-> {j}]
             K == [n \in 0 .. WalkSteps |-> {start}]
  <2>2. Onward(start) = start
    BY <2>1 DEF Onward
  <2> HIDE DEF start
  <2>3. \A n \in 0 .. WalkSteps : \A w : w \in K[n] <=> w = start
    OBVIOUS
  <2> HIDE DEF K
  <2>4. walk[0] \in K[0]
    BY <1>2, <2>3, WalkStepsAreCounted DEF start
  <2>5. \A n \in 1 .. WalkSteps : walk[n - 1] \in K[n - 1] => walk[n] \in K[n]
    <3>1. \A n \in 1 .. WalkSteps : n \in 0 .. WalkSteps /\ n - 1 \in 0 .. WalkSteps
      BY WalkStepsAreCounted
    <3>2. QED
      BY <1>2, <2>2, <2>3, <3>1
  <2>6. \A n \in 0 .. WalkSteps : walk[n] \in K[n]
    BY ONLY <2>4, <2>5, WalkStepsAreCounted, CarriedAlong
  <2>7. walk[WalkSteps] = start
    BY <2>3, <2>6, WalkStepsAreCounted
  <2>8. IsinNow(j) = j
    BY <1>2, <2>7 DEF start
  <2>9. QED
    BY <2>8 DEF j
<1>5. QED
  BY <1>3, <1>4

-----------------------------------------------------------------------------
(* What a row says, and of whom.                                           *)

\* What the wordings find in a text, and what is made of it.
LEMMA TermsTyped ==
  ASSUME release \in 1 .. 2, NEW t \in Texts
  PROVE  /\ Positive(Wordings[release][t].bonus) => BonusTerms(Wordings[release][t]) \in ActionTerms
         /\ Positive(Wordings[release][t].face) => FaceChange(Wordings[release][t]) \in ActionTerms
         /\ \A d \in Wordings[release][t].dividends : DividendTerms(d) \in ActionTerms
         /\ UnhandledTerms(t) \in ActionTerms
<1> DEFINE w == Wordings[release][t]
<1>1. w \in Wording
  BY CorporateActionsAssumption
<1> HIDE DEF w
<1>2. w.bonus \in Nat \X Nat /\ w.face \in Nat \X Nat
      /\ w.dividends \subseteq [kind: DividendKinds, amount: Nat]
  BY <1>1 DEF Wording
<1>3. ASSUME NEW k \in ActionKinds, NEW a \in Nat, NEW b \in Nat
      PROVE  RatioTerms(k, a, b) \in ActionTerms
  <2>1. "ordinary" \in DividendKinds \union Texts
    BY DEF DividendKinds
  <2>2. [kind |-> k, qualifier |-> "ordinary", from |-> a, to |-> b, amount |-> 0] \in ActionTerms
    BY <1>3, <2>1 DEF ActionTerms
  <2>3. QED
    BY <2>2 DEF RatioTerms
<1>4. BonusTerms(w) \in ActionTerms
  <2>1. w.bonus[2] \in Nat /\ w.bonus[1] + w.bonus[2] \in Nat
    BY <1>2
  <2>2. QED
    BY <1>3, <2>1 DEF BonusTerms, ActionKinds
<1>5. Positive(w.face) => FaceChange(w) \in ActionTerms
  <2>1. SUFFICES ASSUME Positive(w.face) PROVE FaceChange(w) \in ActionTerms
    OBVIOUS
  <2>2. w.face[1] \in Nat /\ w.face[2] \in Nat /\ w.face[1] > 0 /\ w.face[2] > 0
    BY <1>2, <2>1 DEF Positive
  <2>3. \A a \in Nat, b \in Nat : b > 0 => a \div b \in Nat
    OBVIOUS
  <2>4. w.face[2] \div w.face[1] \in Nat /\ w.face[1] \div w.face[2] \in Nat
    BY <2>2, <2>3
  <2>5. QED
    BY <1>3, <2>4 DEF FaceChange, ActionKinds
<1>6. \A d \in w.dividends : DividendTerms(d) \in ActionTerms
  BY <1>2 DEF DividendTerms, ActionTerms, ActionKinds
<1>7. UnhandledTerms(t) \in ActionTerms
  BY DEF UnhandledTerms, ActionTerms, ActionKinds
<1>8. QED
  BY <1>4, <1>5, <1>6, <1>7 DEF w

\* Either venue's parser reads terms.
LEMMA ParsedTyped ==
  ASSUME release \in 1 .. 2, NEW t \in Texts
  PROVE  ParsePurpose(t) \subseteq ActionTerms /\ ParseSubject(t) \subseteq ActionTerms
<1> DEFINE w == Wordings[release][t]
<1>1. /\ Positive(w.bonus) => BonusTerms(w) \in ActionTerms
      /\ Positive(w.face) => FaceChange(w) \in ActionTerms
      /\ \A d \in w.dividends : DividendTerms(d) \in ActionTerms
      /\ UnhandledTerms(t) \in ActionTerms
  BY TermsTyped
<1>2. ParsePurpose(t) \subseteq ActionTerms
  <2>1. w.dividends # {} => (CHOOSE d \in w.dividends: TRUE) \in w.dividends
    OBVIOUS
  <2>2. ParsePurpose(t) = IF Positive(w.bonus) THEN {BonusTerms(w)}
                          ELSE IF Positive(w.face) THEN {FaceChange(w)}
                          ELSE IF w.dividends # {} THEN {DividendTerms(CHOOSE d \in w.dividends: TRUE)}
                          ELSE IF w.notice THEN {}
                          ELSE {UnhandledTerms(t)}
    BY DEF ParsePurpose
  <2> HIDE DEF w
  <2>3. QED
    BY <1>1, <2>1, <2>2
<1>3. ParseSubject(t) \subseteq ActionTerms
  <2> DEFINE found == (IF Positive(w.bonus) THEN {BonusTerms(w)} ELSE {})
                        \union (IF Positive(w.face) /\ w.face[1] # w.face[2] THEN {FaceChange(w)} ELSE {})
                        \union {DividendTerms(d): d \in {e \in w.dividends: e.amount > 0}}
  <2>1. found \subseteq ActionTerms
    <3> HIDE DEF w
    <3>1. QED
      BY <1>1
  <2>2. \E unread \in BOOLEAN :
          ParseSubject(t) = IF found # {} THEN found \union {u \in {UnhandledTerms(t)}: unread}
                            ELSE IF w.notice THEN {} ELSE {UnhandledTerms(t)}
    <3> DEFINE kinds == {u.kind: u \in found}
               unread == \/ w.namesDividend /\ "dividend" \notin kinds
                         \/ w.namesSplit /\ kinds \intersect {"split", "consolidation"} = {}
    <3>1. ParseSubject(t) = IF found # {} THEN found \union {u \in {UnhandledTerms(t)}: unread}
                            ELSE IF w.notice THEN {} ELSE {UnhandledTerms(t)}
      BY DEF ParseSubject
    <3> HIDE DEF found, w, kinds
    <3>2. unread \in BOOLEAN
      OBVIOUS
    <3>3. QED
      BY <3>1, <3>2
  <2> HIDE DEF found, w
  <2>3. QED
    BY <1>1, <2>1, <2>2
<1>4. QED
  BY <1>2, <1>3

\* The first and the last of some stretches are among them.
LEMMA EndsAreSpans ==
  ASSUME NEW spans \in SUBSET Span, spans # {}
  PROVE  /\ FirstOf(spans) \in spans
         /\ IsFiniteSet(spans) => LastOf(spans) \in spans
<1> DEFINE opened == {s.first : s \in spans}
<1>1. opened \subseteq Nat /\ opened # {}
  BY DEF Span
<1>2. PICK least \in opened : \A n \in opened : least <= n
  <2> HIDE DEF opened
  <2>1. QED
    BY <1>1, LeastNatural
<1>3. \E s \in spans: \A t \in spans: s.first <= t.first
  BY <1>2
<1>4. FirstOf(spans) \in spans
  BY <1>3, Zenon DEF FirstOf
<1>5. ASSUME IsFiniteSet(spans) PROVE LastOf(spans) \in spans
  <2> DEFINE f == [s \in spans |-> s.first]
  <2>1. IsFiniteSet({f[s] : s \in spans})
    <3>1. f = [s \in spans |-> f[s]]
      OBVIOUS
    <3> HIDE DEF f
    <3>2. QED
      BY ONLY <1>5, <3>1, FiniteImage
  <2>2. {f[s] : s \in spans} = opened
    OBVIOUS
  <2>3. PICK most \in opened : \A n \in opened : n <= most
    <3>1. IsFiniteSet(opened)
      BY <2>1, <2>2
    <3> HIDE DEF opened
    <3>2. QED
      BY <1>1, <3>1, GreatestNatural
  <2>4. \E s \in spans: \A t \in spans: t.first <= s.first
    BY <2>3
  <2>5. QED
    BY <2>4, Zenon DEF LastOf
<1>6. QED
  BY <1>4, <1>5

\* A row is placed under the ISIN of now of one that has a listing, or that it gives.
LEMMA PlacedUnderNow ==
  ASSUME history \in 1 .. 2, NEW n \in Notices, NEW i \in ResolveScrip(n) \union ResolveIsin(n)
  PROVE  \E j \in ActionIsins : i = IsinNow(j)
<1>1. /\ Present.spans \subseteq Span /\ IsFiniteSet(Present.spans)
      /\ Present.master \subseteq ActionIsins
  BY CorporateActionsAssumption DEF Present
<1>2. \A s \in Span : s.isin \in ActionIsins
  BY DEF Span
<1> DEFINE spans == CodeSpans(n.code)
<1>3. spans \subseteq Span /\ spans \subseteq Present.spans /\ IsFiniteSet(spans)
  <2>1. spans \subseteq Present.spans
    BY DEF CodeSpans
  <2>2. QED
    BY <1>1, <2>1, FS_Subset
<1>4. CASE i \in ResolveScrip(n)
  <2> DEFINE later == {s \in spans: n.ex < s.first}
             on    == SpansOn(spans, n.ex)
             near  == IF on # {} THEN on ELSE IF later # {} THEN later ELSE {LastOf(spans)}
  <2>1. spans # {} /\ i = IsinNow(FirstOf(near).isin)
    BY <1>4 DEF ResolveScrip
  <2>2. on \subseteq spans /\ later \subseteq spans
    BY DEF SpansOn
  <2> HIDE DEF spans, on, later
  <2>3. LastOf(spans) \in spans
    BY <1>3, <2>1, EndsAreSpans
  <2>4. near \in SUBSET Span /\ near # {}
    BY <1>3, <2>2, <2>3
  <2> HIDE DEF near
  <2>5. FirstOf(near) \in Span
    BY <2>4, EndsAreSpans
  <2>6. QED
    BY <1>2, <2>1, <2>5
<1>5. CASE i \in ResolveIsin(n)
  <2> DEFINE soon == {s \in spans: s.first \in n.ex + 1 .. n.ex + OpeningWindow}
             near == IF SpansOn(spans, n.ex) # {} THEN SpansOn(spans, n.ex) ELSE soon
  <2>1. \/ n.isin \in Present.master /\ i = IsinNow(n.isin)
        \/ near # {} /\ i = IsinNow(FirstOf(near).isin)
    BY <1>5 DEF ResolveIsin
  <2>2. near \in SUBSET Span
    BY <1>3 DEF SpansOn
  <2> HIDE DEF near
  <2>3. near # {} => FirstOf(near) \in Span
    BY <2>2, EndsAreSpans
  <2>4. QED
    BY <1>1, <1>2, <2>1, <2>3
<1>6. QED
  BY <1>4, <1>5

\* Whichever way a notice is resolved, it is placed under an ISIN.
LEMMA ResolvedTyped ==
  ASSUME history \in 1 .. 2, NEW n \in Notices
  PROVE  ResolveScrip(n) \subseteq ActionIsins /\ ResolveIsin(n) \subseteq ActionIsins
BY PlacedUnderNow, IsinNowTyped

\* What is read of rows are actions of an ISIN, one of each key.
LEMMA NormalizedTyped ==
  ASSUME history \in 1 .. 2, release \in 1 .. 2, NEW rows \in SUBSET Notices
  PROVE  Normalized(rows) \subseteq ActionRecord
<1>1. \A n \in Notices : n.ex \in Nat /\ n.text \in Texts
  BY CorporateActionsAssumption DEF Notice
<1>2. \A i \in ActionIsins, e \in Nat, t \in ActionTerms : [isin |-> i, ex |-> e, terms |-> t] \in ActionRecord
  BY DEF ActionRecord
<1>3. ActionsOfScrips(rows) \subseteq ActionRecord
  BY <1>1, <1>2, ResolvedTyped, ParsedTyped DEF ActionsOfScrips
<1>4. ActionsOfSubjects(rows) \subseteq ActionRecord
  BY <1>1, <1>2, ResolvedTyped, ParsedTyped DEF ActionsOfSubjects
<1> DEFINE all == IF venue = "BSE" THEN ActionsOfScrips(rows) ELSE ActionsOfSubjects(rows)
           Seal(r) == <<r.isin, r.ex, r.terms.kind, r.terms.qualifier>>
<1>5. Normalized(rows) = {CHOOSE r \in all: Seal(r) = seal: seal \in {Seal(r): r \in all}}
  BY DEF Normalized
<1>6. all \subseteq ActionRecord
  BY <1>3, <1>4
<1> HIDE DEF all, Seal
<1>7. \A seal \in {Seal(r): r \in all} : (CHOOSE r \in all: Seal(r) = seal) \in all
  <2>1. \A seal \in {Seal(r): r \in all} : \E r \in all : Seal(r) = seal
    OBVIOUS
  <2>2. QED
    BY <2>1, Zenon
<1>8. QED
  BY <1>5, <1>6, <1>7

\* An action read is under an ISIN of now.
LEMMA ReadUnderNow ==
  ASSUME NoCycles, history \in 1 .. 2, release \in 1 .. 2, NEW rows \in SUBSET Notices,
         NEW x \in Normalized(rows)
  PROVE  IsinNow(x.isin) = x.isin
<1>1. \A n \in rows : \A i \in ResolveScrip(n) \union ResolveIsin(n) : IsinNow(i) = i
  <2>1. SUFFICES ASSUME NEW n \in rows, NEW i \in ResolveScrip(n) \union ResolveIsin(n)
                 PROVE  IsinNow(i) = i
    OBVIOUS
  <2>2. \E j \in ActionIsins : i = IsinNow(j)
    BY <2>1, PlacedUnderNow
  <2>3. QED
    BY <2>2, IsinNowStays
<1> DEFINE all == IF venue = "BSE" THEN ActionsOfScrips(rows) ELSE ActionsOfSubjects(rows)
           Seal(r) == <<r.isin, r.ex, r.terms.kind, r.terms.qualifier>>
<1>2. \A r \in all : IsinNow(r.isin) = r.isin
  <2>1. \A r \in ActionsOfScrips(rows) : IsinNow(r.isin) = r.isin
    BY <1>1 DEF ActionsOfScrips
  <2>2. \A r \in ActionsOfSubjects(rows) : IsinNow(r.isin) = r.isin
    BY <1>1 DEF ActionsOfSubjects
  <2>3. QED
    BY <2>1, <2>2
<1>3. x \in {CHOOSE r \in all: Seal(r) = seal: seal \in {Seal(r): r \in all}}
  BY DEF Normalized
<1> HIDE DEF all, Seal
<1>4. \A seal \in {Seal(r): r \in all} : (CHOOSE r \in all: Seal(r) = seal) \in all
  <2>1. \A seal \in {Seal(r): r \in all} : \E r \in all : Seal(r) = seal
    OBVIOUS
  <2>2. QED
    BY <2>1, Zenon
<1>5. QED
  BY <1>2, <1>3, <1>4

-----------------------------------------------------------------------------
(* The steps keep the types.                                               *)

\* What is held is dated by today.
ActionsIInv == ActionsTypeOK /\ \A a \in actions : a.asOf <= collectedOn

\* The range read next is one of those left.
LEMMA ReadingsLeft ==
  ASSUME left \subseteq ExRanges, left # {}
  PROVE  NextRange \in left
<1> DEFINE firsts == {r[1] : r \in left}
<1>1. firsts \subseteq Nat /\ firsts # {}
  BY CorporateActionsAssumption
<1>2. PICK least \in firsts : \A n \in firsts : least <= n
  <2> HIDE DEF firsts
  <2>1. QED
    BY <1>1, LeastNatural
<1>3. \E r \in left: \A q \in left: r[1] <= q[1]
  BY <1>2
<1>4. QED
  BY <1>3, Zenon DEF NextRange

\* The rows answered are notices.
LEMMA AnswerRowsTyped ==
  ASSUME ActionsTypeOK, NEW r
  PROVE  AnswerRows(r) \in SUBSET Notices
BY DEF AnswerRows, HeldAnswers, ActionsTypeOK, RangeAnswer

\* The versions written are of today.
LEMMA WrittenTyped ==
  ASSUME ActionsTypeOK, NEW r, NEW records \in SUBSET ActionRecord
  PROVE  /\ \A n \in FreshVersions(r, records) :
              /\ n \in ActionVersion /\ n.asOf = collectedOn /\ ~n.withdrawn
              /\ \E x \in records : n.isin = x.isin /\ n.ex = x.ex /\ n.terms = x.terms
         /\ \A n \in Withdrawals(r, records) :
              /\ n \in ActionVersion /\ n.asOf = collectedOn /\ n.withdrawn
              /\ \E a \in Standing(r) : /\ KeyNow(a) \in ReplacedTexts(r, records)
                                        /\ n.isin = a.isin /\ n.ex = a.ex /\ n.terms = a.terms
<1>1. collectedOn \in FirstDate .. LastDate /\ actions \subseteq ActionVersion
  BY DEF ActionsTypeOK
<1>2. ASSUME NEW n \in FreshVersions(r, records)
      PROVE  /\ n \in ActionVersion /\ n.asOf = collectedOn /\ ~n.withdrawn
             /\ \E x \in records : n.isin = x.isin /\ n.ex = x.ex /\ n.terms = x.terms
  <2>1. PICK x \in records : n = [isin |-> x.isin, ex |-> x.ex, terms |-> x.terms,
                                  asOf |-> collectedOn, withdrawn |-> FALSE]
    BY DEF FreshVersions
  <2>2. x.isin \in ActionIsins /\ x.ex \in Nat /\ x.terms \in ActionTerms
    BY DEF ActionRecord
  <2>3. QED
    BY <1>1, <2>1, <2>2 DEF ActionVersion
<1>3. ASSUME NEW n \in Withdrawals(r, records)
      PROVE  /\ n \in ActionVersion /\ n.asOf = collectedOn /\ n.withdrawn
             /\ \E a \in Standing(r) : /\ KeyNow(a) \in ReplacedTexts(r, records)
                                       /\ n.isin = a.isin /\ n.ex = a.ex /\ n.terms = a.terms
  <2>1. PICK a \in Standing(r) : /\ KeyNow(a) \in ReplacedTexts(r, records)
                                 /\ n = [a EXCEPT !.asOf = collectedOn, !.withdrawn = TRUE]
    BY DEF Withdrawals
  <2>2. a \in ActionVersion
    BY <1>1 DEF Standing
  <2>3. n = [isin |-> a.isin, ex |-> a.ex, terms |-> a.terms, asOf |-> collectedOn,
             withdrawn |-> TRUE]
    BY <2>1, <2>2 DEF ActionVersion
  <2>4. n \in ActionVersion /\ n.asOf = collectedOn /\ n.withdrawn
        /\ n.isin = a.isin /\ n.ex = a.ex /\ n.terms = a.terms
    BY <1>1, <2>2, <2>3 DEF ActionVersion
  <2>5. QED
    BY <2>1, <2>4
<1>4. QED
  BY <1>2, <1>3

\* The invariant holds at first.
LEMMA ActionsInitInvariant == ActionsInit => ActionsIInv
<1> SUFFICES ASSUME ActionsInit PROVE ActionsIInv
  OBVIOUS
<1>1. trading \subseteq ActionIsins
  BY CorporateActionsAssumption DEF ActionsInit
<1>2. collectedOn \in FirstDate .. LastDate
  BY CorporateActionsAssumption DEF ActionsInit
<1>3. QED
  BY <1>1, <1>2, CorporateActionsAssumption DEF ActionsInit, ActionsIInv, ActionsTypeOK

\* What a commit writes, and what it leaves.
VersionsOf(r, records) == FreshVersions(r, records) \union Withdrawals(r, records)
Committed(r, records) == ActionsWith(FreshVersions(r, records), Withdrawals(r, records))

\* It leaves what was held and nothing it does not write.
LEMMA CommittedIs ==
  ASSUME NEW r, NEW records
  PROVE  /\ actions \subseteq Committed(r, records)
         /\ Committed(r, records) \subseteq actions \union VersionsOf(r, records)
BY DEF Committed, ActionsWith, ActionsPlus, VersionsOf

\* A range's commit keeps the types.
LEMMA ReadRangeTyped ==
  ASSUME ActionsIInv, ReadRange
  PROVE  ActionsIInv'
<1> DEFINE r == NextRange
           records == Normalized(AnswerRows(r))
<1>1. /\ left # {} /\ left' = left \ {r} /\ taken' \in {taken, taken \union {r}}
      /\ actions' \in {actions, Committed(r, records)}
      /\ UNCHANGED <<venue, announced, changes, release, history, trading, collectedOn, answers>>
  BY DEF ReadRange, Committed
<1>2. r \in ExRanges
  BY <1>1, ReadingsLeft DEF ActionsIInv, ActionsTypeOK
<1>3. records \in SUBSET ActionRecord
  BY AnswerRowsTyped, NormalizedTyped DEF ActionsIInv, ActionsTypeOK
<1> HIDE DEF records, r
<1>4. \A n \in FreshVersions(r, records) \union Withdrawals(r, records) :
        n \in ActionVersion /\ n.asOf = collectedOn
  BY <1>3, WrittenTyped DEF ActionsIInv
<1>5. collectedOn \in Int
  BY CorporateActionsAssumption DEF ActionsIInv, ActionsTypeOK
<1>6. actions' \subseteq ActionVersion /\ \A a \in actions' : a.asOf <= collectedOn
  BY <1>1, <1>4, <1>5, CommittedIs DEF VersionsOf, ActionsIInv, ActionsTypeOK
<1>7. QED
  BY <1>1, <1>2, <1>6 DEF ActionsIInv, ActionsTypeOK

\* An answer held is of the range, the segment and the day.
LEMMA AskSegmentTyped ==
  ASSUME ActionsIInv, NEW s \in Segments, AskSegment(s)
  PROVE  ActionsIInv'
<1> DEFINE r == NextRange
<1>1. /\ left # {} /\ UNCHANGED <<venue, announced, changes, release, history, trading, collectedOn,
                                  actions, left, taken>>
  BY DEF AskSegment
<1>2. r \in ExRanges
  BY <1>1, ReadingsLeft DEF ActionsIInv, ActionsTypeOK
<1>3. PICK rows \in Served(r, s) :
        answers' = answers \union {[segment |-> s, range |-> r, under |-> HeldUnder(r), rows |-> rows]}
  BY DEF AskSegment
<1>4. rows \subseteq Notices
  BY DEF Served, ActionsIInv, ActionsTypeOK
<1>5. HeldUnder(r) \in {0} \union FirstDate .. LastDate
  BY DEF HeldUnder, ActionsIInv, ActionsTypeOK
<1> HIDE DEF r
<1>6. answers' \subseteq RangeAnswer
  BY <1>2, <1>3, <1>4, <1>5 DEF RangeAnswer, ActionsIInv, ActionsTypeOK
<1>7. QED
  BY <1>1, <1>6 DEF ActionsIInv, ActionsTypeOK

\* Every step keeps what is held dated by today.
LEMMA ActionsNextInvariant ==
  ASSUME ActionsIInv, [ActionsNext]_actionVars
  PROVE  ActionsIInv'
<1>1. ASSUME StartRanges \/ GiveUpRange \/ StopRanges PROVE ActionsIInv'
  BY <1>1 DEF StartRanges, GiveUpRange, StopRanges, ActionsIInv, ActionsTypeOK
<1>2. ASSUME Announce \/ LearnWording \/ DeriveHistory \/ \E i \in ActionIsins: StopTrading(i)
      PROVE  ActionsIInv'
  <2>1. /\ changes < MaxChanges /\ changes' = changes + 1
        /\ UNCHANGED <<venue, collectedOn, answers, actions, left, taken>>
    BY <1>2 DEF Announce, LearnWording, DeriveHistory, StopTrading, BetweenRuns
  <2>2. announced' \subseteq Notices
    BY <1>2 DEF Announce, LearnWording, DeriveHistory, StopTrading, ActionsIInv, ActionsTypeOK
  <2>3. release' \in 1 .. 2 /\ history' \in 1 .. 2
    BY <1>2 DEF Announce, LearnWording, DeriveHistory, StopTrading, ActionsIInv, ActionsTypeOK
  <2>4. trading' \subseteq ActionIsins
    BY <1>2 DEF Announce, LearnWording, DeriveHistory, StopTrading, ActionsIInv, ActionsTypeOK
  <2>5. changes' \in 0 .. MaxChanges
    BY <2>1, CorporateActionsAssumption DEF ActionsIInv, ActionsTypeOK
  <2>6. QED
    BY <2>1, <2>2, <2>3, <2>4, <2>5 DEF ActionsIInv, ActionsTypeOK
<1>3. ASSUME NextCollection PROVE ActionsIInv'
  <2>1. /\ collectedOn < LastDate /\ collectedOn' = collectedOn + 1
        /\ UNCHANGED <<venue, announced, changes, release, history, trading, answers, actions, left, taken>>
    BY <1>3 DEF NextCollection
  <2>2. collectedOn \in Int /\ FirstDate <= collectedOn /\ LastDate \in Int /\ FirstDate \in Int
    BY CorporateActionsAssumption DEF ActionsIInv, ActionsTypeOK
  <2>3. collectedOn' \in FirstDate .. LastDate
    BY <2>1, <2>2
  <2>4. \A a \in actions : a.asOf \in Int
    BY CorporateActionsAssumption DEF ActionsIInv, ActionsTypeOK, ActionVersion
  <2>5. \A a \in actions : a.asOf <= collectedOn'
    BY <2>1, <2>2, <2>4 DEF ActionsIInv
  <2>6. QED
    BY <2>1, <2>3, <2>5 DEF ActionsIInv, ActionsTypeOK
<1>4. ASSUME UNCHANGED actionVars PROVE ActionsIInv'
  BY <1>4 DEF actionVars, ActionsIInv, ActionsTypeOK
<1>5. QED
  BY <1>1, <1>2, <1>3, <1>4, ReadRangeTyped, AskSegmentTyped DEF ActionsNext

\* So it holds throughout.
LEMMA ActionsInductive == ActionsSpec => []ActionsIInv
<1>1. QED
  BY ActionsInitInvariant, ActionsNextInvariant, PTL DEF ActionsSpec

\* Whatever is announced, learned, derived and answered, an action stored is of an ISIN,
\* has terms a parser reads and is dated by a day something was collected on.
THEOREM ActionsTypeCorrect == ActionsSpec => []ActionsTypeOK
<1>1. ActionsIInv => ActionsTypeOK
  BY DEF ActionsIInv
<1>2. QED
  BY <1>1, ActionsInductive, PTL

-----------------------------------------------------------------------------
(* What a range's commit leaves.                                           *)

\* Where identity derives nothing meanwhile, whose an action is now stays.
LEMMA NowStays ==
  ASSUME UNCHANGED <<venue, history>>
  PROVE  \A i : IsinNow(i)' = IsinNow(i)
BY SMT DEF IsinNow, Onward, Following, FollowedBy, Present

\* A commit removes no version, and adds those it writes.
LEMMA CommitAdds ==
  ASSUME ActionsTypeOK, NEW r, NEW records \in SUBSET ActionRecord,
         actions' = Committed(r, records)
  PROVE  /\ actions \subseteq actions'
         /\ \A a \in actions' : a \in actions \/ a \in VersionsOf(r, records)
         /\ \A n \in VersionsOf(r, records) :
              \E m \in actions' : ActionKey(m) = ActionKey(n) /\ m.asOf = collectedOn
         /\ \A n \in FreshVersions(r, records) :
              \/ n \in actions'
              \/ \E b \in actions : ActionKey(b) = ActionKey(n) /\ b.asOf = collectedOn
<1>1. \A n \in VersionsOf(r, records) : n.asOf = collectedOn
  BY WrittenTyped DEF VersionsOf
<1>2. \A n \in VersionsOf(r, records) :
        \E m \in Committed(r, records) : ActionKey(m) = ActionKey(n) /\ m.asOf = n.asOf
  BY DEF VersionsOf, Committed, ActionsWith, ActionsPlus
<1>3. \A n \in FreshVersions(r, records) :
        \/ n \in Committed(r, records)
        \/ \E b \in actions : ActionKey(b) = ActionKey(n) /\ b.asOf = n.asOf
  BY DEF Committed, ActionsWith, ActionsPlus
<1>4. \A n \in FreshVersions(r, records) : n.asOf = collectedOn
  BY <1>1 DEF VersionsOf
<1>5. QED
  BY <1>1, <1>2, <1>3, <1>4, CommittedIs

\* What stands after a commit stood before it or is one of its fresh versions.
LEMMA StandsAfter ==
  ASSUME ActionsTypeOK, NEW r, NEW records \in SUBSET ActionRecord,
         actions' = Committed(r, records), NEW a \in Standing(r)'
  PROVE  a \in Standing(r) \/ (a \notin actions /\ a \in FreshVersions(r, records))
<1>1. /\ a \in actions' /\ a.ex \in Inside(r) /\ ~a.withdrawn
      /\ \A b \in actions': ActionKey(b) = ActionKey(a) => b.asOf <= a.asOf
  BY DEF Standing, Inside, ActionKey
<1>2. CASE a \in actions
  BY <1>1, <1>2, CommitAdds DEF Standing
<1>3. CASE a \notin actions
  <2>1. a \in VersionsOf(r, records)
    BY <1>1, <1>3, CommitAdds
  <2>2. a \notin Withdrawals(r, records)
    BY <1>1, WrittenTyped
  <2>3. QED
    BY <1>3, <2>1, <2>2 DEF VersionsOf
<1>4. QED
  BY <1>2, <1>3

\* A text that is replaced does not stand any longer, unless it was stored today.
LEMMA ReplacedFalls ==
  ASSUME ActionsIInv, NEW r, NEW records \in SUBSET ActionRecord,
         actions' = Committed(r, records),
         NEW a \in Standing(r), a \in Standing(r)', KeyNow(a) \in ReplacedTexts(r, records)
  PROVE  IsText(a) /\ a.asOf = collectedOn
<1>1. a \in ActionVersion /\ a.asOf <= collectedOn /\ ActionsTypeOK
  BY DEF Standing, ActionsIInv, ActionsTypeOK
<1> DEFINE w == [a EXCEPT !.asOf = collectedOn, !.withdrawn = TRUE]
<1>2. w \in VersionsOf(r, records)
  BY DEF Withdrawals, VersionsOf
<1>3. ActionKey(w) = ActionKey(a)
  BY <1>1 DEF ActionKey, ActionVersion
<1> HIDE DEF w
<1>4. PICK m \in actions' : ActionKey(m) = ActionKey(a) /\ m.asOf = collectedOn
  BY <1>1, <1>2, <1>3, CommitAdds
<1>5. m.asOf <= a.asOf
  BY <1>4 DEF Standing, ActionKey
<1>6. a.asOf \in Int /\ collectedOn \in Int
  BY <1>1, CorporateActionsAssumption DEF ActionVersion, ActionsTypeOK
<1>7. a.asOf = collectedOn
  BY <1>1, <1>4, <1>5, <1>6
<1>8. IsText(a)
  <2>1. PICK b \in HeldActions(r) : IsText(b) /\ KeyNow(b) = KeyNow(a)
    BY DEF ReplacedTexts
  <2>2. b.terms.kind = a.terms.kind
    BY <2>1 DEF KeyNow
  <2>3. QED
    BY <2>1, <2>2 DEF IsText
<1>9. QED
  BY <1>7, <1>8

\* What stood and stands no longer was a text replaced, or has a fresh version that
\* stands in its place.
LEMMA FallsForOne ==
  ASSUME ActionsIInv, ActionsIInv', NEW r, NEW records \in SUBSET ActionRecord,
         actions' = Committed(r, records), collectedOn' = collectedOn,
         NEW b \in Standing(r), b \notin Standing(r)'
  PROVE  \/ KeyNow(b) \in ReplacedTexts(r, records)
         \/ \E n \in Standing(r)' : ActionKey(n) = ActionKey(b)
<1>1. b \in actions /\ b.ex \in Inside(r) /\ ~b.withdrawn /\ ActionsTypeOK
  BY DEF Standing, ActionsIInv
<1>2. b \in actions'
  BY <1>1, CommitAdds
<1>3. PICK n \in actions' : ActionKey(n) = ActionKey(b) /\ ~(n.asOf <= b.asOf)
  BY <1>1, <1>2 DEF Standing, Inside, ActionKey
<1>4. n \notin actions
  BY <1>3 DEF Standing
<1>5. n \in VersionsOf(r, records)
  BY <1>1, <1>3, <1>4, CommitAdds
<1>6. CASE n \in FreshVersions(r, records)
  <2>1. n.asOf = collectedOn /\ ~n.withdrawn
    BY <1>1, <1>6, WrittenTyped
  <2>2. n.ex = b.ex
    BY <1>3 DEF ActionKey
  <2>3. \A c \in actions' : c.asOf <= n.asOf
    BY <2>1 DEF ActionsIInv
  <2>4. n \in Standing(r)'
    BY <1>1, <1>3, <2>1, <2>2, <2>3 DEF Standing, Inside
  <2>5. QED
    BY <1>3, <2>4
<1>7. CASE n \in Withdrawals(r, records)
  <2>1. PICK a \in Standing(r) : /\ KeyNow(a) \in ReplacedTexts(r, records)
                                 /\ n.isin = a.isin /\ n.ex = a.ex /\ n.terms = a.terms
    BY <1>1, <1>7, WrittenTyped
  <2>2. a.isin = b.isin /\ a.ex = b.ex /\ a.terms.kind = b.terms.kind
        /\ a.terms.qualifier = b.terms.qualifier
    BY <1>3, <2>1 DEF ActionKey
  <2>3. KeyNow(a) = KeyNow(b)
    BY <2>2 DEF KeyNow
  <2>4. QED
    BY <2>1, <2>3
<1>8. QED
  BY <1>5, <1>6, <1>7 DEF VersionsOf

\* Of what an answer states of one action, one record is kept.
LEMMA ReadOnce ==
  ASSUME NEW rows, NEW x \in Normalized(rows), NEW y \in Normalized(rows), ActionKey(x) = ActionKey(y)
  PROVE  x = y
<1> DEFINE all == IF venue = "BSE" THEN ActionsOfScrips(rows) ELSE ActionsOfSubjects(rows)
           Seal(z) == <<z.isin, z.ex, z.terms.kind, z.terms.qualifier>>
           RecordOf(seal) == CHOOSE z \in all: Seal(z) = seal
<1>1. Normalized(rows) = {RecordOf(seal): seal \in {Seal(z): z \in all}}
  BY Zenon DEF Normalized
<1>2. \A seal \in {Seal(z): z \in all} : Seal(RecordOf(seal)) = seal
  <2>1. SUFFICES ASSUME NEW w \in all PROVE Seal(RecordOf(Seal(w))) = Seal(w)
    OBVIOUS
  <2>2. \E z \in all : Seal(z) = Seal(w)
    OBVIOUS
  <2>3. QED
    BY <2>2
<1>3. Seal(x) = Seal(y)
  BY DEF ActionKey
<1> HIDE DEF RecordOf, Seal, all
<1>4. PICK s \in {Seal(z): z \in all} : x = RecordOf(s)
  BY <1>1
<1>5. PICK t \in {Seal(z): z \in all} : y = RecordOf(t)
  BY <1>1
<1>6. s = t
  BY <1>2, <1>3, <1>4, <1>5
<1>7. QED
  BY <1>4, <1>5, <1>6

\* A range's commit stands as the venue answered it.
LEMMA TakenStands ==
  ASSUME ActionsIInv, ActionsIInv', ReadRange, NEW r \in taken' \ taken
  PROVE  StandsAsAnswered(r)
<1> DEFINE records == Normalized(AnswerRows(r))
<1>1. /\ r = NextRange /\ left # {} /\ Refused(r, records) = {} /\ OutsideRange(r, records) = {}
      /\ actions' = Committed(r, records)
      /\ UNCHANGED <<venue, history, collectedOn>>
  BY DEF ReadRange, Committed
<1>2. ActionsTypeOK /\ ActionsTypeOK'
  BY DEF ActionsIInv
<1>3. SUFFICES ASSUME \A x \in records : IsinNow(x.isin) = x.isin
               PROVE  /\ \A x \in records : StandsWithItsTerms(r, x)
                      /\ \A a \in HeldActions(r)' :
                           \/ Accounted(a, records)
                           \/ IsinNow(a.isin) \notin TradedAt
                           \/ IsText(a) /\ a.asOf = collectedOn
  BY DEF StandsAsAnswered
<1>4. /\ records \in SUBSET ActionRecord /\ \A x \in records : IsinNow(x.isin) = x.isin
      /\ \A x, y \in records : ActionKey(x) = ActionKey(y) => x = y
      /\ \A x \in records : x.ex \in Inside(r)
  <2>1. records \in SUBSET ActionRecord
    BY <1>2, AnswerRowsTyped, NormalizedTyped DEF ActionsTypeOK
  <2>2. \A x, y \in records : ActionKey(x) = ActionKey(y) => x = y
    BY ReadOnce
  <2> HIDE DEF records
  <2>3. \A x \in records : x.ex \in Inside(r)
    BY <1>1 DEF OutsideRange
  <2>4. QED
    BY <1>3, <2>1, <2>2, <2>3
<1>now. \A i : IsinNow(i)' = IsinNow(i)
  BY <1>1, NowStays
<1> HIDE DEF records
<1>fresh. \A n \in FreshVersions(r, records) :
        \E x \in records : /\ KeyNow(n) = ActionKey(x) /\ ActionKey(n) = ActionKey(x)
                           /\ n.isin = x.isin /\ n.ex = x.ex /\ n.terms = x.terms
                           /\ ~\E a \in HeldActions(r): KeyNow(a) = ActionKey(x) /\ a.terms = x.terms
  BY <1>4 DEF FreshVersions, KeyNow, ActionKey
<1>5. ASSUME NEW x \in records
      PROVE  StandsWithItsTerms(r, x)
  <2>1. CASE \E a \in HeldActions(r): KeyNow(a) = ActionKey(x) /\ a.terms = x.terms
    <3>1. PICK a \in HeldActions(r): KeyNow(a) = ActionKey(x) /\ a.terms = x.terms
      BY <2>1
    <3>2. \A n \in FreshVersions(r, records) : KeyNow(n) # ActionKey(x)
      BY <1>4, <1>fresh, <2>1
    <3>3. a \in Standing(r) /\ \A b \in Standing(r): KeyNow(b) = KeyNow(a) => b.isin <= a.isin
      BY DEF HeldActions
    <3>4. a \in Standing(r)'
      <4>1. SUFFICES ASSUME a \notin Standing(r)' PROVE FALSE
        OBVIOUS
      <4>2. KeyNow(a) \notin ReplacedTexts(r, records)
        BY <3>1 DEF ReplacedTexts, Accounted
      <4>3. PICK n \in Standing(r)' : ActionKey(n) = ActionKey(a)
        BY <1>1, <1>4, <3>3, <4>1, <4>2, FallsForOne
      <4>4. KeyNow(n) = ActionKey(x)
        BY <3>1, <4>3 DEF KeyNow, ActionKey
      <4>5. n \in Standing(r)
        BY <1>1, <1>2, <1>4, <3>2, <4>3, <4>4, StandsAfter
      <4>6. n.asOf <= a.asOf /\ a \in actions' /\ n \in actions /\ a \in actions
        BY <1>1, <1>2, <1>4, <3>3, <4>3, <4>5, CommitAdds DEF Standing
      <4>7. a.ex \in Inside(r) /\ ~a.withdrawn
        BY <3>3 DEF Standing
      <4>8. \A b \in actions' : ActionKey(b) = ActionKey(n) => b.asOf <= n.asOf
        BY <4>3 DEF Standing, ActionKey
      <4>9. \A b \in actions' : ActionKey(b) = ActionKey(a) => b.asOf <= a.asOf
        <5>1. SUFFICES ASSUME NEW b \in actions', ActionKey(b) = ActionKey(a)
                       PROVE  b.asOf <= a.asOf
          OBVIOUS
        <5>2. b.asOf <= n.asOf
          BY <4>3, <4>8, <5>1
        <5>3. b.asOf \in Nat /\ n.asOf \in Nat /\ a.asOf \in Nat
          BY <1>2, <4>6, CorporateActionsAssumption DEF ActionsTypeOK, ActionVersion
        <5>4. QED
          BY ONLY <4>6, <5>2, <5>3
      <4>10. a \in Standing(r)'
        BY <4>6, <4>7, <4>9 DEF Standing, Inside, ActionKey
      <4>11. QED
        BY <4>1, <4>10
    <3>5. ASSUME NEW b \in Standing(r)', KeyNow(b) = KeyNow(a)
          PROVE  b.isin <= a.isin
      <4>1. b \in Standing(r)
        BY <1>1, <1>2, <1>4, <3>1, <3>2, <3>5, StandsAfter
      <4>2. QED
        BY <3>3, <3>5, <4>1
    <3>6. a \in HeldActions(r)'
      BY <1>now, <3>4, <3>5 DEF HeldActions, KeyNow
    <3>7. QED
      BY <3>1, <3>4, <3>6 DEF StandsWithItsTerms
  <2>2. CASE ~\E a \in HeldActions(r): KeyNow(a) = ActionKey(x) /\ a.terms = x.terms
    <3> DEFINE n == [isin |-> x.isin, ex |-> x.ex, terms |-> x.terms, asOf |-> collectedOn,
                     withdrawn |-> FALSE]
    <3>1. n \in FreshVersions(r, records) /\ ActionKey(n) = ActionKey(x)
      BY <1>5, <2>2 DEF FreshVersions, ActionKey
    <3>2. n.asOf = collectedOn /\ ~n.withdrawn /\ n.ex = x.ex /\ n.isin = x.isin /\ n.terms = x.terms
      OBVIOUS
    <3> HIDE DEF n
    <3>3. CASE \E b \in actions : ActionKey(b) = ActionKey(n) /\ b.asOf = collectedOn
      BY <3>1, <3>3 DEF StandsWithItsTerms
    <3>4. CASE n \in actions'
      <4>1. n.ex \in Inside(r)
        BY <1>4, <1>5, <3>2
      <4>2. \A b \in actions' : b.asOf <= n.asOf
        BY <1>1, <3>2 DEF ActionsIInv
      <4>3. n \in Standing(r)'
        BY <3>2, <3>4, <4>1, <4>2 DEF Standing, Inside
      <4>4. KeyNow(n) = ActionKey(x)
        BY <1>4, <1>5, <3>1, <3>2 DEF KeyNow, ActionKey
      <4>5. QED
        BY <3>2, <4>3, <4>4 DEF StandsWithItsTerms
    <3>5. QED
      BY <1>1, <1>2, <1>4, <3>1, <3>3, <3>4, CommitAdds
  <2>3. QED
    BY <2>1, <2>2
<1>6. ASSUME NEW a \in HeldActions(r)'
      PROVE  \/ Accounted(a, records)
             \/ IsinNow(a.isin) \notin TradedAt
             \/ IsText(a) /\ a.asOf = collectedOn
  <2>1. a \in Standing(r)' /\ \A b \in Standing(r)': KeyNow(b) = KeyNow(a) => b.isin <= a.isin
    BY <1>now DEF HeldActions, KeyNow
  <2>2. CASE a \notin Standing(r)
    <3>1. a \in FreshVersions(r, records)
      BY <1>1, <1>2, <1>4, <2>1, <2>2, StandsAfter
    <3>2. PICK x \in records : a.isin = x.isin /\ a.ex = x.ex /\ a.terms = x.terms
      BY <1>2, <1>4, <3>1, WrittenTyped
    <3>3. KeyNow(a) = ActionKey(x)
      BY <1>4, <3>2 DEF KeyNow, ActionKey
    <3>4. QED
      BY <3>2, <3>3 DEF Accounted
  <2>3. CASE a \in HeldActions(r)
    <3>1. CASE IsText(a) /\ SameDay(a, records) /\ ~Accounted(a, records)
      <4>1. KeyNow(a) \in ReplacedTexts(r, records) /\ a \in Standing(r)
        BY <2>3, <3>1 DEF ReplacedTexts, HeldActions
      <4>2. QED
        BY <1>1, <1>4, <2>1, <4>1, ReplacedFalls
    <3>2. CASE ~(IsText(a) /\ SameDay(a, records)) /\ ~Accounted(a, records)
      BY <1>1, <2>3, <3>2 DEF Unanswered, Refused
    <3>3. QED
      BY <3>1, <3>2
  <2>4. CASE a \in Standing(r) /\ a \notin HeldActions(r)
    <3>1. PICK b \in Standing(r) : KeyNow(b) = KeyNow(a) /\ ~(b.isin <= a.isin)
      BY <2>4 DEF HeldActions
    <3>2. b \notin Standing(r)'
      BY <2>1, <3>1
    <3>3. KeyNow(b) \in ReplacedTexts(r, records) \/ \E n \in Standing(r)' : ActionKey(n) = ActionKey(b)
      BY <1>1, <1>4, <3>2, FallsForOne
    <3>4. ~\E n \in Standing(r)' : ActionKey(n) = ActionKey(b)
      <4>1. SUFFICES ASSUME NEW n \in Standing(r)', ActionKey(n) = ActionKey(b) PROVE FALSE
        OBVIOUS
      <4>2. n.isin = b.isin /\ KeyNow(n) = KeyNow(b)
        BY <4>1 DEF ActionKey, KeyNow
      <4>3. QED
        BY <2>1, <3>1, <4>1, <4>2
    <3>5. KeyNow(a) \in ReplacedTexts(r, records)
      BY <3>1, <3>3, <3>4
    <3>6. QED
      BY <1>1, <1>4, <2>1, <2>4, <3>5, ReplacedFalls
  <2>5. QED
    BY <2>2, <2>3, <2>4
<1>7. QED
  BY <1>5, <1>6 DEF records

\* Whatever was stored before under whichever ISIN, release or answer: a range taken
\* stands as the venue answered it, wherever the ISINs it answers are their own of now,
\* as they all are where no ISIN follows one that follows it (ReadUnderNow).
THEOREM AnswersStand == ActionsSpec => AnswerStands
<1>1. ActionsIInv /\ ActionsIInv' /\ [ActionsNext]_actionVars
        => [\A r \in taken' \ taken: StandsAsAnswered(r)]_actionVars
  <2>1. SUFFICES ASSUME ActionsIInv, ActionsIInv', ActionsNext, NEW r \in taken' \ taken
                 PROVE  StandsAsAnswered(r)
    OBVIOUS
  <2>2. ReadRange
    BY <2>1 DEF ActionsNext, StartRanges, GiveUpRange, StopRanges, AskSegment, Announce,
                LearnWording, DeriveHistory, NextCollection, StopTrading, BetweenRuns
  <2>3. QED
    BY <2>1, <2>2, TakenStands
<1>2. QED
  BY <1>1, ActionsInductive, PTL DEF ActionsSpec, AnswerStands

-----------------------------------------------------------------------------
(* What a commit stores, and what it withdraws.                            *)

\* A step that changes what is stored is the commit of a range.
LEMMA OnlyCommitsStore ==
  ASSUME ActionsIInv, ActionsIInv', [ActionsNext]_actionVars, NEW b \in actions' \ actions
  PROVE  \E r, records :
           /\ records = Normalized(AnswerRows(r)) /\ records \in SUBSET ActionRecord
           /\ actions' = Committed(r, records)
           /\ UNCHANGED <<venue, history, collectedOn>>
           /\ \A x \in records : x.ex \in Inside(r)
           /\ b \in VersionsOf(r, records)
<1>1. ReadRange
  BY DEF ActionsNext, StartRanges, GiveUpRange, StopRanges, AskSegment, Announce,
         LearnWording, DeriveHistory, NextCollection, StopTrading, BetweenRuns, actionVars
<1> DEFINE r == NextRange
           records == Normalized(AnswerRows(r))
<1>2. /\ actions' = Committed(r, records) /\ OutsideRange(r, records) = {}
      /\ UNCHANGED <<venue, history, collectedOn>>
  BY <1>1 DEF ReadRange, Committed
<1>3. records \in SUBSET ActionRecord
  BY AnswerRowsTyped, NormalizedTyped DEF ActionsIInv, ActionsTypeOK
<1>4. \A x \in records : x.ex \in Inside(r)
  BY <1>2 DEF OutsideRange
<1>5. b \in VersionsOf(r, records)
  BY <1>2, CommittedIs
<1>6. QED
  BY <1>2, <1>3, <1>4, <1>5

\* What stands of a day of the range is what stands of the day.
LEMMA StandsOfADay ==
  ASSUME NEW r, NEW ex \in Nat, ex \in Inside(r), NEW a, a.ex = ex
  PROVE  a \in Standing(r) <=> a \in Standing(<<ex, ex>>)
<1>1. ex \in Inside(<<ex, ex>>)
  BY DEF Inside
<1>2. QED
  BY <1>1 DEF Standing

\* Of the versions that stand of an action, under whichever of its ISINs, one is held.
LEMMA OneIsHeld ==
  ASSUME ActionsIInv, NEW r, NEW a \in Standing(r)
  PROVE  \E h \in HeldActions(r) : KeyNow(h) = KeyNow(a)
<1> DEFINE own == {b \in Standing(r) : KeyNow(b) = KeyNow(a)}
           isins == {b.isin : b \in own}
<1>1. \A b \in own : b.isin \in ActionIsins
  BY DEF Standing, ActionsIInv, ActionsTypeOK, ActionVersion
<1>2. isins \subseteq ActionIsins /\ isins # {}
  BY <1>1
<1>3. isins \subseteq Nat /\ IsFiniteSet(isins)
  <2> HIDE DEF isins
  <2>1. QED
    BY <1>2, CorporateActionsAssumption, FS_Subset
<1>4. PICK i \in isins : \A j \in isins : j <= i
  <2> HIDE DEF isins
  <2>1. QED
    BY <1>2, <1>3, GreatestNatural
<1>5. PICK h \in own : h.isin = i
  BY <1>4
<1>6. h \in HeldActions(r)
  BY <1>4, <1>5 DEF HeldActions
<1>7. QED
  BY <1>5, <1>6

\* What a commit stores is news.
LEMMA StoredIsNews ==
  ASSUME ActionsIInv, ActionsIInv', [ActionsNext]_actionVars,
         NEW b \in actions' \ actions
  PROVE  LET before == {a \in Standing(<<b.ex, b.ex>>): KeyNow(a) = KeyNow(b)}
         IN  IF b.withdrawn THEN before # {}
             ELSE IsinNow(b.isin) = b.isin => before = {} \/ \E a \in before: a.terms # b.terms
<1> DEFINE before == {a \in Standing(<<b.ex, b.ex>>): KeyNow(a) = KeyNow(b)}
<1>1. PICK r, records :
        /\ records = Normalized(AnswerRows(r)) /\ records \in SUBSET ActionRecord
        /\ \A x \in records : x.ex \in Inside(r)
        /\ b \in VersionsOf(r, records)
  BY OnlyCommitsStore
<1>2. ActionsTypeOK
  BY DEF ActionsIInv
<1>3. \A x \in records : x.ex \in Nat
  BY <1>1 DEF ActionRecord
<1>4. CASE b \in Withdrawals(r, records)
  <2>1. b.withdrawn
    BY <1>1, <1>2, <1>4, WrittenTyped
  <2>2. PICK s \in Standing(r) : b.isin = s.isin /\ b.ex = s.ex /\ b.terms = s.terms
    BY <1>1, <1>2, <1>4, WrittenTyped
  <2>3. s.ex \in Nat /\ s.ex \in Inside(r)
    BY <1>2 DEF Standing, ActionsTypeOK, ActionVersion
  <2>4. s \in Standing(<<b.ex, b.ex>>) /\ KeyNow(s) = KeyNow(b)
    BY <2>2, <2>3, StandsOfADay DEF KeyNow
  <2>5. QED
    BY <2>1, <2>4
<1>5. CASE b \in FreshVersions(r, records)
  <2>1. ~b.withdrawn
    BY <1>1, <1>2, <1>5, WrittenTyped
  <2>2. PICK x \in records :
          /\ ~\E a \in HeldActions(r): KeyNow(a) = ActionKey(x) /\ a.terms = x.terms
          /\ b = [isin |-> x.isin, ex |-> x.ex, terms |-> x.terms, asOf |-> collectedOn, withdrawn |-> FALSE]
    BY <1>5 DEF FreshVersions
  <2>3. SUFFICES ASSUME IsinNow(b.isin) = b.isin
                 PROVE  before = {} \/ \E a \in before: a.terms # b.terms
    BY <2>1
  <2>4. KeyNow(b) = ActionKey(x) /\ b.terms = x.terms /\ b.ex \in Nat /\ b.ex \in Inside(r)
    BY <1>1, <1>3, <2>2, <2>3 DEF KeyNow, ActionKey
  <2>5. ASSUME NEW a \in before
        PROVE  \E h \in before : h.terms # b.terms
    <3>1. a.ex = b.ex /\ KeyNow(a) = KeyNow(b)
      BY DEF KeyNow
    <3>2. a \in Standing(r)
      BY <2>4, <3>1, StandsOfADay
    <3>3. PICK h \in HeldActions(r) : KeyNow(h) = KeyNow(b)
      BY <3>1, <3>2, OneIsHeld
    <3>4. h.terms # b.terms
      BY <2>2, <2>4, <3>3
    <3>5. h.ex = b.ex /\ h \in Standing(r)
      BY <3>3 DEF KeyNow, HeldActions
    <3>6. h \in Standing(<<b.ex, b.ex>>)
      BY <2>4, <3>5, StandsOfADay
    <3>7. QED
      BY <3>3, <3>4, <3>6
  <2>6. QED
    BY <2>5
<1>6. QED
  BY <1>1, <1>4, <1>5 DEF VersionsOf

\* A text withdrawn is replaced by another action of its instrument's day.
LEMMA WithdrawnIsReplaced ==
  ASSUME ActionsIInv, ActionsIInv', [ActionsNext]_actionVars,
         NEW a \in actions' \ actions, a.withdrawn
  PROVE  \E c \in actions':
           \/ c \in Standing(<<a.ex, a.ex>>)' /\ OtherOfItsDay(KeyNow(c), a)
           \/ /\ c.asOf = collectedOn /\ OtherOfItsDay(ActionKey(c), a)
              /\ c \in Standing(<<a.ex, a.ex>>)' \/ c \in actions
<1>1. PICK r, records :
        /\ records = Normalized(AnswerRows(r)) /\ records \in SUBSET ActionRecord
        /\ actions' = Committed(r, records)
        /\ UNCHANGED <<venue, history, collectedOn>>
        /\ \A x \in records : x.ex \in Inside(r)
        /\ a \in VersionsOf(r, records)
  BY OnlyCommitsStore
<1>2. ActionsTypeOK
  BY DEF ActionsIInv
<1>3. \A x \in records : x.ex \in Nat
  BY <1>1 DEF ActionRecord
<1>4. PICK s \in Standing(r) : /\ KeyNow(s) \in ReplacedTexts(r, records)
                               /\ a.isin = s.isin /\ a.ex = s.ex /\ a.terms = s.terms
  <2>1. a \notin FreshVersions(r, records)
    BY <1>1, <1>2, WrittenTyped
  <2>2. QED
    BY <1>1, <1>2, <2>1, WrittenTyped DEF VersionsOf
<1>5. PICK h \in HeldActions(r) : KeyNow(h) = KeyNow(s) /\ ~Accounted(h, records) /\ SameDay(h, records)
  BY <1>4 DEF ReplacedTexts
<1>6. KeyNow(a) = KeyNow(h) /\ IsinNow(a.isin) = IsinNow(h.isin) /\ a.ex = h.ex
  BY <1>4, <1>5 DEF KeyNow
<1>7. PICK x \in records : /\ x.ex = a.ex /\ ListedAs(x.isin) = ListedAs(IsinNow(a.isin))
                           /\ StandsFor(ActionKey(x)) # StandsFor(KeyNow(a))
  BY <1>5, <1>6 DEF SameDay, Accounted
<1>8. OtherOfItsDay(ActionKey(x), a)
  BY <1>7 DEF OtherOfItsDay, ActionKey
<1>9. \A t : KeyNow(t) \in ReplacedTexts(r, records) => KeyNow(t) # ActionKey(x)
  BY <1>7 DEF ReplacedTexts, Accounted
<1>10. \A c \in Standing(r)' : c.ex = a.ex => c \in Standing(<<a.ex, a.ex>>)'
  <2>1. a.ex \in Inside(<<a.ex, a.ex>>)
    BY <1>3, <1>7 DEF Inside
  <2>2. QED
    BY <2>1 DEF Standing, Inside
<1>11. CASE \E t \in HeldActions(r): KeyNow(t) = ActionKey(x) /\ t.terms = x.terms
  <2>1. PICK t \in HeldActions(r) : KeyNow(t) = ActionKey(x)
    BY <1>11
  <2>2. t \in Standing(r) /\ KeyNow(t) \notin ReplacedTexts(r, records)
    BY <1>9, <2>1 DEF HeldActions
  <2>3. PICK c \in Standing(r)' : KeyNow(c) = ActionKey(x)
    <3>1. CASE t \in Standing(r)'
      BY <2>1, <3>1
    <3>2. CASE t \notin Standing(r)'
      <4>1. PICK n \in Standing(r)' : ActionKey(n) = ActionKey(t)
        BY <1>1, <2>2, <3>2, FallsForOne
      <4>2. KeyNow(n) = ActionKey(x)
        BY <2>1, <4>1 DEF KeyNow, ActionKey
      <4>3. QED
        BY <4>2
    <3>3. QED
      BY <3>1, <3>2
  <2>4. c \in actions' /\ c.ex = a.ex
    BY <1>7, <2>3 DEF Standing, KeyNow, ActionKey
  <2>5. QED
    BY <1>8, <1>10, <2>3, <2>4
<1>12. CASE ~\E t \in HeldActions(r): KeyNow(t) = ActionKey(x) /\ t.terms = x.terms
  <2> DEFINE n == [isin |-> x.isin, ex |-> x.ex, terms |-> x.terms, asOf |-> collectedOn,
                   withdrawn |-> FALSE]
  <2>1. n \in FreshVersions(r, records)
    BY <1>7, <1>12 DEF FreshVersions
  <2>2. ActionKey(n) = ActionKey(x) /\ n.asOf = collectedOn /\ ~n.withdrawn /\ n.ex = x.ex
    BY DEF ActionKey
  <2> HIDE DEF n
  <2>3. CASE \E b \in actions : ActionKey(b) = ActionKey(n) /\ b.asOf = collectedOn
    <3>1. PICK b \in actions : ActionKey(b) = ActionKey(x) /\ b.asOf = collectedOn
      BY <2>2, <2>3
    <3>2. b \in actions'
      BY <1>1, <1>2, <3>1, CommitAdds
    <3>3. QED
      BY <1>8, <3>1, <3>2
  <2>4. CASE n \in actions'
    <3>1. n.ex \in Inside(r)
      BY <1>1, <1>7, <2>2
    <3>2. \A b \in actions' : b.asOf <= n.asOf
      BY <1>1, <2>2 DEF ActionsIInv
    <3>3. n \in Standing(r)'
      BY <2>2, <2>4, <3>1, <3>2 DEF Standing, Inside
    <3>4. n \in Standing(<<a.ex, a.ex>>)'
      BY <1>7, <1>10, <2>2, <3>3
    <3>5. QED
      BY <1>8, <2>2, <2>4, <3>4
  <2>5. QED
    BY <1>1, <1>2, <2>1, <2>3, <2>4, CommitAdds
<1>13. QED
  BY <1>11, <1>12

\* Whatever is announced, learned, renamed, killed or stored twice: a version is stored
\* under an ISIN of now only where not all that stood of its action said the same.
THEOREM StoredVersionsAreNews == ActionsSpec => EveryVersionIsNews
<1> DEFINE News(b) ==
       LET before == {a \in Standing(<<b.ex, b.ex>>): KeyNow(a) = KeyNow(b)}
       IN  IF b.withdrawn THEN before # {}
           ELSE IsinNow(b.isin) = b.isin => before = {} \/ \E a \in before: a.terms # b.terms
<1>1. ActionsIInv /\ ActionsIInv' /\ [ActionsNext]_actionVars
        => [\A b \in actions' \ actions: News(b)]_actionVars
  <2>1. SUFFICES ASSUME ActionsIInv, ActionsIInv', [ActionsNext]_actionVars,
                        NEW b \in actions' \ actions
                 PROVE  News(b)
    BY DEF actionVars
  <2>2. QED
    BY <2>1, StoredIsNews
<1>2. QED
  BY <1>1, ActionsInductive, PTL DEF ActionsSpec, EveryVersionIsNews

\* Whatever the successions are, a text is withdrawn only in a commit that leaves another
\* action of its instrument's day, or finds one that a run of that same date withdrew.
THEOREM WithdrawnTextsAreReplaced == ActionsSpec => WithdrawnTextsReplaced
<1> DEFINE Replaced(a) ==
       \E c \in actions':
         \/ c \in Standing(<<a.ex, a.ex>>)' /\ OtherOfItsDay(KeyNow(c), a)
         \/ /\ c.asOf = collectedOn /\ OtherOfItsDay(ActionKey(c), a)
            /\ c \in Standing(<<a.ex, a.ex>>)' \/ c \in actions
<1>1. ActionsIInv /\ ActionsIInv' /\ [ActionsNext]_actionVars
        => [\A a \in actions' \ actions: a.withdrawn => Replaced(a)]_actionVars
  <2>1. SUFFICES ASSUME ActionsIInv, ActionsIInv', [ActionsNext]_actionVars,
                        NEW a \in actions' \ actions, a.withdrawn
                 PROVE  Replaced(a)
    BY DEF actionVars
  <2>2. QED
    BY <2>1, WithdrawnIsReplaced
<1>2. QED
  BY <1>1, ActionsInductive, PTL DEF ActionsSpec, WithdrawnTextsReplaced

-----------------------------------------------------------------------------
(* Tables of facts, for any versions of any keys, and the tables of        *)
(* corporate actions, names and face values as such tables.                *)
(*                                                                         *)
(* The argument: what a commit adds is dated by its own d, so of every  *)
(* d before it the same versions are the latest (EarlierStands); and of *)
(* a key and a d one version is factRows (Sealed), so the latest is one.  *)
(* A commit of actions brings one of a key: an answer's records are one    *)
(* each, what is withdrawn stood once, and of an action both answered and  *)
(* withdrawn, as successions both ways can make one, the answer is first.  *)

Sealed(rows) == \A v, w \in rows : v.key = w.key /\ v.asOf = w.asOf => v = w

\* What a table holds on a d.
FactsIInv ==
  /\ factDate \in Nat
  /\ \A v \in factRows : v.asOf \in Nat
  /\ Sealed(factRows)

\* Of a key, the latest version known on a d is one.
LEMMA LatestIsOne ==
  ASSUME NEW rows, Sealed(rows), \A v \in rows : v.asOf \in Nat, NEW d \in Nat
  PROVE  \A v, w \in LatestBy(rows, d) : v.key = w.key => v = w
<1> SUFFICES ASSUME NEW v \in LatestBy(rows, d), NEW w \in LatestBy(rows, d), v.key = w.key
             PROVE  v = w
  OBVIOUS
<1>1. /\ v \in rows /\ w \in rows /\ v.asOf \in Nat /\ w.asOf \in Nat
      /\ v.asOf <= w.asOf /\ w.asOf <= v.asOf
  BY DEF LatestBy
<1>2. v.asOf = w.asOf
  BY ONLY <1>1
<1>3. QED
  BY <1>1, <1>2 DEF Sealed

\* Versions added on a d leave what was known before it.
LEMMA EarlierStands ==
  ASSUME NEW before, NEW after, before \subseteq after, NEW on \in Nat,
         \A v \in after \ before : v.asOf = on, NEW d \in Nat, d < on
  PROVE  LatestBy(after, d) = LatestBy(before, d)
<1>1. ~(on <= d)
  OBVIOUS
<1>2. \A v \in after : v.asOf <= d => v \in before
  BY <1>1
<1>3. QED
  BY <1>2 DEF LatestBy

\* A commit seals what it adds.
LEMMA AppendSeals ==
  ASSUME NEW before, NEW after, Sealed(before),
         \A v \in after \ before : \A w \in after \ {v} : w.key = v.key => w.asOf # v.asOf
  PROVE  Sealed(after)
BY DEF Sealed

\* What is appended on a date, or passes with a day, leaves the dates in order and one
\* version to a key and a date.
LEMMA FactsNextInvariant == FactsIInv /\ [FactsNext]_factVars => FactsIInv'
<1> SUFFICES ASSUME FactsIInv, [FactsNext]_factVars
             PROVE  FactsIInv'
  OBVIOUS
<1>1. CASE AppendFacts
  <2>1. /\ factDate' = factDate /\ \A v \in factRows' : v \in factRows \/ v.asOf = factDate
        /\ \A v \in factRows' \ factRows : \A w \in factRows' \ {v} : w.key = v.key => w.asOf # v.asOf
    BY <1>1 DEF AppendFacts
  <2>2. Sealed(factRows')
    BY <2>1, AppendSeals DEF FactsIInv
  <2>3. QED
    BY <2>1, <2>2 DEF FactsIInv
<1>2. CASE NextDate
  BY <1>2 DEF NextDate, FactsIInv
<1>3. CASE UNCHANGED factVars
  BY <1>3 DEF factVars, FactsIInv
<1>4. QED
  BY <1>1, <1>2, <1>3 DEF FactsNext

\* For any versions of any keys: what was known on a d that is over stays as it is,
\* and on every d one version of each key is known.
THEOREM FactsStayKnown == FactsSpec => PastIsFixed /\ []OneVersionEach
<1>1. FactsInit => FactsIInv
  BY DEF FactsInit, FactsIInv, Sealed
<1>2. FactsIInv => OneVersionEach
  BY LatestIsOne DEF FactsIInv, OneVersionEach, KnownOn
<1>3. FactsIInv /\ [FactsNext]_factVars => [PastStays]_factVars
  <2> SUFFICES ASSUME FactsIInv, FactsNext, NEW d \in Nat, d < factDate
               PROVE  KnownOn(d)' = KnownOn(d)
    BY DEF PastStays
  <2>1. CASE AppendFacts
    <3>1. LatestBy(factRows', d) = LatestBy(factRows, d)
      BY <2>1, EarlierStands DEF AppendFacts, FactsIInv
    <3>2. QED
      BY <3>1 DEF KnownOn, LatestBy
  <2>2. CASE NextDate
    BY <2>2 DEF NextDate, KnownOn, LatestBy
  <2>3. QED
    BY <2>1, <2>2 DEF FactsNext
<1>4. QED
  BY <1>1, <1>2, <1>3, FactsNextInvariant, PTL DEF FactsSpec, PastIsFixed

-----------------------------------------------------------------------------
(* Corporate actions as a table of facts.                                  *)

\* Of an action and a date one version is stored.
OneAKey ==
  \A a, b \in actions : ActionKey(a) = ActionKey(b) /\ a.asOf = b.asOf => a = b

\* Of an action answered, or withdrawn, a commit writes one version.
LEMMA WrittenOnce ==
  ASSUME ActionsIInv, OneAKey, NEW r, NEW records, records = Normalized(AnswerRows(r))
  PROVE  /\ \A a, b \in FreshVersions(r, records) : ActionKey(a) = ActionKey(b) => a = b
         /\ \A a, b \in Withdrawals(r, records) : ActionKey(a) = ActionKey(b) => a = b
<1>1. ActionsTypeOK
  BY DEF ActionsIInv
<1>2. ASSUME NEW a \in FreshVersions(r, records), NEW b \in FreshVersions(r, records),
             ActionKey(a) = ActionKey(b)
      PROVE  a = b
  <2>1. PICK x \in records : /\ ActionKey(x) = ActionKey(a)
                             /\ a = [isin |-> x.isin, ex |-> x.ex, terms |-> x.terms,
                                     asOf |-> collectedOn, withdrawn |-> FALSE]
    BY DEF FreshVersions, ActionKey
  <2>2. PICK y \in records : /\ ActionKey(y) = ActionKey(b)
                             /\ b = [isin |-> y.isin, ex |-> y.ex, terms |-> y.terms,
                                     asOf |-> collectedOn, withdrawn |-> FALSE]
    BY DEF FreshVersions, ActionKey
  <2>3. x = y
    BY <1>2, <2>1, <2>2, ReadOnce
  <2>4. QED
    BY <2>1, <2>2, <2>3
<1>3. \A n \in Withdrawals(r, records) :
        \E s \in Standing(r) : /\ ActionKey(s) = ActionKey(n)
                               /\ n = [s EXCEPT !.asOf = collectedOn, !.withdrawn = TRUE]
  <2>1. SUFFICES ASSUME NEW s \in Standing(r)
                 PROVE  ActionKey([s EXCEPT !.asOf = collectedOn, !.withdrawn = TRUE]) = ActionKey(s)
    BY DEF Withdrawals
  <2>2. s \in ActionVersion
    BY <1>1 DEF Standing, ActionsTypeOK
  <2>3. QED
    BY <2>2 DEF ActionKey, ActionVersion
<1>4. ASSUME NEW a \in Withdrawals(r, records), NEW b \in Withdrawals(r, records),
             ActionKey(a) = ActionKey(b)
      PROVE  a = b
  <2>1. PICK s \in Standing(r) : /\ ActionKey(s) = ActionKey(a)
                                 /\ a = [s EXCEPT !.asOf = collectedOn, !.withdrawn = TRUE]
    BY <1>3
  <2>2. PICK t \in Standing(r) : /\ ActionKey(t) = ActionKey(b)
                                 /\ b = [t EXCEPT !.asOf = collectedOn, !.withdrawn = TRUE]
    BY <1>3
  <2>3. s.asOf <= t.asOf /\ t.asOf <= s.asOf /\ s \in actions /\ t \in actions
    BY <1>4, <2>1, <2>2 DEF Standing
  <2>4. s.asOf \in Nat /\ t.asOf \in Nat
    BY <1>1, <2>3, CorporateActionsAssumption DEF ActionsTypeOK, ActionVersion
  <2>5. s.asOf = t.asOf
    BY ONLY <2>3, <2>4
  <2>6. s = t
    BY <1>4, <2>1, <2>2, <2>3, <2>5 DEF OneAKey
  <2>7. QED
    BY <2>1, <2>2, <2>6
<1>5. QED
  BY <1>2, <1>4

\* Rows of one date, one of an action, leave one of an action and a date.
LEMMA PlusSeals ==
  ASSUME NEW table, NEW rows,
         \A a, b \in table : ActionKey(a) = ActionKey(b) /\ a.asOf = b.asOf => a = b,
         \A a, b \in rows : ActionKey(a) = ActionKey(b) => a = b,
         NEW a \in ActionsPlus(table, rows), NEW b \in ActionsPlus(table, rows),
         ActionKey(a) = ActionKey(b), a.asOf = b.asOf
  PROVE  a = b
<1>1. \A v \in ActionsPlus(table, rows) :
        \/ v \in table
        \/ v \in rows /\ ~\E w \in table: ActionKey(w) = ActionKey(v) /\ w.asOf = v.asOf
  BY DEF ActionsPlus
<1>2. QED
  BY <1>1

\* A step seals what it stores: of an action and a date, one version.
LEMMA OneAKeyNext ==
  ASSUME ActionsIInv, ActionsIInv', OneAKey, [ActionsNext]_actionVars
  PROVE  OneAKey'
<1>1. CASE actions' = actions
  BY <1>1 DEF OneAKey, ActionKey
<1>2. CASE actions' # actions
  <2>1. ReadRange
    BY <1>2 DEF ActionsNext, StartRanges, GiveUpRange, StopRanges, AskSegment, Announce,
                LearnWording, DeriveHistory, NextCollection, StopTrading, BetweenRuns, actionVars
  <2>2. PICK r, records : records = Normalized(AnswerRows(r)) /\ actions' = Committed(r, records)
    BY <1>2, <2>1 DEF ReadRange, Committed
  <2>3. /\ \A a, b \in FreshVersions(r, records) : ActionKey(a) = ActionKey(b) => a = b
        /\ \A a, b \in Withdrawals(r, records) : ActionKey(a) = ActionKey(b) => a = b
    BY <2>2, WrittenOnce
  <2> DEFINE answered == ActionsPlus(actions, FreshVersions(r, records))
  <2>4. \A a, b \in answered : ActionKey(a) = ActionKey(b) /\ a.asOf = b.asOf => a = b
    BY <2>3, PlusSeals DEF OneAKey
  <2>5. actions' = ActionsPlus(answered, Withdrawals(r, records))
    BY <2>2 DEF Committed, ActionsWith
  <2> HIDE DEF answered
  <2>6. \A a, b \in actions' : ActionKey(a) = ActionKey(b) /\ a.asOf = b.asOf => a = b
    BY <2>3, <2>4, <2>5, PlusSeals
  <2>7. QED
    BY <2>6 DEF OneAKey, ActionKey
<1>3. QED
  BY <1>1, <1>2

\* What a version says, as a row of the table.
ActionRow(a) == [key |-> ActionKey(a), asOf |-> a.asOf, says |-> <<a.terms, a.withdrawn>>]
ActionRows == {ActionRow(a) : a \in actions}

\* A step keeps what is stored and the date, but for a commit, which adds rows of its
\* date, and for the next date.
LEMMA ActionsGrow ==
  ASSUME ActionsIInv, ActionsIInv', [ActionsNext]_actionVars
  PROVE  /\ actions \subseteq actions'
         /\ \A a \in actions' \ actions : a.asOf = collectedOn
         /\ collectedOn' = collectedOn \/ (collectedOn' = collectedOn + 1 /\ actions' = actions)
<1>1. CASE NextCollection
  BY <1>1 DEF NextCollection
<1>2. CASE ReadRange
  <2>1. collectedOn' = collectedOn /\ actions \subseteq actions'
    BY <1>2 DEF ReadRange, ActionsWith, ActionsPlus
  <2>2. ASSUME NEW a \in actions' \ actions
        PROVE  a.asOf = collectedOn
    <3>1. PICK r, records : records \in SUBSET ActionRecord /\ a \in VersionsOf(r, records)
      BY OnlyCommitsStore
    <3>2. QED
      BY <3>1, WrittenTyped DEF ActionsIInv, VersionsOf
  <2>3. QED
    BY <2>1, <2>2
<1>3. CASE ~NextCollection /\ ~ReadRange
  BY <1>3 DEF ActionsNext, StartRanges, GiveUpRange, StopRanges, AskSegment, Announce,
              LearnWording, DeriveHistory, StopTrading, BetweenRuns, actionVars
<1>4. QED
  BY <1>1, <1>2, <1>3

\* Every step of the actions appends facts known today, turns the date, or leaves both.
LEMMA ActionStepIsAFact ==
  ASSUME ActionsIInv, ActionsIInv', OneAKey', [ActionsNext]_actionVars
  PROVE  [ActionFacts!FactsNext]_(ActionFacts!factVars)
<1>1. CASE collectedOn' = collectedOn
  <2>1. ActionRows \subseteq ActionRows'
    BY ActionsGrow DEF ActionRows, ActionRow, ActionKey
  <2>2. ASSUME NEW v \in ActionRows' \ ActionRows
        PROVE  /\ v.asOf = collectedOn
               /\ \A w \in ActionRows' \ {v} : w.key = v.key => w.asOf # v.asOf
    <3>1. PICK a \in actions' : v = ActionRow(a)
      BY DEF ActionRows, ActionRow, ActionKey
    <3>2. a \notin actions
      BY <2>2, <3>1 DEF ActionRows
    <3>3. ASSUME NEW w \in ActionRows', w.key = v.key, w.asOf = v.asOf
          PROVE  w = v
      <4>1. PICK b \in actions' : w = ActionRow(b)
        BY DEF ActionRows, ActionRow, ActionKey
      <4>2. ActionKey(a) = ActionKey(b) /\ a.asOf = b.asOf
        BY <3>1, <3>3, <4>1 DEF ActionRow
      <4>3. a = b
        BY <4>2 DEF OneAKey, ActionKey
      <4>4. QED
        BY <3>1, <4>1, <4>3
    <3>4. v.asOf = collectedOn
      BY <3>1, <3>2, ActionsGrow DEF ActionRow
    <3>5. QED
      BY <3>3, <3>4
  <2>3. ActionFacts!AppendFacts
    BY <1>1, <2>1, <2>2 DEF ActionFacts!AppendFacts, ActionRows, ActionRow
  <2>4. QED
    BY <2>3 DEF ActionFacts!FactsNext
<1>2. CASE collectedOn' = collectedOn + 1 /\ actions' = actions
  <2>1. ActionFacts!NextDate
    BY <1>2 DEF ActionFacts!NextDate, ActionKey
  <2>2. QED
    BY <2>1 DEF ActionFacts!FactsNext
<1>3. QED
  BY <1>1, <1>2, ActionsGrow

\* Whatever the successions are, corporate_action is a table of facts: each commit appends versions of its date, one of an action, no step of any other kind
\* changes what is stored, and on every date one version of an action is known
\* (persist_actions, stg_corporate_actions).
THEOREM ActionsAreFacts ==
  ActionsSpec => ActionFacts!FactsSpec /\ []ActionFacts!OneVersionEach
<1>1. ActionsInit => OneAKey /\ ActionFacts!FactsInit
  BY CorporateActionsAssumption DEF ActionsInit, OneAKey, ActionFacts!FactsInit
<1>2. ActionsIInv /\ ActionsIInv' /\ OneAKey /\ [ActionsNext]_actionVars
        => OneAKey' /\ [ActionFacts!FactsNext]_(ActionFacts!factVars)
  BY OneAKeyNext, ActionStepIsAFact
<1>3. ActionsIInv /\ OneAKey => ActionFacts!OneVersionEach
  <2> SUFFICES ASSUME ActionsIInv, OneAKey, NEW d \in Nat
               PROVE  \A v, w \in ActionFacts!KnownOn(d) : v.key = w.key => v = w
    BY DEF ActionFacts!OneVersionEach
  <2>1. Sealed(ActionRows) /\ \A v \in ActionRows : v.asOf \in Nat
    BY CorporateActionsAssumption
       DEF Sealed, OneAKey, ActionRows, ActionRow, ActionsIInv, ActionsTypeOK, ActionVersion
  <2>2. \A v, w \in LatestBy(ActionRows, d) : v.key = w.key => v = w
    BY <2>1, LatestIsOne
  <2>3. QED
    BY <2>2 DEF ActionFacts!KnownOn, ActionFacts!LatestBy, LatestBy, ActionRows, ActionRow
<1>4. QED
  BY <1>1, <1>2, <1>3, ActionsInductive, PTL DEF ActionsSpec, ActionFacts!FactsSpec

\* Whatever is announced, learned, renamed, killed or stored twice, what was known of an
\* action on a date that is over can be read as of that date for good.
THEOREM ActionsStayKnown == ActionsSpec => ActionFacts!PastIsFixed
<1>1. ActionsIInv /\ ActionsIInv' /\ [ActionsNext]_actionVars
        => [ActionFacts!PastStays]_(ActionFacts!factVars)
  <2> SUFFICES ASSUME ActionsIInv, ActionsIInv', [ActionsNext]_actionVars, NEW d \in Nat, d < collectedOn
               PROVE  ActionFacts!KnownOn(d)' = ActionFacts!KnownOn(d)
    BY DEF ActionFacts!PastStays
  <2>1. /\ ActionRows \subseteq ActionRows' /\ collectedOn \in Nat
        /\ \A v \in ActionRows' \ ActionRows : v.asOf = collectedOn
    BY ActionsGrow, CorporateActionsAssumption
       DEF ActionRows, ActionRow, ActionKey, ActionsIInv, ActionsTypeOK
  <2>2. LatestBy(ActionRows', d) = LatestBy(ActionRows, d)
    BY <2>1, EarlierStands
  <2>3. QED
    BY <2>2 DEF ActionFacts!KnownOn, ActionFacts!LatestBy, LatestBy, ActionRows, ActionRow, ActionKey
<1>2. QED
  BY <1>1, ActionsInductive, PTL DEF ActionsSpec, ActionFacts!PastIsFixed

-----------------------------------------------------------------------------
(* Names and face values as tables of facts.                               *)

\* Of an instrument and a date one name is stored, and one face value.
OneADate ==
  /\ \A v, w \in named : v.isin = w.isin /\ v.asOf = w.asOf => v = w
  /\ \A v, w \in valued : v.isin = w.isin /\ v.asOf = w.asOf => v = w

\* A reading gives an instrument one name and one face value at most.
LEMMA GivenOnce ==
  ASSUME NEW rows
  PROVE  /\ \A f, g \in FreshNames(rows) : f.isin = g.isin => f = g
         /\ \A f, g \in FreshFaceValues(rows) : f.isin = g.isin => f = g
<1>1. \A f, g \in NamesByIsin(rows) : f.isin = g.isin => f = g
  BY DEF NamesByIsin
<1>2. \A f, g \in FaceValuesByIsin(rows) : f.isin = g.isin => f = g
  <2> DEFINE stating == {l \in rows: l.row.face # Unstated}
             Of(i)   == IF lister = "BSE" THEN Chosen(rows, i) ELSE Chosen(stating, i)
             kept    == {k \in stating: Of(k.row.isin).row.face # Unstated}
  <2>1. FaceValuesByIsin(rows) = {[isin |-> l.row.isin, value |-> Of(l.row.isin).row.face] : l \in kept}
    BY DEF FaceValuesByIsin
  <2> HIDE DEF Of, kept
  <2>2. QED
    BY <2>1
<1>3. QED
  BY <1>1, <1>2 DEF FreshNames, FreshFaceValues

\* What a step does to both tables: it adds versions of the date, one of an instrument
\* without one of that date, or moves the date on.
LEMMA ListsGrow ==
  ASSUME ListsTypeOK, [ListsNext]_listVars
  PROVE  \/ /\ listDate' = listDate
            /\ named \subseteq named' /\ valued \subseteq valued'
            /\ \A v \in named' \ named :
                 /\ v.asOf = listDate
                 /\ \A w \in named' : w.isin = v.isin /\ w.asOf = v.asOf => w = v
            /\ \A v \in valued' \ valued :
                 /\ v.asOf = listDate
                 /\ \A w \in valued' : w.isin = v.isin /\ w.asOf = v.asOf => w = v
         \/ listDate' = listDate + 1 /\ named' = named /\ valued' = valued
<1>1. CASE NextListDate
  BY <1>1 DEF NextListDate
<1>2. CASE WriteLists /\ ~listRun.failed
  <2> DEFINE rows == RowsOf(listRun.read)
  <2>1. named' = PersistNames(rows) /\ valued' = PersistFaceValues(rows) /\ listDate' = listDate
    BY <1>2 DEF WriteLists
  <2> HIDE DEF rows
  <2>2. ASSUME NEW v \in named' \ named
        PROVE  /\ v.asOf = listDate
               /\ \A w \in named' : w.isin = v.isin /\ w.asOf = v.asOf => w = v
    <3>1. PICK f \in FreshNames(rows) :
            ~StoredOn(named, f.isin) /\ v = [isin |-> f.isin, asOf |-> listDate, name |-> f.name]
      BY <2>1, <2>2 DEF PersistNames
    <3>2. ASSUME NEW w \in named', w.isin = v.isin, w.asOf = v.asOf
          PROVE  w = v
      <4>1. w \notin named
        BY <3>1, <3>2 DEF StoredOn
      <4>2. PICK g \in FreshNames(rows) : w = [isin |-> g.isin, asOf |-> listDate, name |-> g.name]
        BY <2>1, <3>2, <4>1 DEF PersistNames
      <4>3. f = g
        BY <3>1, <3>2, <4>2, GivenOnce
      <4>4. QED
        BY <3>1, <4>2, <4>3
    <3>3. QED
      BY <3>1, <3>2
  <2>3. ASSUME NEW v \in valued' \ valued
        PROVE  /\ v.asOf = listDate
               /\ \A w \in valued' : w.isin = v.isin /\ w.asOf = v.asOf => w = v
    <3>1. PICK f \in FreshFaceValues(rows) :
            ~StoredOn(valued, f.isin) /\ v = [isin |-> f.isin, asOf |-> listDate, value |-> f.value]
      BY <2>1, <2>3 DEF PersistFaceValues
    <3>2. ASSUME NEW w \in valued', w.isin = v.isin, w.asOf = v.asOf
          PROVE  w = v
      <4>1. w \notin valued
        BY <3>1, <3>2 DEF StoredOn
      <4>2. PICK g \in FreshFaceValues(rows) : w = [isin |-> g.isin, asOf |-> listDate, value |-> g.value]
        BY <2>1, <3>2, <4>1 DEF PersistFaceValues
      <4>3. f = g
        BY <3>1, <3>2, <4>2, GivenOnce
      <4>4. QED
        BY <3>1, <4>2, <4>3
    <3>3. QED
      BY <3>1, <3>2
  <2>4. named \subseteq named' /\ valued \subseteq valued'
    BY <2>1 DEF PersistNames, PersistFaceValues
  <2>5. QED
    BY <2>1, <2>2, <2>3, <2>4
<1>3. CASE ~NextListDate /\ ~(WriteLists /\ ~listRun.failed)
  <2>1. UNCHANGED <<listDate, named, valued>>
    BY <1>3 DEF ListsNext, StartLists, ReadPart, WriteLists, KillLists, Relist, DeriveCodesAgain, listVars
  <2>2. QED
    BY <2>1
<1>4. QED
  BY <1>1, <1>2, <1>3

NameRows == {[key |-> v.isin, asOf |-> v.asOf, says |-> v.name] : v \in named}
FaceValueRows == {[key |-> v.isin, asOf |-> v.asOf, says |-> v.value] : v \in valued}

\* And so does every step of the lists, of the names and of the face values alike.
LEMMA ListStepIsAFact ==
  ASSUME ListsTypeOK, OneADate, [ListsNext]_listVars
  PROVE  /\ [NameFacts!FactsNext]_(NameFacts!factVars)
         /\ [FaceValueFacts!FactsNext]_(FaceValueFacts!factVars)
         /\ OneADate'
<1>1. CASE listDate' = listDate + 1 /\ named' = named /\ valued' = valued
  <2>1. NameFacts!NextDate /\ FaceValueFacts!NextDate
    BY <1>1 DEF NameFacts!NextDate, FaceValueFacts!NextDate
  <2>2. OneADate'
    BY <1>1 DEF OneADate
  <2>3. QED
    BY <2>1, <2>2 DEF NameFacts!FactsNext, FaceValueFacts!FactsNext
<1>2. CASE /\ listDate' = listDate
           /\ named \subseteq named' /\ valued \subseteq valued'
           /\ \A v \in named' \ named :
                /\ v.asOf = listDate
                /\ \A w \in named' : w.isin = v.isin /\ w.asOf = v.asOf => w = v
           /\ \A v \in valued' \ valued :
                /\ v.asOf = listDate
                /\ \A w \in valued' : w.isin = v.isin /\ w.asOf = v.asOf => w = v
  <2>1. /\ NameRows \subseteq NameRows'
        /\ \A r \in NameRows' \ NameRows :
             r.asOf = listDate /\ \A s \in NameRows' \ {r} : s.key = r.key => s.asOf # r.asOf
    BY <1>2 DEF NameRows
  <2>2. /\ FaceValueRows \subseteq FaceValueRows'
        /\ \A r \in FaceValueRows' \ FaceValueRows :
             r.asOf = listDate /\ \A s \in FaceValueRows' \ {r} : s.key = r.key => s.asOf # r.asOf
    BY <1>2 DEF FaceValueRows
  <2>3. NameFacts!AppendFacts
    BY <1>2, <2>1 DEF NameFacts!AppendFacts, NameRows
  <2>4. FaceValueFacts!AppendFacts
    BY <1>2, <2>2 DEF FaceValueFacts!AppendFacts, FaceValueRows
  <2>5. OneADate'
    BY <1>2 DEF OneADate
  <2>6. QED
    BY <2>3, <2>4, <2>5 DEF NameFacts!FactsNext, FaceValueFacts!FactsNext
<1>3. QED
  BY <1>1, <1>2, ListsGrow

\* For any lists, codes and order of readings, instrument_name and instrument_face_value
\* are tables of facts: each reading appends versions of its date, one of an instrument,
\* and nothing else changes them (persist_names, persist_face_values).
THEOREM NamesAreFacts == ListsSpec => NameFacts!FactsSpec /\ FaceValueFacts!FactsSpec
<1>1. ListsInit => OneADate /\ NameFacts!FactsInit /\ FaceValueFacts!FactsInit
  BY DEF ListsInit, OneADate, NameFacts!FactsInit, FaceValueFacts!FactsInit
<1>2. ListsTypeOK /\ OneADate /\ [ListsNext]_listVars
        => /\ OneADate'
           /\ [NameFacts!FactsNext]_(NameFacts!factVars)
           /\ [FaceValueFacts!FactsNext]_(FaceValueFacts!factVars)
  BY ListStepIsAFact
<1>3. QED
  BY <1>1, <1>2, ListsTypeCorrect, PTL DEF ListsSpec, NameFacts!FactsSpec, FaceValueFacts!FactsSpec

\* So the name and the face value an instrument was known under on a date that is over
\* stay readable as of that date (stg_instrument_names, stg_instrument_face_values).
THEOREM NamesStayKnown ==
  ListsSpec => NameFacts!PastIsFixed /\ FaceValueFacts!PastIsFixed
<1>1. ListsTypeOK /\ [ListsNext]_listVars
        => /\ [NameFacts!PastStays]_(NameFacts!factVars)
           /\ [FaceValueFacts!PastStays]_(FaceValueFacts!factVars)
  <2> SUFFICES ASSUME ListsTypeOK, [ListsNext]_listVars, NEW d \in Nat, d < listDate
               PROVE  /\ NameFacts!KnownOn(d)' = NameFacts!KnownOn(d)
                      /\ FaceValueFacts!KnownOn(d)' = FaceValueFacts!KnownOn(d)
    BY DEF NameFacts!PastStays, FaceValueFacts!PastStays
  <2>1. /\ NameRows \subseteq NameRows' /\ FaceValueRows \subseteq FaceValueRows'
        /\ \A r \in NameRows' \ NameRows : r.asOf = listDate
        /\ \A r \in FaceValueRows' \ FaceValueRows : r.asOf = listDate
    BY ListsGrow DEF NameRows, FaceValueRows
  <2>2. listDate \in Nat
    BY DEF ListsTypeOK
  <2>3. LatestBy(NameRows', d) = LatestBy(NameRows, d)
    BY <2>1, <2>2, EarlierStands
  <2>4. LatestBy(FaceValueRows', d) = LatestBy(FaceValueRows, d)
    BY <2>1, <2>2, EarlierStands
  <2>5. NameFacts!KnownOn(d)' = NameFacts!KnownOn(d)
    BY <2>3 DEF NameFacts!KnownOn, NameFacts!LatestBy, LatestBy, NameRows
  <2>6. FaceValueFacts!KnownOn(d)' = FaceValueFacts!KnownOn(d)
    BY <2>4 DEF FaceValueFacts!KnownOn, FaceValueFacts!LatestBy, LatestBy, FaceValueRows
  <2>7. QED
    BY <2>5, <2>6
<1>2. QED
  BY <1>1, ListsTypeCorrect, PTL DEF ListsSpec, NameFacts!PastIsFixed, FaceValueFacts!PastIsFixed
=============================================================================
