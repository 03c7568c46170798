------------------------- MODULE TradingDaysProofs -------------------------
(***************************************************************************)
(* Proofs about TradingDays, for any venues, instruments, days and runs,   *)
(* in two layers.                                                          *)
(*                                                                         *)
(* The copies come first, no bar or verdict mattering to them: wherever a  *)
(* process is killed, a venue that would answer that the version held is   *)
(* current is right (IInv, NothingIsHidden).                               *)
(*                                                                         *)
(* What is stored and judged rests on them (JInv).  Storing a day goes     *)
(* over its copies by a recursion; that each of them stands on the days it *)
(* was the copy held is carried along it (CopyAppended), by the least step *)
(* at which it would fail.                                                 *)
(***************************************************************************)
EXTENDS TradingDays, NaturalFacts, TLAPS

USE ConstantsAssumption

-----------------------------------------------------------------------------
(* The inductive invariant.                                                *)

Process == [step: Steps, at: TradeDays \union {0}, rechecked: SUBSET TradeDays,
            noticed: 0 .. LastDay, answer: Nat]

Typed ==
  /\ today \in Dates
  /\ published \in [Partitions -> Seq(Files)]
  /\ first \in [Partitions -> Nat]
  /\ versions \in [Partitions -> [Dates -> Nat]]
  /\ validators \in [Partitions -> Nat]
  /\ process \in [Venues -> Process]

\* What is held of a file was published, corrections only follow a first copy
\* and are dated no later than today; the validators are of the content of the
\* latest copy, or of a publication before it.
CopyInOrder(p) ==
  /\ Latest(p) \in 0 .. Len(published[p])
  /\ validators[p] <= Len(published[p])
  /\ first[p] = 0 => validators[p] = 0 /\ \A n \in Dates : versions[p][n] = 0
  /\ \A n \in Dates : versions[p][n] # 0 => n <= today
  /\ validators[p] # 0 =>
       /\ Latest(p) # 0
       /\ validators[p] < Latest(p) \/ Content(p, Latest(p)) = Content(p, validators[p])

Reading(v) == process[v].step \in {"day", "validators", "store", "stored"}

\* A process reads a day of its own date or before, and its venue's corrections
\* were noticed by that date: the one it notices is the latest.
DayInOrder(v) ==
  /\ process[v].at \in TradeDays
  /\ process[v].noticed \in Dates
  /\ process[v].noticed <= today
  /\ \A d \in TradeDays, n \in Dates : versions[<<v, d>>][n] # 0 => n <= process[v].noticed

\* Validators about to be held are of what the latest copy holds.
AnswerInOrder(v) ==
  /\ process[v].answer \in 1 .. Len(published[At(v)])
  /\ Latest(At(v)) # 0
  /\ Content(At(v), Latest(At(v))) = Content(At(v), process[v].answer)

ProcessInOrder(v) ==
  /\ Reading(v) => DayInOrder(v)
  /\ process[v].step = "validators" => AnswerInOrder(v)

IInv ==
  /\ Typed
  /\ \A p \in Partitions : CopyInOrder(p)
  /\ \A v \in Venues : ProcessInOrder(v)

-----------------------------------------------------------------------------
(* What the parts of a step are.                                           *)

\* The copies held of a file stay while the venue publishes no less.
Stays(p) ==
  /\ first'[p] = first[p] /\ versions'[p] = versions[p]
  /\ Len(published[p]) <= Len(published'[p])
  /\ \A copy \in 1 .. Len(published[p]) : published'[p][copy] = published[p][copy]

\* A file nothing happened to stays.
LEMMA UnchangedStays ==
  ASSUME Typed, NEW p \in Partitions,
         first'[p] = first[p], versions'[p] = versions[p], published'[p] = published[p]
  PROVE  Stays(p)
  BY DEF Typed, Stays

\* A file published once more stays.
LEMMA PublishStays ==
  ASSUME Typed, NEW p \in Partitions, NEW file \in Files, Publish(p, file)
  PROVE  \A q \in Partitions : Stays(q)
<1>1. ASSUME NEW q \in Partitions
      PROVE  Stays(q)
  <2>1. CASE q = p
    <3>1. published'[p] = Append(published[p], file) /\ published[p] \in Seq(Files)
      BY DEF Publish, Typed
    <3>2. /\ Len(published'[p]) = Len(published[p]) + 1
          /\ \A copy \in 1 .. Len(published[p]) : published'[p][copy] = published[p][copy]
      BY <3>1
    <3>3. QED
      BY <2>1, <3>2 DEF Publish, Stays, stored, Typed
  <2>2. CASE q # p
    BY <2>2, UnchangedStays DEF Publish, Typed, stored
  <2>3. QED
    BY <2>1, <2>2
<1>2. QED
  BY <1>1

\* The latest copy of a file that stays is the same.
LEMMA LatestStays ==
  ASSUME NEW p \in Partitions, Stays(p)
  PROVE  Latest(p)' = Latest(p)
  BY DEF Stays, Latest, HeldBy, NoticedBy

\* A file that stays keeps its copies in order where its validators stay too.
LEMMA StaysInOrder ==
  ASSUME Typed, Typed', NEW p \in Partitions, CopyInOrder(p), Stays(p),
         validators'[p] = validators[p], today <= today'
  PROVE  CopyInOrder(p)'
<1>1. Latest(p)' = Latest(p)
  BY LatestStays
<1>2. Len(published[p]) \in Nat /\ Len(published[p])' \in Nat
  BY DEF Typed
<1>3. \A copy \in 1 .. Len(published[p]) : Content(p, copy)' = Content(p, copy)
  BY DEF Stays, Content
<1>4. validators[p] # 0 => Content(p, validators[p])' = Content(p, validators[p])
  BY <1>2, <1>3 DEF CopyInOrder, Typed, Content, Stays
<1>5. Latest(p) # 0 => Content(p, Latest(p))' = Content(p, Latest(p))
  BY <1>1, <1>2, <1>3 DEF CopyInOrder, Content, Stays
<1>6. /\ Latest(p)' \in 0 .. Len(published'[p])
      /\ validators'[p] <= Len(published'[p])
      /\ first'[p] = 0 => validators'[p] = 0 /\ \A n \in Dates : versions'[p][n] = 0
  BY <1>1, <1>2 DEF CopyInOrder, Stays, Typed
<1>7. \A n \in Dates : versions'[p][n] # 0 => n <= today'
  BY DEF CopyInOrder, Stays, Typed, Dates
<1>8. validators'[p] # 0 =>
        /\ Latest(p)' # 0
        /\ validators'[p] < Latest(p)' \/ Content(p, Latest(p))' = Content(p, validators[p])'
  BY <1>1, <1>4, <1>5 DEF CopyInOrder
<1>9. QED
  BY <1>6, <1>7, <1>8 DEF CopyInOrder

\* A process that does nothing while its venue's files stay is still in order.
LEMMA IdleInOrder ==
  ASSUME Typed, Typed', NEW v \in Venues, ProcessInOrder(v), process'[v] = process[v],
         \A d \in TradeDays : Stays(<<v, d>>) /\ CopyInOrder(<<v, d>>), today <= today'
  PROVE  ProcessInOrder(v)'
<1>1. ASSUME Reading(v)'
      PROVE  DayInOrder(v)'
  <2>1. DayInOrder(v)
    BY <1>1 DEF ProcessInOrder, Reading
  <2>2. \A d \in TradeDays : versions'[<<v, d>>] = versions[<<v, d>>]
    BY DEF Stays
  <2>3. process'[v].noticed <= today'
    BY <2>1 DEF DayInOrder, Typed, Dates
  <2>4. QED
    BY <2>1, <2>2, <2>3 DEF DayInOrder
<1>2. ASSUME process[v].step = "validators"
      PROVE  AnswerInOrder(v)'
  <2>1. AnswerInOrder(v) /\ process[v].at \in TradeDays
    BY <1>2 DEF ProcessInOrder, Reading, DayInOrder
  <2>2. PICK d \in TradeDays : process[v].at = d
    BY <2>1
  <2>3. PICK p \in Partitions : p = <<v, d>>
    BY DEF Partitions
  <2>4. At(v) = p /\ At(v)' = p
    BY <2>2, <2>3 DEF At
  <2>5. Stays(p) /\ CopyInOrder(p) /\ Latest(p)' = Latest(p)
    BY <2>3, LatestStays
  <2>6. Len(published[p]) \in Nat /\ Len(published[p])' \in Nat
    BY DEF Typed
  <2>7. Latest(p) \in 1 .. Len(published[p]) /\ process[v].answer \in 1 .. Len(published[p])
    BY <2>1, <2>4, <2>5, <2>6 DEF CopyInOrder, AnswerInOrder
  <2>8. process'[v].answer \in 1 .. Len(published'[p])
    BY <2>5, <2>6, <2>7 DEF Stays
  <2>9. published'[p][Latest(p)] = published'[p][process[v].answer]
    BY <2>1, <2>4, <2>5, <2>7 DEF AnswerInOrder, Content, Stays
  <2>10. QED
    BY <2>1, <2>4, <2>5, <2>8, <2>9 DEF AnswerInOrder, Content
<1>3. QED
  BY <1>1, <1>2 DEF ProcessInOrder

\* A process that has moved is in order where it has nothing to hold and reads
\* on, if it reads at all, with the date it had.
LEMMA MovedInOrder ==
  ASSUME Typed, Typed', NEW v \in Venues, ProcessInOrder(v),
         \A d \in TradeDays : versions'[<<v, d>>] = versions[<<v, d>>], today <= today',
         process'[v].step # "validators",
         Reading(v)' => /\ Reading(v)
                        /\ process'[v].noticed = process[v].noticed
                        /\ process'[v].at \in TradeDays
  PROVE  ProcessInOrder(v)'
<1>1. ASSUME Reading(v)'
      PROVE  DayInOrder(v)'
  <2>1. DayInOrder(v) /\ process'[v].noticed = process[v].noticed
    BY <1>1 DEF ProcessInOrder
  <2>2. process'[v].noticed <= today'
    BY <2>1 DEF DayInOrder, Typed, Dates
  <2>3. QED
    BY <1>1, <2>1, <2>2 DEF DayInOrder
<1>2. QED
  BY <1>1 DEF ProcessInOrder

\* A process that goes on reads the day it goes on to with the date it had, or
\* is done; no other process moves.
LEMMA GoOnMoves ==
  ASSUME Typed, NEW v \in Venues, NEW state \in Process, NEW day, GoOn(v, state, day)
  PROVE  /\ process' \in [Venues -> Process]
         /\ \A u \in Venues \ {v} : process'[u] = process[u]
         /\ process'[v].step # "validators"
         /\ Reading(v)' => /\ process'[v].noticed = state.noticed
                           /\ process'[v].at \in TradeDays
<1> DEFINE left == {d \in TradeDays : day < d /\ d <= window}
<1>1. CASE process' = [process EXCEPT ![v] = Idle("done")]
  <2>1. Idle("done") \in Process
    BY DEF Idle, Process, Steps
  <2>2. process'[v].step = "done"
    BY <1>1 DEF Idle, Typed
  <2>3. QED
    BY <1>1, <2>1, <2>2 DEF Typed, Reading
<1>2. ASSUME NEW d \in left,
             process' = [process EXCEPT ![v] =
               [state EXCEPT !.step = "day", !.at = d, !.answer = 0]]
      PROVE  /\ process' \in [Venues -> Process]
             /\ \A u \in Venues \ {v} : process'[u] = process[u]
             /\ process'[v].step = "day" /\ process'[v].noticed = state.noticed
             /\ process'[v].at \in TradeDays
  <2> DEFINE next == [state EXCEPT !.step = "day", !.at = d, !.answer = 0]
  <2>1. next \in Process /\ next.step = "day" /\ next.noticed = state.noticed /\ next.at = d
    BY DEF Process, Steps
  <2> HIDE DEF next
  <2>2. process' = [process EXCEPT ![v] = next]
    BY <1>2 DEF next
  <2>3. QED
    BY <2>1, <2>2 DEF Typed
<1>3. QED
  BY <1>1, <1>2 DEF GoOn

-----------------------------------------------------------------------------
(* One step.                                                               *)

\* Every step keeps the variables typed.
LEMMA StepTyped ==
  ASSUME Typed, \A v \in Venues : ProcessInOrder(v), [Next]_vars
  PROVE  Typed'
<1> USE DEF Typed, runVars, stored
<1>1. CASE NextDay
  BY <1>1 DEF NextDay, Dates
<1>2. CASE StartRun
  BY <1>2 DEF StartRun, Idle, Process, Steps
<1>3. CASE Judge \/ EndRun
  BY <1>3 DEF Judge, EndRun, RunOver, Idle, Process, Steps
<1>4. CASE UNCHANGED vars
  BY <1>4 DEF vars
<1>5. ASSUME NEW p \in Partitions, NEW file \in Files, Publish(p, file)
      PROVE  Typed'
  <2>1. Append(published[p], file) \in Seq(Files)
    OBVIOUS
  <2>2. QED
    BY <1>5, <2>1 DEF Publish
<1>6. ASSUME NEW v \in Venues, VenueStep(v)
      PROVE  Typed'
  <2>0. process[v] \in Process
    OBVIOUS
  <2>1. CASE StartVenue(v)
    <3> DEFINE state == [process[v] EXCEPT !.rechecked = LatestDaysHeld(v), !.noticed = today]
    <3>1. LatestDaysHeld(v) \subseteq TradeDays
      BY DEF LatestDaysHeld
    <3>2. today \in 0 .. LastDay
      BY DEF Dates
    <3>3. state \in Process
      BY <2>0, <3>1, <3>2 DEF Process
    <3>4. process' \in [Venues -> Process]
      BY <2>1, <3>3, GoOnMoves DEF StartVenue
    <3>5. UNCHANGED <<today, published, first, versions, validators>>
      BY <2>1 DEF StartVenue
    <3>6. QED
      BY <3>4, <3>5
  <2>2. CASE LeaveHeld(v) \/ Kill(v)
    <3>1. [process[v] EXCEPT !.step = "store"] \in Process
      BY <2>0 DEF Process, Steps
    <3>2. Idle("killed") \in Process
      BY DEF Idle, Process, Steps
    <3>3. process' \in [Venues -> Process]
      BY <2>2, <3>1, <3>2 DEF LeaveHeld, Kill
    <3>4. QED
      BY <2>2, <3>3 DEF LeaveHeld, Kill
  <2>3. CASE PassOver(v) \/ CloseDay(v)
    <3>1. process' \in [Venues -> Process]
      BY <2>0, <2>3, GoOnMoves DEF PassOver, CloseDay, NextDayOf
    <3>2. QED
      BY <2>3, <3>1 DEF PassOver, CloseDay
  <2>4. ASSUME process[v].step = "day"
        PROVE  /\ At(v) \in Partitions /\ Len(published[At(v)]) \in Nat
               /\ process[v].noticed \in Dates
    <3>1. At(v) \in Partitions /\ process[v].noticed \in Dates
      BY <2>4 DEF ProcessInOrder, DayInOrder, Reading, At, Partitions
    <3>2. QED
      BY <3>1
  <2>5. CASE Recheck(v) \/ Fetch(v)
    <3> DEFINE now == Len(published[At(v)])
    <3>1. now \in Nat
      BY <2>4, <2>5 DEF Recheck, Fetch
    <3>2. Answered(v, now)
      BY <2>5 DEF Recheck, Fetch
    <3>3. \/ versions' = versions
          \/ versions' = [versions EXCEPT ![At(v)][process[v].noticed] = now]
      BY <2>5 DEF Recheck, Fetch
    <3>4. first' = first \/ first' = [first EXCEPT ![At(v)] = now]
      BY <2>5 DEF Recheck, Fetch
    <3>5. UNCHANGED <<today, published, validators>>
      BY <2>5 DEF Recheck, Fetch
    <3> HIDE DEF now
    <3>6. process' \in [Venues -> Process]
      BY <2>0, <3>1, <3>2 DEF Answered, Process, Steps
    <3>7. At(v) \in Partitions
      BY <2>4, <2>5 DEF Recheck, Fetch
    <3>8. versions' \in [Partitions -> [Dates -> Nat]]
      <4>1. [versions[At(v)] EXCEPT ![process[v].noticed] = now] \in [Dates -> Nat]
        BY <3>1, <3>7
      <4>2. QED
        BY <3>3, <3>7, <4>1
    <3>9. first' \in [Partitions -> Nat]
      BY <3>1, <3>4
    <3>10. QED
      BY <3>5, <3>6, <3>8, <3>9
  <2>6. CASE HoldValidators(v)
    BY <2>0, <2>6 DEF HoldValidators, Process, Steps
  <2>7. CASE Store(v)
    BY <2>0, <2>7 DEF Store, Process, Steps
  <2>8. QED
    BY <1>6, <2>1, <2>2, <2>3, <2>4, <2>5, <2>6, <2>7 DEF VenueStep
<1>7. QED
  BY <1>1, <1>2, <1>3, <1>4, <1>5, <1>6 DEF Next, Over

\* A version noticed on or after the day of every other is the latest copy.
LEMMA LatestIsNoticed ==
  ASSUME Typed, Typed', NEW p \in Partitions, NEW n \in Dates, NEW copy \in Nat \ {0},
         versions'[p] = [versions[p] EXCEPT ![n] = copy],
         \A m \in Dates : versions[p][m] # 0 => m <= n
  PROVE  Latest(p)' = copy
<1> DEFINE S == NoticedBy(p, LastDay)'
<1>1. versions'[p][n] = copy
  BY DEF Typed
<1>2. n \in S
  BY <1>1 DEF NoticedBy, Dates
<1>3. \A m \in S : m \in Dates /\ m <= n
  BY DEF NoticedBy, Typed, Dates
<1> HIDE DEF S
<1>4. \A m \in S : (\A k \in S : k <= m) => m = n
  BY <1>2, <1>3 DEF Dates
<1>5. Newest(S) = n
  BY <1>2, <1>3, <1>4 DEF Newest
<1>6. QED
  BY <1>1, <1>2, <1>5 DEF Latest, HeldBy, S

\* The first copy is the latest while no other followed it.
LEMMA LatestIsFirst ==
  ASSUME NEW p \in Partitions, \A m \in Dates : versions[p][m] = 0
  PROVE  Latest(p) = first[p]
  BY DEF Latest, HeldBy, NoticedBy

\* A file asked for again leaves its copies in order, and its process with an
\* answer to hold the validators of.
LEMMA RecheckInOrder ==
  ASSUME IInv, Typed', NEW v \in Venues, NEW p \in Partitions, p = At(v), Recheck(v)
  PROVE  CopyInOrder(p)' /\ AnswerInOrder(v)'
<1> DEFINE now == Len(published[p])
<1>1. /\ DayInOrder(v) /\ CopyInOrder(p) /\ Typed
      /\ now \in Nat
  BY DEF IInv, Recheck, ProcessInOrder, Reading, Typed
<1>2. PICK n \in Dates : n = process[v].noticed
  BY <1>1 DEF DayInOrder
<1>3. PICK d \in TradeDays : p = <<v, d>>
  BY <1>1 DEF DayInOrder, At
<1>4. \A m \in Dates : versions[p][m] # 0 => m <= n
  BY <1>1, <1>2, <1>3 DEF DayInOrder
<1>5. /\ UNCHANGED <<today, published, first, validators>>
      /\ Latest(p) # 0 /\ Answered(v, now)
      /\ IF Content(p, now) # Content(p, Latest(p))
         THEN versions' = [versions EXCEPT ![p][n] = now]
         ELSE versions' = versions
  BY <1>2 DEF Recheck
<1>6. first[p] # 0
  BY <1>1, <1>5, LatestIsFirst DEF CopyInOrder
<1>7. now # 0 /\ Latest(p) \in 1 .. now /\ n <= today /\ validators[p] \in 0 .. now
  BY <1>1, <1>2, <1>5 DEF CopyInOrder, DayInOrder, Typed
<1>8. process'[v].answer = now /\ At(v)' = p
  BY <1>1, <1>5 DEF Answered, Typed, Process, At
<1> HIDE DEF now
<1>9. CASE Content(p, now) # Content(p, Latest(p))
  <2>1. versions'[p] = [versions[p] EXCEPT ![n] = now]
    BY <1>1, <1>5, <1>9 DEF Typed
  <2>2. Latest(p)' = now
    BY <1>1, <1>4, <1>7, <2>1, LatestIsNoticed
  <2>3. \A m \in Dates : versions'[p][m] # 0 => m <= today'
    BY <1>1, <1>5, <1>7, <2>1 DEF CopyInOrder, Typed
  <2>4. validators[p] < now \/ validators[p] = now
    BY <1>7, <1>1
  <2>5. CopyInOrder(p)'
    BY <1>1, <1>5, <1>6, <1>7, <2>2, <2>3, <2>4 DEF CopyInOrder, Content, now
  <2>6. AnswerInOrder(v)'
    BY <1>1, <1>5, <1>7, <1>8, <2>2 DEF AnswerInOrder, Content, now
  <2>7. QED
    BY <2>5, <2>6
<1>10. CASE Content(p, now) = Content(p, Latest(p))
  <2>1. versions' = versions
    BY <1>5, <1>10
  <2>2. Stays(p) /\ Latest(p)' = Latest(p)
    BY <1>1, <1>5, <2>1, UnchangedStays, LatestStays
  <2>3. validators'[p] = validators[p] /\ today <= today'
    BY <1>1, <1>5 DEF Typed, Dates
  <2>4. CopyInOrder(p)'
    BY <1>1, <2>2, <2>3, StaysInOrder
  <2>5. AnswerInOrder(v)'
    BY <1>1, <1>5, <1>7, <1>8, <1>10, <2>2 DEF AnswerInOrder, Content, now
  <2>6. QED
    BY <2>4, <2>5
<1>11. QED
  BY <1>9, <1>10

\* So does a file held first.
LEMMA FetchInOrder ==
  ASSUME IInv, Typed', NEW v \in Venues, NEW p \in Partitions, p = At(v), Fetch(v)
  PROVE  CopyInOrder(p)' /\ AnswerInOrder(v)'
<1> DEFINE now == Len(published[p])
<1>1. CopyInOrder(p) /\ Typed /\ now \in Nat
  BY DEF IInv, Typed
<1>2. /\ UNCHANGED <<today, published, versions, validators>>
      /\ first[p] = 0 /\ now # 0 /\ Answered(v, now)
      /\ first'[p] = now
  BY <1>1 DEF Fetch, Typed
<1>3. validators[p] = 0 /\ \A m \in Dates : versions'[p][m] = 0
  BY <1>1, <1>2 DEF CopyInOrder
<1>4. Latest(p)' = now
  BY <1>2, <1>3 DEF Latest, HeldBy, NoticedBy
<1>5. process'[v].answer = now /\ At(v)' = p
  BY <1>1, <1>2 DEF Answered, Typed, Process, At
<1> HIDE DEF now
<1>6. CopyInOrder(p)'
  BY <1>1, <1>2, <1>3, <1>4 DEF CopyInOrder, now
<1>7. AnswerInOrder(v)'
  BY <1>1, <1>2, <1>4, <1>5 DEF AnswerInOrder, now
<1>8. QED
  BY <1>6, <1>7

\* Validators are held of the content held.
LEMMA HoldValidatorsInOrder ==
  ASSUME IInv, Typed', NEW v \in Venues, NEW p \in Partitions, p = At(v), HoldValidators(v)
  PROVE  CopyInOrder(p)'
<1>1. CopyInOrder(p) /\ Typed /\ AnswerInOrder(v)
  BY DEF IInv, HoldValidators, ProcessInOrder
<1>2. /\ UNCHANGED <<today, published, first, versions>>
      /\ validators'[p] = validators[p] \/ validators'[p] = process[v].answer
  BY <1>1 DEF HoldValidators, Typed
<1>3. Stays(p) /\ Latest(p)' = Latest(p)
  BY <1>1, <1>2, UnchangedStays, LatestStays
<1>4. CASE validators'[p] = validators[p]
  <2>1. today <= today'
    BY <1>1, <1>2 DEF Typed, Dates
  <2>2. QED
    BY <1>1, <1>3, <1>4, <2>1, StaysInOrder
<1>5. CASE validators'[p] = process[v].answer
  <2>1. /\ validators'[p] \in 1 .. Len(published[p])
        /\ Latest(p) # 0 /\ Content(p, Latest(p)) = Content(p, validators'[p])
    BY <1>1, <1>5 DEF AnswerInOrder
  <2>2. first[p] # 0
    BY <1>1, <2>1, LatestIsFirst DEF CopyInOrder
  <2>3. QED
    BY <1>1, <1>2, <1>3, <2>1, <2>2 DEF CopyInOrder, Content
<1>6. QED
  BY <1>2, <1>4, <1>5

\* What a venue's process does to the files of its venue but one.
LEMMA OthersStay ==
  ASSUME Typed, NEW v \in Venues, NEW p \in Partitions, p = At(v),
         Recheck(v) \/ Fetch(v) \/ HoldValidators(v)
  PROVE  \A q \in Partitions \ {p} : Stays(q) /\ validators'[q] = validators[q]
<1>1. ASSUME NEW q \in Partitions, q # p
      PROVE  /\ first'[q] = first[q] /\ versions'[q] = versions[q]
             /\ published'[q] = published[q] /\ validators'[q] = validators[q]
  <2>1. first' = first \/ \E copy : first' = [first EXCEPT ![p] = copy]
    BY DEF Recheck, Fetch, HoldValidators
  <2>2. \/ versions' = versions
        \/ \E n, copy : versions' = [versions EXCEPT ![p][n] = copy]
    BY DEF Recheck, Fetch, HoldValidators
  <2>3. validators' = validators \/ \E copy : validators' = [validators EXCEPT ![p] = copy]
    BY DEF Recheck, Fetch, HoldValidators
  <2>4. published' = published
    BY DEF Recheck, Fetch, HoldValidators
  <2>5. QED
    BY <1>1, <2>1, <2>2, <2>3, <2>4 DEF Typed
<1>2. QED
  BY <1>1, UnchangedStays

\* A step of a process that holds nothing leaves every copy in order, and so
\* its process.
LEMMA QuietStepInOrder ==
  ASSUME IInv, Typed', NEW v \in Venues,
         StartVenue(v) \/ LeaveHeld(v) \/ PassOver(v) \/ Store(v) \/ CloseDay(v) \/ Kill(v)
  PROVE  /\ \A p \in Partitions : Stays(p) /\ CopyInOrder(p)'
         /\ \A u \in Venues \ {v} : process'[u] = process[u]
         /\ ProcessInOrder(v)'
<1>1. UNCHANGED <<today, published, first, versions, validators>> /\ Typed
  <2>1. CASE StartVenue(v)
    BY <2>1 DEF IInv, StartVenue, stored
  <2>2. CASE LeaveHeld(v) \/ PassOver(v) \/ CloseDay(v) \/ Kill(v)
    BY <2>2 DEF IInv, LeaveHeld, PassOver, CloseDay, Kill, stored
  <2>3. CASE Store(v)
    BY <2>3 DEF IInv, Store
  <2>4. QED
    BY <2>1, <2>2, <2>3
<1>2. today <= today'
  BY <1>1 DEF Typed, Dates
<1>3. ASSUME NEW p \in Partitions
      PROVE  Stays(p) /\ CopyInOrder(p)'
  BY <1>1, <1>2, UnchangedStays, StaysInOrder DEF IInv
<1>4. process[v] \in Process /\ ProcessInOrder(v)
  BY <1>1 DEF IInv, Typed
<1>5. CASE StartVenue(v)
  <2> DEFINE state == [process[v] EXCEPT !.rechecked = LatestDaysHeld(v), !.noticed = today]
  <2>1. LatestDaysHeld(v) \subseteq TradeDays
    BY DEF LatestDaysHeld
  <2>2. today \in 0 .. LastDay
    BY <1>1 DEF Typed, Dates
  <2>3. state \in Process /\ state.noticed = today
    BY <1>4, <2>1, <2>2 DEF Process
  <2>4. GoOn(v, state, 0)
    BY <1>5 DEF StartVenue
  <2> HIDE DEF state
  <2>5. /\ \A u \in Venues \ {v} : process'[u] = process[u]
        /\ process'[v].step # "validators"
        /\ Reading(v)' => process'[v].noticed = today /\ process'[v].at \in TradeDays
    BY <1>1, <2>3, <2>4, GoOnMoves
  <2>6. \A d \in TradeDays, n \in Dates : versions[<<v, d>>][n] # 0 => n <= today
    BY DEF IInv, CopyInOrder, Partitions
  <2>7. Reading(v)' => DayInOrder(v)'
    BY <1>1, <2>5, <2>6 DEF DayInOrder, Typed, Dates
  <2>8. QED
    BY <1>3, <2>5, <2>7 DEF ProcessInOrder
<1>6. CASE PassOver(v) \/ CloseDay(v)
  <2>1. GoOn(v, process[v], process[v].at) /\ Reading(v)
    BY <1>6 DEF PassOver, CloseDay, NextDayOf, Reading
  <2>2. /\ \A u \in Venues \ {v} : process'[u] = process[u]
        /\ process'[v].step # "validators"
        /\ Reading(v)' => /\ process'[v].noticed = process[v].noticed
                          /\ process'[v].at \in TradeDays
    BY <1>1, <1>4, <2>1, GoOnMoves
  <2>3. ProcessInOrder(v)'
    BY <1>1, <1>2, <1>4, <2>1, <2>2, MovedInOrder
  <2>4. QED
    BY <1>3, <2>2, <2>3
<1>7. CASE LeaveHeld(v) \/ Store(v) \/ Kill(v)
  <2>1. /\ \A u \in Venues \ {v} : process'[u] = process[u]
        /\ process'[v].step # "validators"
    BY <1>1, <1>7 DEF LeaveHeld, Store, Kill, Idle, Typed, Process
  <2>2. Reading(v)' => /\ Reading(v)
                       /\ process'[v].noticed = process[v].noticed
                       /\ process'[v].at = process[v].at
    BY <1>1, <1>7 DEF LeaveHeld, Store, Kill, Idle, Typed, Process, Reading
  <2>3. Reading(v) => process[v].at \in TradeDays
    BY <1>4 DEF ProcessInOrder, DayInOrder
  <2>4. ProcessInOrder(v)'
    BY <1>1, <1>2, <1>4, <2>1, <2>2, <2>3, MovedInOrder
  <2>5. QED
    BY <1>3, <2>1, <2>4
<1>8. QED
  BY <1>5, <1>6, <1>7

\* So does a step that holds something.
LEMMA HoldingStepInOrder ==
  ASSUME IInv, Typed', NEW v \in Venues, Recheck(v) \/ Fetch(v) \/ HoldValidators(v)
  PROVE  /\ \A p \in Partitions : CopyInOrder(p)'
         /\ \A u \in Venues : ProcessInOrder(u)'
<1>1. Typed /\ process[v] \in Process /\ ProcessInOrder(v) /\ Reading(v) /\ DayInOrder(v)
  BY DEF IInv, Typed, Recheck, Fetch, HoldValidators, Reading, ProcessInOrder
<1>2. PICK p \in Partitions : p = At(v)
  BY <1>1 DEF DayInOrder, At, Partitions
<1>3. UNCHANGED <<today, published>> /\ today <= today'
  BY <1>1 DEF Recheck, Fetch, HoldValidators, Typed, Dates
<1>4. \A q \in Partitions \ {p} : Stays(q) /\ validators'[q] = validators[q]
  BY <1>1, <1>2, OthersStay
<1>5. CopyInOrder(p)'
  BY <1>2, RecheckInOrder, FetchInOrder, HoldValidatorsInOrder
<1>6. \A q \in Partitions : CopyInOrder(q)'
  BY <1>1, <1>3, <1>4, <1>5, StaysInOrder DEF IInv
<1>7. ASSUME NEW u \in Venues \ {v}
      PROVE  ProcessInOrder(u)'
  <2>1. process'[u] = process[u]
    BY <1>1 DEF Recheck, Fetch, HoldValidators, Answered, Typed
  <2>2. \A d \in TradeDays : <<u, d>> \in Partitions \ {p}
    BY <1>2 DEF Partitions, At
  <2>3. \A d \in TradeDays : Stays(<<u, d>>) /\ CopyInOrder(<<u, d>>)
    BY <1>4, <2>2 DEF IInv
  <2>4. QED
    BY <1>1, <1>3, <2>1, <2>3, IdleInOrder DEF IInv
<1>8. /\ process'[v].noticed = process[v].noticed /\ process'[v].at = process[v].at
      /\ process'[v].step = "store" \/ Recheck(v) \/ Fetch(v)
  <2>1. CASE Recheck(v) \/ Fetch(v)
    <3>1. Answered(v, Len(published[At(v)]))
      BY <2>1 DEF Recheck, Fetch
    <3>2. /\ process'[v].noticed = process[v].noticed
          /\ process'[v].at = process[v].at
      BY <1>1, <3>1 DEF Answered, Typed, Process
    <3>3. QED
      BY <2>1, <3>2
  <2>2. CASE HoldValidators(v)
    BY <1>1, <2>2 DEF HoldValidators, Typed, Process
  <2>3. QED
    BY <2>1, <2>2
<1>9. \A d \in TradeDays, n \in Dates : versions'[<<v, d>>][n] # 0 => n <= process[v].noticed
  <2>1. CASE Fetch(v) \/ HoldValidators(v)
    BY <1>1, <2>1 DEF Fetch, HoldValidators, DayInOrder
  <2>2. CASE Recheck(v)
    <3>1. \/ versions' = versions
          \/ versions' = [versions EXCEPT ![p][process[v].noticed] = Len(published[p])]
      BY <1>2, <2>2 DEF Recheck
    <3>2. process[v].noticed <= process[v].noticed
      BY <1>1 DEF DayInOrder, Dates
    <3>3. ASSUME NEW d \in TradeDays, NEW n \in Dates, n # process[v].noticed
          PROVE  versions'[<<v, d>>][n] = versions[<<v, d>>][n]
      <4>1. <<v, d>> \in Partitions
        BY DEF Partitions
      <4>2. CASE <<v, d>> = p
        <5>1. versions[p] \in [Dates -> Nat]
          BY <1>1 DEF Typed
        <5>2. \/ versions'[p] = versions[p]
              \/ versions'[p] =
                   [versions[p] EXCEPT ![process[v].noticed] = Len(published[p])]
          BY <1>1, <3>1 DEF Typed
        <5>3. QED
          BY <3>3, <4>2, <5>1, <5>2
      <4>3. CASE <<v, d>> # p
        BY <1>1, <3>1, <4>1, <4>3 DEF Typed
      <4>4. QED
        BY <4>2, <4>3
    <3>4. QED
      BY <1>1, <3>2, <3>3 DEF DayInOrder
  <2>3. QED
    BY <2>1, <2>2
<1>10. DayInOrder(v)'
  BY <1>1, <1>3, <1>8, <1>9 DEF DayInOrder
<1>11. process'[v].step = "validators" => AnswerInOrder(v)'
  BY <1>2, <1>8, RecheckInOrder, FetchInOrder
<1>12. QED
  BY <1>6, <1>7, <1>10, <1>11 DEF ProcessInOrder

-----------------------------------------------------------------------------
(* The invariant.                                                          *)

LEMMA InitInOrder ==
  ASSUME Init
  PROVE  IInv
<1>1. Typed
  <2>1. Idle("off") \in Process
    BY DEF Idle, Process, Steps
  <2>2. today \in Dates
    BY DEF Init, Dates
  <2>3. <<>> \in Seq(Files)
    OBVIOUS
  <2>4. QED
    BY <2>1, <2>2, <2>3 DEF Init, Typed
<1>2. ASSUME NEW p \in Partitions
      PROVE  CopyInOrder(p)
  <2>1. /\ first[p] = 0 /\ validators[p] = 0 /\ \A n \in Dates : versions[p][n] = 0
        /\ Len(published[p]) = 0
    BY DEF Init
  <2>2. Latest(p) = 0
    BY <2>1, LatestIsFirst
  <2>3. QED
    BY <2>1, <2>2 DEF CopyInOrder
<1>3. \A v \in Venues : ProcessInOrder(v)
  BY DEF Init, Idle, ProcessInOrder, Reading
<1>4. QED
  BY <1>1, <1>2, <1>3 DEF IInv

\* A step of no venue's process keeps the invariant.
LEMMA OutsideStepInOrder ==
  ASSUME IInv, Typed', \A p \in Partitions : Stays(p),
         validators' = validators, today <= today',
         process' = process \/ \A v \in Venues : ~ Reading(v)'
  PROVE  IInv'
<1>1. \A p \in Partitions : CopyInOrder(p)'
  BY StaysInOrder DEF IInv
<1>2. ASSUME NEW v \in Venues
      PROVE  ProcessInOrder(v)'
  <2>1. CASE process' = process
    <3>1. \A d \in TradeDays : Stays(<<v, d>>) /\ CopyInOrder(<<v, d>>)
      BY DEF IInv, Partitions
    <3>2. QED
      BY <2>1, <3>1, IdleInOrder DEF IInv
  <2>2. CASE ~ Reading(v)'
    BY <2>2 DEF ProcessInOrder, Reading
  <2>3. QED
    BY <2>1, <2>2
<1>3. QED
  BY <1>1, <1>2 DEF IInv

LEMMA StepInOrder ==
  ASSUME IInv, [Next]_vars
  PROVE  IInv'
<1>1. Typed /\ Typed'
  BY StepTyped DEF IInv
<1>2. ASSUME UNCHANGED <<published, first, versions, validators>>, today <= today',
             process' = process \/ \A v \in Venues : ~ Reading(v)'
      PROVE  IInv'
  <2>1. \A p \in Partitions : Stays(p)
    BY <1>1, <1>2, UnchangedStays
  <2>2. QED
    BY <1>1, <1>2, <2>1, OutsideStepInOrder
<1>3. CASE NextDay \/ UNCHANGED vars
  BY <1>1, <1>2, <1>3 DEF NextDay, vars, stored, Typed, Dates
<1>4. CASE StartRun \/ Judge \/ EndRun
  <2>1. UNCHANGED <<today, published, first, versions, validators>>
    BY <1>4 DEF StartRun, Judge, EndRun, RunOver, stored
  <2>2. \A v \in Venues : ~ Reading(v)'
    BY <1>4 DEF StartRun, Judge, EndRun, RunOver, Idle, Reading
  <2>3. QED
    BY <1>1, <1>2, <2>1, <2>2 DEF Typed, Dates
<1>5. ASSUME NEW p \in Partitions, NEW file \in Files, Publish(p, file)
      PROVE  IInv'
  <2>1. \A q \in Partitions : Stays(q)
    BY <1>1, <1>5, PublishStays
  <2>2. UNCHANGED <<today, validators, process>>
    BY <1>5 DEF Publish, stored
  <2>3. today <= today'
    BY <1>1, <2>2 DEF Typed, Dates
  <2>4. QED
    BY <1>1, <2>1, <2>2, <2>3, OutsideStepInOrder
<1>6. ASSUME NEW v \in Venues, VenueStep(v)
      PROVE  IInv'
  <2>1. CASE Recheck(v) \/ Fetch(v) \/ HoldValidators(v)
    BY <1>1, <2>1, HoldingStepInOrder DEF IInv
  <2>2. CASE StartVenue(v) \/ LeaveHeld(v) \/ PassOver(v) \/ Store(v) \/ CloseDay(v) \/ Kill(v)
    <3>1. /\ \A p \in Partitions : Stays(p) /\ CopyInOrder(p)'
          /\ \A u \in Venues \ {v} : process'[u] = process[u]
          /\ ProcessInOrder(v)'
      BY <1>1, <2>2, QuietStepInOrder
    <3>2. today <= today'
      BY <1>1, <2>2 DEF StartVenue, LeaveHeld, PassOver, Store, CloseDay, Kill, Typed, Dates
    <3>3. ASSUME NEW u \in Venues \ {v}
          PROVE  ProcessInOrder(u)'
      <4>1. \A d \in TradeDays : Stays(<<u, d>>) /\ CopyInOrder(<<u, d>>)
        BY <3>1 DEF IInv, Partitions
      <4>2. QED
        BY <1>1, <3>1, <3>2, <4>1, IdleInOrder DEF IInv
    <3>4. QED
      BY <1>1, <3>1, <3>3 DEF IInv
  <2>3. QED
    BY <1>6, <2>1, <2>2 DEF VenueStep
<1>7. QED
  BY <1>3, <1>4, <1>5, <1>6 DEF Next, Over

\* In order, a venue whose validators match is a venue whose file is held.
LEMMA InOrderHidesNothing ==
  ASSUME IInv
  PROVE  NothingHidden
<1>1. ASSUME NEW p \in Partitions, validators[p] # 0, validators[p] = Len(published[p])
      PROVE  Latest(p) # 0 /\ Content(p, Latest(p)) = Content(p, validators[p])
  <2>1. CopyInOrder(p) /\ validators[p] \in Nat
    BY DEF IInv, Typed
  <2>2. ~ (validators[p] < Latest(p))
    BY <1>1, <2>1 DEF CopyInOrder
  <2>3. QED
    BY <1>1, <2>1, <2>2 DEF CopyInOrder
<1>2. QED
  BY <1>1 DEF NothingHidden

\* For any venues, days, corrections and runs, and wherever a process is
\* killed: a venue asked with the validators held that answers "not modified"
\* publishes the content of the latest copy (revalidation.recheck).
THEOREM NothingIsHidden == Spec => []NothingHidden
<1>1. Init => IInv
  BY InitInOrder
<1>2. IInv /\ [Next]_vars => IInv'
  BY StepInOrder
<1>3. IInv => NothingHidden
  BY InOrderHidesNothing
<1>4. QED
  BY <1>1, <1>2, <1>3, PTL DEF Spec

-----------------------------------------------------------------------------
(* Bars: which one stands on a date.                                       *)

\* Any days there are have a latest one.
LEMMA NewestExists ==
  ASSUME NEW S, S \subseteq Dates, S # {}
  PROVE  Newest(S) \in S /\ \A m \in S : m <= Newest(S)
<1>1. S \subseteq 0 .. LastDay
  BY DEF Dates
<1>2. PICK n \in S : \A m \in S : m <= n
  BY <1>1, GreatestUpTo
<1>3. QED
  BY <1>2, Zenon DEF Newest

\* The bar standing on a date is that of the latest date there is one of.
LEMMA StandingIs ==
  ASSUME NEW b, NEW i, NEW date, NEW n \in Dates, n <= date, b[<<i, n>>] # Absent,
         \A m \in Dates : m <= date /\ b[<<i, m>>] # Absent => m <= n
  PROVE  Standing(b, i, date) = b[<<i, n>>]
<1> DEFINE S == StoredBy(b, i, date)
<1>1. S \subseteq Dates /\ n \in S /\ \A m \in S : m <= n
  BY DEF StoredBy
<1> HIDE DEF S
<1>2. Newest(S) \in S /\ \A m \in S : m <= Newest(S)
  BY <1>1, NewestExists
<1>3. n <= Newest(S) /\ Newest(S) <= n /\ Newest(S) \in Dates
  BY <1>1, <1>2
<1>4. Newest(S) = n
  BY <1>3 DEF Dates
<1>5. QED
  BY <1>1, <1>4 DEF Standing, S

\* None stands where there is none, and where there is one, one of a date does.
LEMMA StandingCases ==
  ASSUME NEW b, NEW i, NEW date
  PROVE  \/ /\ \A m \in Dates : m <= date => b[<<i, m>>] = Absent
            /\ Standing(b, i, date) = Absent
         \/ \E n \in Dates :
              /\ n <= date /\ b[<<i, n>>] # Absent
              /\ \A m \in Dates : m <= date /\ b[<<i, m>>] # Absent => m <= n
              /\ Standing(b, i, date) = b[<<i, n>>]
<1> DEFINE S == StoredBy(b, i, date)
<1>1. CASE S = {}
  BY <1>1 DEF StoredBy, Standing
<1>2. CASE S # {}
  <2>1. S \subseteq Dates
    BY DEF StoredBy
  <2>2. Newest(S) \in S /\ \A m \in S : m <= Newest(S)
    BY <1>2, <2>1, NewestExists
  <2>3. Standing(b, i, date) = b[<<i, Newest(S)>>]
    BY <1>2 DEF Standing
  <2>4. QED
    BY <2>2, <2>3 DEF StoredBy
<1>3. QED
  BY <1>1, <1>2

\* What stands depends on the bars dated by then.
LEMMA StandingSame ==
  ASSUME NEW b, NEW c, NEW i, NEW date, \A m \in Dates : m <= date => c[<<i, m>>] = b[<<i, m>>]
  PROVE  Standing(c, i, date) = Standing(b, i, date)
<1>1. StoredBy(c, i, date) = StoredBy(b, i, date)
  BY DEF StoredBy
<1> DEFINE S == StoredBy(b, i, date)
<1>2. CASE S = {}
  BY <1>1, <1>2 DEF Standing
<1>3. CASE S # {}
  <2>1. S \subseteq Dates
    BY DEF StoredBy
  <2>2. Newest(S) \in S
    BY <1>3, <2>1, NewestExists
  <2>3. c[<<i, Newest(S)>>] = b[<<i, Newest(S)>>]
    BY <2>2 DEF StoredBy
  <2>4. QED
    BY <1>1, <1>3, <2>3 DEF Standing
<1>4. QED
  BY <1>2, <1>3

\* Past the last bar of an instrument the same one stands.
LEMMA StandingPast ==
  ASSUME NEW b, NEW i, NEW date \in Nat, NEW later \in Nat, date <= later,
         \A m \in Dates : m <= later /\ b[<<i, m>>] # Absent => m <= date
  PROVE  Standing(b, i, later) = Standing(b, i, date)
<1>1. StoredBy(b, i, later) = StoredBy(b, i, date)
  BY DEF StoredBy, Dates
<1>2. QED
  BY <1>1 DEF Standing

-----------------------------------------------------------------------------
(* What the bars stored of a file say of the copies held of it.            *)

Bars == [Isins \X Dates -> Values \union {Absent}]

\* A bar is the first copy's, dated the day itself, or one of a publication a
\* corrected copy was noticed with or after, dated the day noticed.
Dated(b, p) ==
  \A i \in Isins, n \in Dates : b[<<i, n>>] # Absent =>
    \/ n = Day(p) /\ first[p] # 0 /\ b[<<i, n>>] = Content(p, first[p])[i]
    \/ \E copy \in 1 .. versions[p][n] : b[<<i, n>>] = Content(p, copy)[i]

\* The first copy's bars hold the trading day's date.
FirstStands(b, p) ==
  \A i \in Isins : Content(p, first[p])[i] # Absent =>
    b[<<i, Day(p)>>] = Content(p, first[p])[i]

\* The copy noticed on a date stands on it, but for the keys it found taken.
Noted(b, p, n) ==
  \A i \in Isins : Content(p, versions[p][n])[i] # Absent =>
    \/ Standing(b, i, n) = Content(p, versions[p][n])[i]
    \/ b[<<i, n>>] # Absent

\* No copy is passed over for one noticed after it.
NotedBefore(b, p) ==
  \A j \in Isins, m, n \in Dates :
    b[<<j, m>>] # Absent /\ n < m /\ versions[p][n] # 0 => Noted(b, p, n)

Whole(b, p) ==
  /\ Dated(b, p) /\ FirstStands(b, p)
  /\ \A n \in Dates : versions[p][n] # 0 => Noted(b, p, n)

\* A copy is of something published, on its day or after; a correction is of
\* what the first copy is of or of something later, and noticed from the day on.
CopiesPublished(p) ==
  /\ published[p] # <<>> => Day(p) <= today
  /\ first[p] <= Len(published[p])
  /\ \A n \in Dates :
       /\ versions[p][n] <= Len(published[p])
       /\ versions[p][n] # 0 => first[p] # 0 /\ first[p] <= versions[p][n] /\ Day(p) <= n

\* A key already stored stays, and no other date's bar is touched.
LEMMA AppendedKeeps ==
  ASSUME NEW b, NEW file, NEW n \in Dates, NEW chosen, NEW c, c = Appended(b, file, n, chosen)
  PROVE  /\ \A i \in Isins, m \in Dates :
              /\ b[<<i, m>>] # Absent => c[<<i, m>>] = b[<<i, m>>]
              /\ m # n => c[<<i, m>>] = b[<<i, m>>]
         /\ \A i \in Isins : b[<<i, n>>] = Absent =>
              c[<<i, n>>] = IF i \in chosen THEN file[i] ELSE Absent
  BY DEF Appended

LEMMA AppendedTyped ==
  ASSUME NEW b \in Bars, NEW file \in [Isins -> Values \union {Absent}], NEW n, NEW chosen
  PROVE  Appended(b, file, n, chosen) \in Bars
  BY DEF Appended, Bars

\* Once a corrected copy's bars are appended it stands, and what did before does.
LEMMA CopyAppended ==
  ASSUME NEW p \in Partitions, CopiesPublished(p), versions \in [Partitions -> [Dates -> Nat]],
         NEW k \in Dates, versions[p][k] # 0,
         NEW file, file = Content(p, versions[p][k]),
         NEW b, NEW c, c = Appended(b, file, k, Corrected(b, file)),
         Dated(b, p), FirstStands(b, p), NotedBefore(b, p),
         \A n \in Dates : n < k /\ versions[p][n] # 0 => Noted(b, p, n)
  PROVE  /\ Dated(c, p) /\ FirstStands(c, p) /\ NotedBefore(c, p)
         /\ \A n \in Dates : n <= k /\ versions[p][n] # 0 => Noted(c, p, n)
<1>1. /\ \A i \in Isins, m \in Dates :
           /\ b[<<i, m>>] # Absent => c[<<i, m>>] = b[<<i, m>>]
           /\ m # k => c[<<i, m>>] = b[<<i, m>>]
      /\ \A i \in Isins : b[<<i, k>>] = Absent =>
           c[<<i, k>>] = IF i \in Corrected(b, file) THEN file[i] ELSE Absent
  BY DEF Appended
<1>2. versions[p][k] \in Nat /\ k \in Nat /\ LastDay \in Nat /\ k <= LastDay
  BY DEF Dates
<1>3. Dated(c, p)
  <2>1. ASSUME NEW i \in Isins, NEW n \in Dates, c[<<i, n>>] # Absent
        PROVE  \/ n = Day(p) /\ first[p] # 0 /\ c[<<i, n>>] = Content(p, first[p])[i]
               \/ \E copy \in 1 .. versions[p][n] : c[<<i, n>>] = Content(p, copy)[i]
    <3>1. CASE b[<<i, n>>] # Absent
      BY <1>1, <2>1, <3>1 DEF Dated
    <3>2. CASE b[<<i, n>>] = Absent
      <4>1. n = k /\ c[<<i, n>>] = file[i]
        BY <1>1, <2>1, <3>2
      <4>2. versions[p][k] \in 1 .. versions[p][k]
        BY <1>2
      <4>3. QED
        BY <4>1, <4>2
    <3>3. QED
      BY <3>1, <3>2
  <2>2. QED
    BY <2>1 DEF Dated
<1>4. FirstStands(c, p)
  <2>1. Day(p) \in Dates
    BY DEF Partitions, Day
  <2>2. QED
    BY <1>1, <2>1 DEF FirstStands
<1>5. ASSUME NEW n \in Dates, n < k, versions[p][n] # 0
      PROVE  Noted(c, p, n)
  <2>1. ASSUME NEW i \in Isins
        PROVE  Standing(c, i, n) = Standing(b, i, n)
    <3>1. \A m \in Dates : m <= n => c[<<i, m>>] = b[<<i, m>>]
      BY <1>1, <1>5 DEF Dates
    <3>2. QED
      BY <3>1, StandingSame
  <2>2. Noted(b, p, n)
    BY <1>5
  <2>3. QED
    BY <1>1, <2>1, <2>2 DEF Noted
<1>6. ASSUME NEW i \in Isins, file[i] # Absent, b[<<i, k>>] = Absent,
             \/ Standing(b, i, LastDay) # file[i]
             \/ Standing(b, i, k) = file[i]
      PROVE  Standing(c, i, k) = file[i]
  <2>1. CASE c[<<i, k>>] = Absent
    <3>1. i \notin Corrected(b, file)
      BY <1>1, <1>6, <2>1
    <3>2. Standing(b, i, k) = file[i]
      BY <1>6, <3>1 DEF Corrected
    <3>3. \A m \in Dates : m <= k => c[<<i, m>>] = b[<<i, m>>]
      BY <1>1, <1>6, <2>1
    <3>4. Standing(c, i, k) = Standing(b, i, k)
      BY <3>3, StandingSame
    <3>5. QED
      BY <3>2, <3>4
  <2>2. CASE c[<<i, k>>] # Absent
    <3>1. c[<<i, k>>] = file[i]
      BY <1>1, <1>6, <2>2
    <3>2. \A m \in Dates : m <= k /\ c[<<i, m>>] # Absent => m <= k
      OBVIOUS
    <3>3. k <= k
      BY <1>2
    <3>4. QED
      BY <2>2, <3>1, <3>2, <3>3, StandingIs
  <2>3. QED
    BY <2>1, <2>2
<1>7. Noted(c, p, k)
  <2>1. ASSUME NEW i \in Isins, file[i] # Absent
        PROVE  Standing(c, i, k) = file[i] \/ c[<<i, k>>] # Absent
    <3>1. CASE b[<<i, k>>] # Absent
      BY <1>1, <3>1
    <3>2. CASE b[<<i, k>>] = Absent /\ Standing(b, i, LastDay) # file[i]
      BY <1>6, <2>1, <3>2
    <3>3. CASE b[<<i, k>>] = Absent /\ Standing(b, i, LastDay) = file[i]
      <4>1. CASE \E m \in Dates : k < m /\ b[<<i, m>>] # Absent
        <5>1. Noted(b, p, k)
          BY <4>1 DEF NotedBefore
        <5>2. Standing(b, i, k) = file[i]
          BY <2>1, <3>3, <5>1 DEF Noted
        <5>3. QED
          BY <1>6, <2>1, <3>3, <5>2
      <4>2. CASE \A m \in Dates : ~ (k < m /\ b[<<i, m>>] # Absent)
        <5>1. \A m \in Dates : m <= LastDay /\ b[<<i, m>>] # Absent => m <= k
          BY <1>2, <4>2 DEF Dates
        <5>2. Standing(b, i, LastDay) = Standing(b, i, k)
          BY <1>2, <5>1, StandingPast
        <5>3. QED
          BY <1>6, <2>1, <3>3, <5>2
      <4>3. QED
        BY <4>1, <4>2
    <3>4. QED
      BY <3>1, <3>2, <3>3
  <2>2. QED
    BY <2>1 DEF Noted
<1>8. ASSUME NEW j \in Isins, NEW m \in Dates, b[<<j, m>>] # Absent, k < m,
             NEW n \in Dates, n < m, k < n, versions[p][n] # 0
      PROVE  Noted(c, p, n)
  <2>1. Noted(b, p, k) /\ Noted(b, p, n)
    BY <1>8 DEF NotedBefore
  <2>2. ASSUME NEW i \in Isins
        PROVE  Standing(c, i, n) = Standing(b, i, n)
    <3>1. CASE c[<<i, k>>] = b[<<i, k>>]
      <4>1. \A l \in Dates : l <= n => c[<<i, l>>] = b[<<i, l>>]
        BY <1>1, <3>1
      <4>2. QED
        BY <4>1, StandingSame
    <3>2. CASE c[<<i, k>>] # b[<<i, k>>]
      <4>1. b[<<i, k>>] = Absent /\ c[<<i, k>>] = file[i] /\ file[i] # Absent
        BY <1>1, <3>2
      <4>2. Standing(b, i, k) = file[i]
        BY <2>1, <4>1 DEF Noted
      <4>3. CASE \E l \in Dates : k < l /\ l <= n /\ b[<<i, l>>] # Absent
        <5>1. PICK l \in Dates : /\ l <= n /\ b[<<i, l>>] # Absent
                                 /\ \A h \in Dates : h <= n /\ b[<<i, h>>] # Absent => h <= l
                                 /\ Standing(b, i, n) = b[<<i, l>>]
          BY <4>3, StandingCases
        <5>2. k < l /\ c[<<i, l>>] = b[<<i, l>>]
          BY <1>1, <4>3, <5>1 DEF Dates
        <5>3. \A h \in Dates : h <= n /\ c[<<i, h>>] # Absent => h <= l
          <6>1. \A h \in Dates : h # k => c[<<i, h>>] = b[<<i, h>>]
            BY <1>1
          <6>2. k <= l
            BY <1>2, <5>2 DEF Dates
          <6>3. QED
            BY <5>1, <6>1, <6>2
        <5>4. Standing(c, i, n) = c[<<i, l>>]
          BY <5>1, <5>2, <5>3, StandingIs
        <5>5. QED
          BY <5>1, <5>2, <5>4
      <4>4. CASE \A l \in Dates : ~ (k < l /\ l <= n /\ b[<<i, l>>] # Absent)
        <5>1. n \in Nat /\ k <= n
          BY <1>2, <1>8 DEF Dates
        <5>2. \A l \in Dates : l <= n /\ b[<<i, l>>] # Absent => l <= k
          BY <1>2, <4>4 DEF Dates
        <5>3. Standing(b, i, n) = Standing(b, i, k)
          BY <1>2, <5>1, <5>2, StandingPast
        <5>4. \A l \in Dates : l <= n /\ c[<<i, l>>] # Absent => l <= k
          BY <1>1, <1>2, <5>2
        <5>5. Standing(c, i, n) = c[<<i, k>>]
          <6>1. c[<<i, k>>] # Absent
            BY <4>1
          <6>2. k \in Dates /\ k <= n
            BY <5>1
          <6>3. QED
            BY ONLY <5>4, <6>1, <6>2, StandingIs
        <5>6. QED
          BY <4>1, <4>2, <5>3, <5>5
      <4>5. QED
        BY <4>3, <4>4
    <3>3. QED
      BY <3>1, <3>2
  <2>3. QED
    BY <1>1, <2>1, <2>2 DEF Noted
<1>9. NotedBefore(c, p)
  <2>1. ASSUME NEW j \in Isins, NEW m \in Dates, c[<<j, m>>] # Absent,
               NEW n \in Dates, n < m, versions[p][n] # 0
        PROVE  Noted(c, p, n)
    <3>1. CASE n < k
      BY <1>5, <2>1, <3>1
    <3>2. CASE n = k
      BY <1>7, <3>2
    <3>3. CASE k < n
      <4>1. k < m /\ m # k
        BY <2>1, <3>3 DEF Dates
      <4>2. b[<<j, m>>] # Absent
        BY <1>1, <2>1, <4>1
      <4>3. QED
        BY <1>8, <2>1, <3>3, <4>1, <4>2
    <3>4. QED
      BY <3>1, <3>2, <3>3 DEF Dates
  <2>2. QED
    BY <2>1 DEF NotedBefore
<1>10. ASSUME NEW n \in Dates, n <= k, versions[p][n] # 0
       PROVE  Noted(c, p, n)
  <2>1. n < k \/ n = k
    BY <1>10 DEF Dates
  <2>2. QED
    BY <1>5, <1>7, <1>10, <2>1
<1>11. QED
  BY <1>3, <1>4, <1>9, <1>10

\* What is published of a file gives each instrument a value or none.
LEMMA ContentTyped ==
  ASSUME Typed, NEW p \in Partitions, NEW copy \in 1 .. Len(published[p])
  PROVE  Content(p, copy) \in [Isins -> Values \union {Absent}]
<1>1. published[p] \in Seq(Files)
  BY DEF Typed
<1>2. published[p][copy] \in Files
  BY <1>1
<1>3. QED
  BY <1>2 DEF Content, Files

\* Storing goes over the copies in the order they were noticed.
LEMMA BarsOfRuns ==
  ASSUME Typed, NEW p \in Partitions, CopiesPublished(p), first[p] # 0, bars[p] \in Bars
  PROVE  \E after \in [0 .. LastDay -> Bars] :
           /\ after[0] = Appended(bars[p], Content(p, first[p]), Day(p), Isins)
           /\ \A n \in 1 .. LastDay : after[n] =
                IF versions[p][n] = 0 THEN after[n - 1]
                ELSE Appended(after[n - 1], Content(p, versions[p][n]), n,
                              Corrected(after[n - 1], Content(p, versions[p][n])))
           /\ BarsOf(p) = after[LastDay]
<1> DEFINE Start == Appended(bars[p], Content(p, first[p]), Day(p), Isins)
           Step(n, b) == IF versions[p][n] = 0 THEN b
                         ELSE Appended(b, Content(p, versions[p][n]), n,
                                       Corrected(b, Content(p, versions[p][n])))
           Runs(f) == f = [n \in 0 .. LastDay |-> IF n = 0 THEN Start ELSE Step(n, f[n - 1])]
           G == [n \in 1 .. LastDay |-> [b \in Bars |-> Step(n, b)]]
<1>1. Start \in Bars
  <2>1. first[p] \in 1 .. Len(published[p])
    BY DEF CopiesPublished, Typed
  <2>2. QED
    BY <2>1, ContentTyped, AppendedTyped
<1>2. ASSUME NEW n \in 1 .. LastDay, NEW b \in Bars
      PROVE  Step(n, b) \in Bars
  <2>1. CASE versions[p][n] = 0
    BY <2>1
  <2>2. CASE versions[p][n] # 0
    <3>1. n \in Dates
      BY DEF Dates
    <3>2. versions[p][n] \in Nat /\ versions[p][n] <= Len(published[p])
      BY <3>1 DEF CopiesPublished, Typed
    <3>3. versions[p][n] \in 1 .. Len(published[p])
      BY <2>2, <3>2 DEF Typed
    <3>4. Content(p, versions[p][n]) \in [Isins -> Values \union {Absent}]
      BY <3>3, ContentTyped
    <3>5. QED
      BY <2>2, <3>4, AppendedTyped
  <2>3. QED
    BY <2>1, <2>2
<1> HIDE DEF Start, Step
<1>3. \A n \in 1 .. LastDay, b \in Bars : G[n][b] = Step(n, b) /\ G[n][b] \in Bars
  BY <1>2
<1> HIDE DEF G
<1>4. PICK f \in [0 .. LastDay -> Bars] : Recurs(f, Start, G, LastDay)
  <2>1. G \in [1 .. LastDay -> [Bars -> Bars]]
    BY <1>2 DEF G
  <2>2. LastDay \in Nat
    OBVIOUS
  <2>3. QED
    BY ONLY <1>1, <2>1, <2>2, RecursionExists
<1>5. \A n \in 1 .. LastDay : f[n] = Step(n, f[n - 1])
  <2>1. \A n \in 1 .. LastDay : f[n - 1] \in Bars
    OBVIOUS
  <2>2. QED
    BY <1>3, <1>4, <2>1 DEF Recurs
<1>6. Runs(f)
  BY <1>4, <1>5 DEF Recurs
<1> DEFINE after == CHOOSE g : Runs(g)
<1>7. Runs(after)
  BY <1>6, Zenon
<1>8. BarsOf(p) = after[LastDay]
  BY DEF BarsOf, Start, Step
<1> HIDE DEF after
<1>9. after[0] = Start /\ \A n \in 1 .. LastDay : after[n] = Step(n, after[n - 1])
  BY <1>7
<1>10. after \in [0 .. LastDay -> Bars]
  <2> DEFINE Bad == {n \in 0 .. LastDay : after[n] \notin Bars}
  <2>1. SUFFICES ASSUME Bad # {} PROVE FALSE
    BY <1>7
  <2>2. Bad \subseteq Nat
    OBVIOUS
  <2> HIDE DEF Bad
  <2>3. PICK n \in Bad : \A m \in Bad : n <= m
    BY <2>1, <2>2, LeastNatural
  <2>4. n \in 1 .. LastDay /\ n - 1 \in 0 .. LastDay /\ after[n] \notin Bars
    BY <1>1, <1>9, <2>3 DEF Bad
  <2>5. n - 1 \notin Bad
    BY <2>3, <2>4
  <2>6. after[n - 1] \in Bars
    BY <2>4, <2>5 DEF Bad
  <2>7. QED
    BY <1>2, <1>9, <2>4, <2>6
<1>11. QED
  BY <1>8, <1>9, <1>10 DEF Start, Step

\* Once stored, every copy held stands on the days it stood, and no bar there was is gone.
LEMMA StoredWhole ==
  ASSUME Typed, NEW p \in Partitions, CopiesPublished(p), first[p] # 0, bars[p] \in Bars,
         Dated(bars[p], p), NotedBefore(bars[p], p), HoldsBars(p) => FirstStands(bars[p], p)
  PROVE  /\ BarsOf(p) \in Bars
         /\ Whole(BarsOf(p), p) /\ NotedBefore(BarsOf(p), p)
         /\ \A k \in Isins \X Dates : bars[p][k] # Absent => BarsOf(p)[k] = bars[p][k]
<1> DEFINE file == Content(p, first[p])
           FileOf(n) == Content(p, versions[p][n])
           Good(b, n) ==
             /\ Dated(b, p) /\ FirstStands(b, p) /\ NotedBefore(b, p)
             /\ \A m \in Dates : m <= n /\ versions[p][m] # 0 => Noted(b, p, m)
             /\ \A i \in Isins, m \in Dates :
                  bars[p][<<i, m>>] # Absent => b[<<i, m>>] = bars[p][<<i, m>>]
<1>1. PICK after \in [0 .. LastDay -> Bars] :
        /\ after[0] = Appended(bars[p], file, Day(p), Isins)
        /\ \A n \in 1 .. LastDay : after[n] =
             IF versions[p][n] = 0 THEN after[n - 1]
             ELSE Appended(after[n - 1], FileOf(n), n, Corrected(after[n - 1], FileOf(n)))
        /\ BarsOf(p) = after[LastDay]
  BY BarsOfRuns
<1>2. Day(p) \in Dates
  BY DEF Partitions, Day
<1>3. Good(after[0], 0)
  <2> DEFINE c == after[0]
  <2>1. \A i \in Isins, m \in Dates :
          /\ bars[p][<<i, m>>] # Absent => c[<<i, m>>] = bars[p][<<i, m>>]
          /\ m # Day(p) => c[<<i, m>>] = bars[p][<<i, m>>]
    BY <1>1, <1>2 DEF Appended
  <2>2. \A i \in Isins : bars[p][<<i, Day(p)>>] = Absent => c[<<i, Day(p)>>] = file[i]
    BY <1>1, <1>2 DEF Appended
  <2> HIDE DEF c
  <2>3. Dated(c, p)
    BY <2>1, <2>2 DEF Dated
  <2>4. CASE HoldsBars(p)
    <3>1. \A i \in Isins, m \in Dates : c[<<i, m>>] = bars[p][<<i, m>>]
      BY <1>2, <2>1, <2>2, <2>4 DEF FirstStands
    <3>2. \A i \in Isins : \A n : Standing(c, i, n) = Standing(bars[p], i, n)
      BY <3>1, StandingSame
    <3>3. FirstStands(c, p)
      BY <1>2, <2>4, <3>1 DEF FirstStands
    <3>4. NotedBefore(c, p)
      BY <3>1, <3>2 DEF NotedBefore, Noted
    <3>5. QED
      BY <2>1, <2>3, <3>3, <3>4 DEF Dates, c
  <2>5. CASE ~ HoldsBars(p)
    <3>1. \A i \in Isins, m \in Dates : bars[p][<<i, m>>] = Absent
      BY <2>5 DEF HoldsBars
    <3>2. FirstStands(c, p)
      BY <1>2, <2>2, <3>1 DEF FirstStands
    <3>3. \A j \in Isins, m \in Dates : c[<<j, m>>] # Absent => m = Day(p)
      BY <2>1, <3>1
    <3>4. \A n \in Dates : versions[p][n] # 0 => Day(p) <= n
      BY DEF CopiesPublished
    <3>5. NotedBefore(c, p)
      BY <1>2, <3>3, <3>4 DEF NotedBefore, Dates
    <3>6. QED
      BY <2>1, <2>3, <3>2, <3>5 DEF Dates, c
  <2>6. QED
    BY <2>4, <2>5
<1>4. ASSUME NEW n \in 1 .. LastDay, Good(after[n - 1], n - 1)
      PROVE  Good(after[n], n)
  <2>1. n \in Dates /\ n - 1 \in 0 .. LastDay
    BY DEF Dates
  <2>2. CASE versions[p][n] = 0
    <3>1. after[n] = after[n - 1]
      BY <1>1, <2>2
    <3>2. \A m \in Dates : m <= n /\ versions[p][m] # 0 => m <= n - 1
      BY <2>2 DEF Dates
    <3>3. QED
      BY <1>4, <3>1, <3>2
  <2>3. CASE versions[p][n] # 0
    <3> DEFINE b == after[n - 1]
               c == after[n]
    <3>1. c = Appended(b, FileOf(n), n, Corrected(b, FileOf(n)))
      BY <1>1, <2>3
    <3>2. Good(b, n - 1)
      BY <1>4
    <3>3. \A m \in Dates : m < n => m <= n - 1
      BY DEF Dates
    <3> HIDE DEF b, c, FileOf
    <3>4. \A m \in Dates : m < n /\ versions[p][m] # 0 => Noted(b, p, m)
      BY <3>2, <3>3
    <3>5. versions \in [Partitions -> [Dates -> Nat]]
      BY DEF Typed
    <3>6. /\ Dated(c, p) /\ FirstStands(c, p) /\ NotedBefore(c, p)
          /\ \A m \in Dates : m <= n /\ versions[p][m] # 0 => Noted(c, p, m)
      BY <2>1, <2>3, <3>1, <3>2, <3>4, <3>5, CopyAppended DEF FileOf
    <3>7. \A i \in Isins, m \in Dates : b[<<i, m>>] # Absent => c[<<i, m>>] = b[<<i, m>>]
      BY <3>1 DEF Appended
    <3>8. \A i \in Isins, m \in Dates :
            bars[p][<<i, m>>] # Absent => c[<<i, m>>] = bars[p][<<i, m>>]
      BY <3>2, <3>7
    <3>9. QED
      BY <3>6, <3>8 DEF c
  <2>4. QED
    BY <2>2, <2>3
<1> HIDE DEF Good
<1>5. \A n \in 0 .. LastDay : Good(after[n], n)
  <2> DEFINE Bad == {n \in 0 .. LastDay : ~ Good(after[n], n)}
  <2>1. SUFFICES ASSUME Bad # {} PROVE FALSE
    OBVIOUS
  <2>2. Bad \subseteq Nat
    OBVIOUS
  <2> HIDE DEF Bad
  <2>3. PICK n \in Bad : \A m \in Bad : n <= m
    BY <2>1, <2>2, LeastNatural
  <2>4. n \in 1 .. LastDay /\ n - 1 \in 0 .. LastDay /\ ~ Good(after[n], n)
    BY <1>3, <2>3 DEF Bad
  <2>5. n - 1 \notin Bad
    BY <2>3, <2>4
  <2>6. Good(after[n - 1], n - 1)
    BY <2>4, <2>5 DEF Bad
  <2>7. QED
    BY <1>4, <2>4, <2>6
<1>6. Good(BarsOf(p), LastDay) /\ BarsOf(p) \in Bars
  <2>1. LastDay \in 0 .. LastDay
    OBVIOUS
  <2>2. QED
    BY <1>1, <1>5, <2>1
<1>7. \A n \in Dates : n <= LastDay
  BY DEF Dates
<1>8. QED
  BY <1>6, <1>7 DEF Good, Whole

\* What is held of a file is whole when the bars standing on every day are those of
\* the copy held by then.
LEMMA WholeIsKnown ==
  ASSUME Typed, NEW p \in Partitions, CopiesPublished(p), first[p] # 0,
         NEW b, Whole(b, p), NEW date \in Day(p) .. LastDay, NEW i \in Isins,
         NEW held, held = HeldBy(p, date), Content(p, held)[i] # Absent,
         NEW dated, dated = IF NoticedBy(p, date) = {} THEN Day(p) ELSE Newest(NoticedBy(p, date))
  PROVE  \/ Standing(b, i, date) = Content(p, held)[i]
         \/ \E copy \in 1 .. held - 1 : b[<<i, dated>>] = Content(p, copy)[i]
<1> DEFINE N == NoticedBy(p, date)
<1>1. Day(p) \in Dates /\ date \in Dates /\ Day(p) <= date
  <2>1. Day(p) \in Dates
    BY DEF Partitions, Day
  <2>2. QED
    BY <2>1 DEF Dates
<1>2. ASSUME NEW m \in Dates, b[<<i, m>>] # Absent
      PROVE  m = Day(p) \/ versions[p][m] # 0
  <2>1. CASE \E copy \in 1 .. versions[p][m] : b[<<i, m>>] = Content(p, copy)[i]
    BY <2>1 DEF Typed
  <2>2. QED
    BY <1>2, <2>1 DEF Whole, Dated
<1>3. CASE N = {}
  <2>1. \A m \in Dates : m <= date => versions[p][m] = 0
    BY <1>3 DEF NoticedBy
  <2>2. held = first[p]
    BY <1>3 DEF HeldBy
  <2>3. b[<<i, Day(p)>>] = Content(p, held)[i] /\ b[<<i, Day(p)>>] # Absent
    BY <2>2 DEF Whole, FirstStands
  <2>4. \A m \in Dates : m <= date /\ b[<<i, m>>] # Absent => m <= Day(p)
    BY <1>1, <1>2, <2>1 DEF Dates
  <2>5. Standing(b, i, date) = b[<<i, Day(p)>>]
    BY <1>1, <2>3, <2>4, StandingIs
  <2>6. QED
    BY <2>3, <2>5
<1>4. CASE N # {}
  <2> DEFINE n == Newest(N)
  <2>0. N \subseteq Dates
    BY DEF NoticedBy
  <2>1. n \in N /\ \A m \in N : m <= n
    BY <1>4, <2>0, NewestExists
  <2>2. held = versions[p][n] /\ dated = n
    BY <1>4 DEF HeldBy
  <2>3. n \in Dates /\ n <= date /\ versions[p][n] # 0
    BY <2>1 DEF NoticedBy
  <2>4. \A m \in Dates : m <= date /\ versions[p][m] # 0 => m <= n
    BY <2>1 DEF NoticedBy
  <2> HIDE DEF n, N
  <2>5. Day(p) <= n
    BY <2>3 DEF CopiesPublished
  <2>6. \A m \in Dates : m <= date /\ b[<<i, m>>] # Absent => m <= n
    BY <1>1, <1>2, <2>4, <2>5 DEF Dates
  <2>7. Standing(b, i, date) = Standing(b, i, n)
    BY <1>1, <2>3, <2>6, StandingPast DEF Dates
  <2>8. Noted(b, p, n)
    BY <2>3 DEF Whole
  <2>9. CASE Standing(b, i, n) = Content(p, held)[i]
    BY <2>7, <2>9
  <2>10. CASE b[<<i, n>>] # Absent
    <3>1. n <= n /\ held \in Nat /\ \A m \in Dates : m <= n /\ b[<<i, m>>] # Absent => m <= n
      BY <2>2, <2>3 DEF Typed, Dates
    <3>2. Standing(b, i, date) = b[<<i, n>>]
      BY <2>3, <2>6, <2>10, StandingIs
    <3>3. CASE b[<<i, n>>] = Content(p, held)[i]
      BY <3>2, <3>3
    <3>4. CASE n = Day(p) /\ b[<<i, n>>] = Content(p, first[p])[i] /\ b[<<i, n>>] # Content(p, held)[i]
      <4>1. first[p] <= held /\ first[p] # held /\ first[p] \in Nat
        BY <2>2, <2>3, <3>4 DEF CopiesPublished, Typed
      <4>2. first[p] \in 1 .. held - 1
        BY <3>1, <4>1
      <4>3. QED
        BY <2>2, <3>4, <4>2
    <3>5. CASE /\ \E copy \in 1 .. held : b[<<i, n>>] = Content(p, copy)[i]
               /\ b[<<i, n>>] # Content(p, held)[i]
      <4>1. PICK copy \in 1 .. held : b[<<i, n>>] = Content(p, copy)[i]
        BY <3>5
      <4>2. copy # held
        BY <3>5, <4>1
      <4>3. copy \in 1 .. held - 1
        BY <3>1, <4>2
      <4>4. QED
        BY <2>2, <4>1, <4>3
    <3>6. QED
      BY <2>2, <2>3, <2>10, <3>3, <3>4, <3>5 DEF Whole, Dated
  <2>11. QED
    BY <2>2, <2>8, <2>9, <2>10 DEF Noted
<1>5. QED
  BY <1>3, <1>4

-----------------------------------------------------------------------------
(* The invariant of what is stored.                                        *)

BarsInOrder(p) ==
  /\ CopiesPublished(p)
  /\ Dated(bars[p], p) /\ NotedBefore(bars[p], p)
  /\ HoldsBars(p) => FirstStands(bars[p], p)

\* A file nothing is held of has no bars.
LEMMA BarsNeedACopy ==
  ASSUME Typed, NEW p \in Partitions, BarsInOrder(p), HoldsBars(p)
  PROVE  first[p] # 0
<1>1. PICK i \in Isins, n \in Dates : bars[p][<<i, n>>] # Absent
  BY DEF HoldsBars
<1>2. CASE \E copy \in 1 .. versions[p][n] : bars[p][<<i, n>>] = Content(p, copy)[i]
  <2>1. versions[p][n] # 0
    BY <1>2 DEF Typed
  <2>2. QED
    BY <2>1 DEF BarsInOrder, CopiesPublished
<1>3. QED
  BY <1>1, <1>2 DEF BarsInOrder, Dated

\* The bars of a file that stays are in order while none is stored of it, and
\* what was whole is.
LEMMA BarsStay ==
  ASSUME Typed, Typed', NEW p \in Partitions, BarsInOrder(p), Stays(p), bars'[p] = bars[p],
         today <= today', published'[p] # <<>> => Day(p) <= today'
  PROVE  /\ BarsInOrder(p)'
         /\ first[p] # 0 /\ Whole(bars[p], p) => Whole(bars[p], p)'
<1>1. \A copy \in 1 .. Len(published[p]) : Content(p, copy)' = Content(p, copy)
  BY DEF Stays, Content
<1>2. first'[p] = first[p] /\ versions'[p] = versions[p] /\ first[p] \in Nat
  BY DEF Stays, Typed
<1>3. Len(published[p]) \in Nat /\ Len(published'[p]) \in Nat
      /\ Len(published[p]) <= Len(published'[p])
  BY DEF Stays, Typed
<1>4. \A n \in Dates : versions[p][n] \in Nat /\ versions[p][n] <= Len(published[p])
  BY DEF BarsInOrder, CopiesPublished, Typed
<1>5. CopiesPublished(p)'
  BY <1>2, <1>3, <1>4 DEF BarsInOrder, CopiesPublished
<1>6. first[p] # 0 => Content(p, first[p])' = Content(p, first[p])
  BY <1>1, <1>2, <1>3 DEF BarsInOrder, CopiesPublished, Content
<1>7. \A n \in Dates : versions[p][n] # 0 =>
        Content(p, versions[p][n])' = Content(p, versions[p][n])
  BY <1>1, <1>2, <1>3, <1>4 DEF Content
<1>8. Dated(bars[p], p)'
  <2>1. ASSUME NEW n \in Dates, NEW copy \in 1 .. versions[p][n]
        PROVE  Content(p, copy)' = Content(p, copy)
    BY <1>1, <1>3, <1>4
  <2>2. ASSUME NEW i \in Isins, NEW n \in Dates, bars[p][<<i, n>>] # Absent
        PROVE  \/ n = Day(p) /\ first'[p] # 0 /\ bars[p][<<i, n>>] = Content(p, first[p])'[i]
               \/ \E copy \in 1 .. versions'[p][n] : bars[p][<<i, n>>] = Content(p, copy)'[i]
    <3>1. CASE n = Day(p) /\ first[p] # 0 /\ bars[p][<<i, n>>] = Content(p, first[p])[i]
      BY <1>2, <1>6, <3>1
    <3>2. CASE \E copy \in 1 .. versions[p][n] : bars[p][<<i, n>>] = Content(p, copy)[i]
      BY <1>2, <2>1, <3>2
    <3>3. QED
      BY <2>2, <3>1, <3>2 DEF BarsInOrder, Dated
  <2>3. QED
    BY <2>2 DEF Dated
<1>9. first[p] # 0 /\ FirstStands(bars[p], p) => FirstStands(bars[p], p)'
  BY <1>2, <1>6 DEF FirstStands, Content
<1>10. ASSUME NEW n \in Dates, versions[p][n] # 0, Noted(bars[p], p, n)
       PROVE  Noted(bars[p], p, n)'
  BY <1>2, <1>7, <1>10 DEF Noted, Content
<1>11. NotedBefore(bars[p], p)'
  BY <1>2, <1>10 DEF BarsInOrder, NotedBefore
<1>12. HoldsBars(p)' => HoldsBars(p) /\ first[p] # 0
  BY BarsNeedACopy DEF HoldsBars
<1>13. BarsInOrder(p)'
  BY <1>5, <1>8, <1>9, <1>11, <1>12 DEF BarsInOrder
<1>14. first[p] # 0 /\ Whole(bars[p], p) => Whole(bars[p], p)'
  BY <1>2, <1>8, <1>9, <1>10 DEF Whole
<1>15. QED
  BY <1>13, <1>14

\* So are they once its first copy is held, for there are none.
LEMMA FetchBarsInOrder ==
  ASSUME IInv, Typed', NEW v \in Venues, NEW p \in Partitions, p = At(v), Fetch(v), BarsInOrder(p)
  PROVE  BarsInOrder(p)' /\ first'[p] # 0
<1>1. CopyInOrder(p) /\ Typed
  BY DEF IInv
<1>2. /\ UNCHANGED <<today, published, versions, bars>>
      /\ first[p] = 0 /\ first'[p] = Len(published[p]) /\ Len(published[p]) # 0
  BY <1>1 DEF Fetch, Typed
<1>3. ~ HoldsBars(p)
  BY <1>1, <1>2, BarsNeedACopy
<1>4. \A i \in Isins, n \in Dates : bars'[p][<<i, n>>] = Absent
  BY <1>2, <1>3 DEF HoldsBars
<1>5. \A n \in Dates : versions'[p][n] = 0
  BY <1>1, <1>2 DEF CopyInOrder
<1>6. CopiesPublished(p)'
  BY <1>1, <1>2, <1>5 DEF BarsInOrder, CopiesPublished, Typed
<1>7. ~ HoldsBars(p)'
  BY <1>4 DEF HoldsBars
<1>8. Dated(bars[p], p)' /\ NotedBefore(bars[p], p)'
  BY <1>4 DEF Dated, NotedBefore
<1>9. QED
  BY <1>2, <1>6, <1>7, <1>8 DEF BarsInOrder

\* So are they once a corrected copy is noticed, which no bar is dated after.
LEMMA RecheckBarsInOrder ==
  ASSUME IInv, Typed', NEW v \in Venues, NEW p \in Partitions, p = At(v), Recheck(v),
         BarsInOrder(p), Day(p) <= process[v].noticed
  PROVE  BarsInOrder(p)' /\ first'[p] # 0
<1> DEFINE now == Len(published[p])
<1>1. /\ DayInOrder(v) /\ CopyInOrder(p) /\ Typed
      /\ now \in Nat
  BY DEF IInv, Recheck, ProcessInOrder, Reading, Typed
<1>2. PICK n \in Dates : n = process[v].noticed
  BY <1>1 DEF DayInOrder
<1>3. PICK d \in TradeDays : p = <<v, d>>
  BY <1>1 DEF DayInOrder, At
<1>4. \A m \in Dates : versions[p][m] # 0 => m <= n
  BY <1>1, <1>2, <1>3 DEF DayInOrder
<1>5. /\ UNCHANGED <<today, published, first, bars>>
      /\ Latest(p) # 0
      /\ \/ versions'[p] = versions[p]
         \/ versions'[p] = [versions[p] EXCEPT ![n] = now]
  BY <1>1, <1>2 DEF Recheck, Typed
<1>6. first[p] # 0
  BY <1>1, <1>5, LatestIsFirst DEF CopyInOrder
<1>7. now # 0 /\ Day(p) \in Dates /\ Day(p) <= n
  BY <1>1, <1>2, <1>5 DEF CopyInOrder, Partitions, Day
<1>8. \A m \in Dates : m # n => versions'[p][m] = versions[p][m]
  <2>1. versions[p] \in [Dates -> Nat]
    BY <1>1 DEF Typed
  <2>2. QED
    BY <1>5, <2>1
<1>9. versions'[p][n] = versions[p][n] \/ versions'[p][n] = now
  BY <1>1, <1>5 DEF Typed
<1>10. \A m \in Dates : versions[p][m] \in Nat /\ versions[p][m] <= now
  BY <1>1 DEF BarsInOrder, CopiesPublished, Typed
<1> HIDE DEF now
<1>11. CopiesPublished(p)'
  <2>1. ASSUME NEW m \in Dates
        PROVE  /\ versions'[p][m] <= now
               /\ versions'[p][m] # 0 => first[p] <= versions'[p][m] /\ Day(p) <= m
    <3>1. CASE versions'[p][m] = versions[p][m]
      BY <1>10, <3>1 DEF BarsInOrder, CopiesPublished
    <3>2. CASE m = n /\ versions'[p][m] = now
      BY <1>1, <1>7, <3>2 DEF BarsInOrder, CopiesPublished, now
    <3>3. QED
      BY <1>8, <1>9, <3>1, <3>2
  <2>2. QED
    BY <1>5, <1>6, <2>1 DEF BarsInOrder, CopiesPublished, now
<1>12. \A i \in Isins, m \in Dates : bars[p][<<i, m>>] # Absent => m <= n
  <2>1. ASSUME NEW i \in Isins, NEW m \in Dates, bars[p][<<i, m>>] # Absent
        PROVE  m <= n
    <3>1. CASE \E copy \in 1 .. versions[p][m] : bars[p][<<i, m>>] = Content(p, copy)[i]
      BY <1>4, <1>10, <3>1
    <3>2. QED
      BY <1>7, <2>1, <3>1 DEF BarsInOrder, Dated
  <2>2. QED
    BY <2>1
<1>13. Dated(bars[p], p)'
  <2>1. ASSUME NEW m \in Dates
        PROVE  1 .. versions[p][m] \subseteq 1 .. versions'[p][m]
    <3>1. versions'[p][m] \in Nat /\ versions[p][m] <= versions'[p][m]
      BY <1>1, <1>8, <1>9, <1>10
    <3>2. QED
      BY <1>10, <3>1
  <2>2. ASSUME NEW i \in Isins, NEW m \in Dates, bars[p][<<i, m>>] # Absent
        PROVE  \/ m = Day(p) /\ first[p] # 0 /\ bars[p][<<i, m>>] = Content(p, first[p])[i]
               \/ \E copy \in 1 .. versions'[p][m] : bars[p][<<i, m>>] = Content(p, copy)[i]
    BY <2>1, <2>2 DEF BarsInOrder, Dated
  <2>3. \A copy : Content(p, copy)' = Content(p, copy)
    BY <1>5 DEF Content
  <2>4. ASSUME NEW i \in Isins, NEW m \in Dates, bars'[p][<<i, m>>] # Absent
        PROVE  \/ m = Day(p) /\ first'[p] # 0 /\ bars'[p][<<i, m>>] = Content(p, first[p])'[i]
               \/ \E copy \in 1 .. versions'[p][m] : bars'[p][<<i, m>>] = Content(p, copy)'[i]
    BY <1>5, <2>2, <2>3, <2>4
  <2>5. QED
    BY <2>4 DEF Dated
<1>14. NotedBefore(bars[p], p)'
  <2>1. ASSUME NEW j \in Isins, NEW m \in Dates, NEW k \in Dates,
               bars[p][<<j, m>>] # Absent, k < m, versions'[p][k] # 0
        PROVE  Noted(bars[p], p, k)'
    <3>1. k # n /\ versions'[p][k] = versions[p][k]
      BY <1>8, <1>12, <2>1 DEF Dates
    <3>2. Noted(bars[p], p, k)
      BY <2>1, <3>1 DEF BarsInOrder, NotedBefore
    <3>3. QED
      BY <1>5, <3>1, <3>2 DEF Noted, Content
  <2>2. QED
    BY <1>5, <2>1 DEF NotedBefore
<1>15. HoldsBars(p)' => FirstStands(bars[p], p)'
  BY <1>5 DEF BarsInOrder, HoldsBars, FirstStands, Content
<1>16. QED
  BY <1>5, <1>6, <1>11, <1>13, <1>14, <1>15 DEF BarsInOrder

\* A day's bars are stored whole.
LEMMA StoreBarsInOrder ==
  ASSUME Typed, NEW v \in Venues, NEW p \in Partitions, p = At(v), Store(v),
         bars \in [Partitions -> Bars], BarsInOrder(p), first[p] # 0
  PROVE  /\ BarsInOrder(p)' /\ Whole(bars[p], p)' /\ bars' \in [Partitions -> Bars]
         /\ HoldsBars(p) => HoldsBars(p)'
<1>1. bars'[p] = BarsOf(p) /\ UNCHANGED <<today, published, first, versions>>
  BY DEF Store
<1>2. /\ BarsOf(p) \in Bars
      /\ Whole(BarsOf(p), p) /\ NotedBefore(BarsOf(p), p)
      /\ \A k \in Isins \X Dates : bars[p][k] # Absent => BarsOf(p)[k] = bars[p][k]
  BY StoredWhole DEF BarsInOrder
<1> DEFINE b == BarsOf(p)
<1>3. bars' = [bars EXCEPT ![p] = b]
  BY DEF Store
<1> HIDE DEF b
<1>4. bars'[p] = b /\ b \in Bars /\ Whole(b, p) /\ NotedBefore(b, p)
      /\ \A k \in Isins \X Dates : bars[p][k] # Absent => b[k] = bars[p][k]
  BY <1>1, <1>2 DEF b
<1>5. bars' \in [Partitions -> Bars]
  BY <1>3, <1>4
<1>6. Dated(bars[p], p)' /\ FirstStands(bars[p], p)'
  BY <1>1, <1>4 DEF Whole, Dated, FirstStands, Content
<1>7. \A n \in Dates : Noted(b, p, n) => Noted(bars[p], p, n)'
  BY <1>1, <1>4 DEF Noted, Content
<1>8. Whole(bars[p], p)'
  BY <1>1, <1>4, <1>6, <1>7 DEF Whole
<1>9. NotedBefore(bars[p], p)'
  BY <1>1, <1>4, <1>7 DEF NotedBefore
<1>10. CopiesPublished(p)'
  BY <1>1 DEF BarsInOrder, CopiesPublished
<1>11. HoldsBars(p) => HoldsBars(p)'
  BY <1>4 DEF HoldsBars
<1>12. QED
  BY <1>5, <1>6, <1>8, <1>9, <1>10, <1>11 DEF BarsInOrder

-----------------------------------------------------------------------------
(* Verdicts.                                                               *)

VerdictsTyped(w) == w \in [Partitions -> [Dates -> Verdicts \union {NoVerdict}]]

\* A verdict is dated no later than today, and drawn on bars.
VerdictsInOrder(w, p) ==
  \A n \in Dates : w[p][n] # NoVerdict => n <= today /\ HoldsBars(p)

\* The latest verdict is none just where there is none.
LEMMA LatestVerdictIs ==
  ASSUME NEW w, NEW p
  PROVE  LatestVerdict(w, p) = NoVerdict <=> \A n \in Dates : w[p][n] = NoVerdict
<1> DEFINE S == {n \in Dates : w[p][n] # NoVerdict}
<1>1. CASE S = {}
  BY <1>1 DEF LatestVerdict
<1>2. CASE S # {}
  <2>1. S \subseteq Dates
    OBVIOUS
  <2>2. LatestVerdict(w, p) = w[p][Newest(S)]
    BY <1>2 DEF LatestVerdict
  <2> HIDE DEF S
  <2>3. Newest(S) \in S
    BY <1>2, <2>1, NewestExists
  <2>4. QED
    BY <2>2, <2>3 DEF S
<1>3. QED
  BY <1>1, <1>2

\* A day's bars are stored no earlier than the day.
LEMMA BarsNeedTheDay ==
  ASSUME Typed, NEW p \in Partitions, BarsInOrder(p), HoldsBars(p)
  PROVE  Day(p) <= today
<1>1. first[p] # 0 /\ first[p] <= Len(published[p]) /\ first[p] \in Nat
  BY BarsNeedACopy DEF BarsInOrder, CopiesPublished, Typed
<1>2. published[p] # <<>>
  BY <1>1
<1>3. QED
  BY <1>2 DEF BarsInOrder, CopiesPublished

\* Judging days adds a verdict on each of them that holds bars and has none of
\* its date, and takes none away.
LEMMA JudgedAdds ==
  ASSUME Typed, NEW w, NEW days, VerdictsTyped(w),
         NEW p \in Partitions, BarsInOrder(p), VerdictsInOrder(w, p)
  PROVE  /\ Judged(w, days)[p] \in [Dates -> Verdicts \union {NoVerdict}]
         /\ VerdictsInOrder(Judged(w, days), p)
         /\ \A n \in Dates : w[p][n] # NoVerdict => Judged(w, days)[p][n] # NoVerdict
         /\ Day(p) \notin days => Judged(w, days)[p] = w[p]
         /\ Day(p) \in days /\ HoldsBars(p) =>
              IF LatestVerdict(w, p) = NoVerdict THEN Judged(w, days)[p][Day(p)] # NoVerdict
                                                 ELSE Judged(w, days)[p][today] # NoVerdict
<1> DEFINE verdict == [bars |-> Cardinality(HeldAt(p)),
                       divergent |-> Cardinality(Diverging(Day(p)))]
           date == IF LatestVerdict(w, p) = NoVerdict THEN Day(p) ELSE today
<1>1. verdict \in Verdicts /\ verdict # NoVerdict
  <2>1. HeldAt(p) \subseteq Isins /\ Diverging(Day(p)) \subseteq Isins
    BY DEF HeldAt, Diverging
  <2>2. /\ Cardinality(HeldAt(p)) \in Nat /\ Cardinality(HeldAt(p)) <= Cardinality(Isins)
        /\ Cardinality(Diverging(Day(p))) \in Nat
        /\ Cardinality(Diverging(Day(p))) <= Cardinality(Isins)
        /\ Cardinality(Isins) \in Nat
    BY <2>1, FS_Subset, FS_CardinalityType
  <2>3. verdict.bars # -1
    BY <2>2
  <2>4. QED
    BY <2>2, <2>3 DEF Verdicts, NoVerdict
<1>2. date \in Dates
  BY DEF Typed, Partitions, Day
<1>3. w[p] \in [Dates -> Verdicts \union {NoVerdict}]
  BY DEF VerdictsTyped
<1>4. Judged(w, days)[p] =
        IF Day(p) \in days /\ HoldsBars(p) /\ w[p][date] = NoVerdict
        THEN [w[p] EXCEPT ![date] = verdict] ELSE w[p]
  BY DEF Judged
<1>5. HoldsBars(p) => date <= today
  <2>1. today <= today
    BY DEF Typed, Dates
  <2>2. HoldsBars(p) => Day(p) <= today
    BY BarsNeedTheDay
  <2>3. QED
    BY <2>1, <2>2
<1> DEFINE v == Judged(w, days)
<1> HIDE DEF verdict, date, v
<1>6. CASE Day(p) \in days /\ HoldsBars(p) /\ w[p][date] = NoVerdict
  <2>1. v[p] = [w[p] EXCEPT ![date] = verdict]
    BY <1>4, <1>6 DEF v
  <2>2. v[p] \in [Dates -> Verdicts \union {NoVerdict}]
    BY <1>1, <1>3, <2>1
  <2>3. v[p][date] = verdict /\ \A n \in Dates : n # date => v[p][n] = w[p][n]
    BY <1>2, <1>3, <2>1
  <2>4. VerdictsInOrder(v, p)
    BY <1>5, <1>6, <2>3 DEF VerdictsInOrder
  <2>5. \A n \in Dates : w[p][n] # NoVerdict => v[p][n] # NoVerdict
    BY <1>6, <2>3
  <2>6. v[p][date] # NoVerdict
    BY <1>1, <2>3
  <2>7. IF LatestVerdict(w, p) = NoVerdict THEN v[p][Day(p)] # NoVerdict
                                           ELSE v[p][today] # NoVerdict
    BY <2>6 DEF date
  <2>8. QED
    BY <1>6, <2>2, <2>4, <2>5, <2>7 DEF v
<1>7. CASE ~ (Day(p) \in days /\ HoldsBars(p) /\ w[p][date] = NoVerdict)
  <2>1. v[p] = w[p]
    BY <1>4, <1>7 DEF v
  <2>2. VerdictsInOrder(v, p)
    BY <2>1 DEF VerdictsInOrder
  <2>3. Day(p) \in days /\ HoldsBars(p) => v[p][date] # NoVerdict
    BY <1>7, <2>1
  <2>4. Day(p) \in days /\ HoldsBars(p) =>
          IF LatestVerdict(w, p) = NoVerdict THEN v[p][Day(p)] # NoVerdict
                                             ELSE v[p][today] # NoVerdict
    BY <2>3 DEF date
  <2>5. QED
    BY <1>3, <2>1, <2>2, <2>4 DEF v
<1>8. QED
  BY <1>6, <1>7

\* A day with bars and no verdict awaits one.
LEMMA UnjudgedAwaits ==
  ASSUME NEW p \in Partitions, HoldsBars(p), LatestVerdict(verdicts, p) = NoVerdict
  PROVE  Day(p) \in Awaiting
<1>1. PICK i \in Isins, n \in Dates : bars[p][<<i, n>>] # Absent
  BY DEF HoldsBars
<1>2. PICK v \in Venues, d \in TradeDays : p = <<v, d>>
  BY DEF Partitions
<1>3. \A m \in Dates : verdicts[p][m] = NoVerdict
  BY LatestVerdictIs
<1>4. d \in TradeDays /\ Day(p) = d
  BY <1>2 DEF Day
<1>5. QED
  BY <1>1, <1>2, <1>3, <1>4 DEF Awaiting

\* The verdicts a run records leave no stored day without one, and no day's
\* venues at odds without one of today's date.
LEMMA VerdictsRecorded ==
  ASSUME Typed, VerdictsTyped(verdicts),
         \A p \in Partitions : BarsInOrder(p) /\ VerdictsInOrder(verdicts, p)
  PROVE  /\ VerdictsTyped(RecordVerdicts)
         /\ \A p \in Partitions : VerdictsInOrder(RecordVerdicts, p)
         /\ \A p \in Partitions :
              HoldsBars(p) => LatestVerdict(RecordVerdicts, p) # NoVerdict
         /\ \A d \in Disagreeing(RecordVerdicts) :
              \E v \in Venues : RecordVerdicts[<<v, d>>][today] # NoVerdict
<1> DEFINE days == Awaiting \union Changed
           drawn == Judged(verdicts, days)
           final == Judged(drawn, Disagreeing(drawn))
<1>1. RecordVerdicts = final
  BY DEF RecordVerdicts
<1>0. Awaiting \subseteq days
  OBVIOUS
<1> HIDE DEF days
<1>2. \A p \in Partitions :
        /\ drawn[p] \in [Dates -> Verdicts \union {NoVerdict}]
        /\ VerdictsInOrder(drawn, p)
        /\ \A n \in Dates : verdicts[p][n] # NoVerdict => drawn[p][n] # NoVerdict
        /\ Day(p) \in days /\ HoldsBars(p) =>
             IF LatestVerdict(verdicts, p) = NoVerdict THEN drawn[p][Day(p)] # NoVerdict
                                                       ELSE drawn[p][today] # NoVerdict
  BY JudgedAdds
<1>3. VerdictsTyped(drawn)
  <2>1. drawn = [p \in Partitions |-> drawn[p]]
    BY DEF Judged
  <2>2. QED
    BY <1>2, <2>1 DEF VerdictsTyped
<1> HIDE DEF drawn
<1>4. \A p \in Partitions :
        /\ final[p] \in [Dates -> Verdicts \union {NoVerdict}]
        /\ VerdictsInOrder(final, p)
        /\ \A n \in Dates : drawn[p][n] # NoVerdict => final[p][n] # NoVerdict
        /\ Day(p) \notin Disagreeing(drawn) => final[p] = drawn[p]
        /\ Day(p) \in Disagreeing(drawn) /\ HoldsBars(p) =>
             IF LatestVerdict(drawn, p) = NoVerdict THEN final[p][Day(p)] # NoVerdict
                                                    ELSE final[p][today] # NoVerdict
  BY <1>2, <1>3, JudgedAdds
<1>5. VerdictsTyped(final)
  <2>1. final = [p \in Partitions |-> final[p]]
    BY DEF Judged
  <2>2. QED
    BY <1>4, <2>1 DEF VerdictsTyped
<1> HIDE DEF final
<1>6. ASSUME NEW p \in Partitions, HoldsBars(p)
      PROVE  LatestVerdict(final, p) # NoVerdict
  <2>1. CASE LatestVerdict(verdicts, p) = NoVerdict
    <3>1. drawn[p][Day(p)] # NoVerdict
      BY <1>0, <1>2, <1>6, <2>1, UnjudgedAwaits
    <3>2. final[p][Day(p)] # NoVerdict /\ Day(p) \in Dates
      BY <1>4, <3>1 DEF Partitions, Day
    <3>3. QED
      BY <3>2, LatestVerdictIs
  <2>2. CASE LatestVerdict(verdicts, p) # NoVerdict
    <3>1. PICK n \in Dates : verdicts[p][n] # NoVerdict
      BY <2>2, LatestVerdictIs
    <3>2. final[p][n] # NoVerdict
      BY <1>2, <1>4, <3>1
    <3>3. QED
      BY <3>2, LatestVerdictIs
  <2>3. QED
    BY <2>1, <2>2
<1>7. ASSUME NEW d \in Disagreeing(final)
      PROVE  \E v \in Venues : final[<<v, d>>][today] # NoVerdict
  <2>0. d \in TradeDays
    BY DEF Disagreeing
  <2>1. d \in Disagreeing(drawn)
    <3>1. SUFFICES ASSUME d \notin Disagreeing(drawn) PROVE FALSE
      OBVIOUS
    <3>2. ASSUME NEW v \in Venues
          PROVE  LatestVerdict(final, <<v, d>>) = LatestVerdict(drawn, <<v, d>>)
      <4>1. <<v, d>> \in Partitions /\ Day(<<v, d>>) = d
        BY <2>0 DEF Partitions, Day
      <4>2. final[<<v, d>>] = drawn[<<v, d>>]
        BY <1>4, <3>1, <4>1
      <4>3. QED
        BY <4>2 DEF LatestVerdict
    <3>3. QED
      BY <3>1, <3>2, <1>7 DEF Disagreeing
  <2>2. PICK v \in Venues : LatestVerdict(drawn, <<v, d>>) # NoVerdict
    BY <2>1 DEF Disagreeing
  <2>3. PICK p \in Partitions : p = <<v, d>> /\ Day(p) = d
    <3>1. <<v, d>> \in Partitions /\ Day(<<v, d>>) = d
      BY <2>0 DEF Partitions, Day
    <3>2. QED
      BY <3>1
  <2>4. LatestVerdict(drawn, p) # NoVerdict
    BY <2>2, <2>3
  <2>5. PICK n \in Dates : drawn[p][n] # NoVerdict
    BY <2>4, LatestVerdictIs
  <2>6. HoldsBars(p)
    BY <1>2, <2>5 DEF VerdictsInOrder
  <2>7. final[p][today] # NoVerdict
    BY <1>4, <2>1, <2>3, <2>4, <2>6
  <2>8. QED
    BY <2>3, <2>7
<1>8. QED
  BY <1>1, <1>4, <1>5, <1>6, <1>7

-----------------------------------------------------------------------------
(* The invariant of the runs.                                              *)

\* A process reads a day of its run, which notices what it does on the run's last
\* day or after; past the fetch a copy of the day's file is held, and a day stored
\* is stored whole.
RunInOrder(v) ==
  /\ process[v].noticed <= today /\ process[v].answer <= Publications
  /\ Reading(v) => process[v].at <= window /\ window <= process[v].noticed
  /\ process[v].step \in {"validators", "store", "stored"} => first[At(v)] # 0
  /\ process[v].step = "stored" => Whole(bars[At(v)], At(v))

RunsInOrder ==
  /\ syncs \in 0 .. Syncs
  /\ window \in 0 .. LastDay /\ window <= today
  /\ judged \in 0 .. LastDay /\ judged <= today
  /\ window = 0 => \A v \in Venues : process[v].step = "off"
  /\ judged # 0 => window = 0

\* What is stored and judged, whatever the processes are at.
StoreInOrder ==
  /\ bars \in [Partitions -> Bars] /\ VerdictsTyped(verdicts)
  /\ \A p \in Partitions :
       /\ Len(published[p]) <= Publications
       /\ BarsInOrder(p) /\ VerdictsInOrder(verdicts, p)

JInv ==
  /\ IInv /\ StoreInOrder /\ RunsInOrder
  /\ \A v \in Venues : RunInOrder(v)
  /\ StoredDaysJudged /\ VenuesAgree

\* A process that goes on goes on to a day of its run.
LEMMA GoOnReads ==
  ASSUME Typed, NEW v \in Venues, NEW state \in Process, NEW day, GoOn(v, state, day)
  PROVE  /\ process'[v].step \in {"day", "done"} /\ process'[v].answer = 0
         /\ process'[v].noticed \in {0, state.noticed}
         /\ process'[v].step = "day" =>
              process'[v].at <= window /\ process'[v].noticed = state.noticed
<1> DEFINE left == {d \in TradeDays : day < d /\ d <= window}
<1>1. CASE process' = [process EXCEPT ![v] = Idle("done")]
  BY <1>1 DEF Idle, Typed
<1>2. ASSUME NEW d \in left,
             process' = [process EXCEPT ![v] =
               [state EXCEPT !.step = "day", !.at = d, !.answer = 0]]
      PROVE  /\ process'[v].step = "day" /\ process'[v].answer = 0
             /\ process'[v].noticed = state.noticed
             /\ process'[v].at <= window
  <2> DEFINE next == [state EXCEPT !.step = "day", !.at = d, !.answer = 0]
  <2>1. next.step = "day" /\ next.noticed = state.noticed /\ next.at = d /\ next.answer = 0
    BY DEF Process
  <2> HIDE DEF next
  <2>2. process'[v] = next
    BY <1>2 DEF next, Typed
  <2>3. d <= window
    OBVIOUS
  <2>4. QED
    BY <2>1, <2>2, <2>3
<1>3. QED
  BY <1>1, <1>2 DEF GoOn

\* No more is published than there is to be.
LEMMA PublishBounded ==
  ASSUME Typed, NEW p \in Partitions, NEW file \in Files, Publish(p, file),
         \A q \in Partitions : Len(published[q]) <= Publications
  PROVE  \A q \in Partitions : Len(published'[q]) <= Publications
<1> DEFINE T == {c \in Partitions \X Copies : c[2] \in DOMAIN published[c[1]]}
           S == 1 .. Len(published[p])
           f == [n \in S |-> <<p, n>>]
<1>1. IsFiniteSet(T)
  <2>1. IsFiniteSet(Dates) /\ IsFiniteSet(Copies)
    BY FS_Interval DEF Dates, Copies
  <2>2. IsFiniteSet(Partitions)
    BY <2>1, FS_Subset, FS_Product DEF Partitions
  <2>3. IsFiniteSet(Partitions \X Copies)
    BY <2>1, <2>2, FS_Product
  <2>4. T \in SUBSET (Partitions \X Copies)
    OBVIOUS
  <2>5. QED
    BY <2>3, <2>4, FS_Subset
<1>2. Len(published[p]) \in Nat /\ DOMAIN published[p] = S
  BY DEF Typed
<1>3. f \in Injection(S, T)
  <2>1. ASSUME NEW n \in S
        PROVE  <<p, n>> \in T
    BY <1>2 DEF Copies
  <2>2. f \in [S -> T]
    BY <2>1
  <2>3. \A m, n \in S : f[m] = f[n] => m = n
    OBVIOUS
  <2> HIDE DEF f, S, T
  <2>4. QED
    BY <2>2, <2>3 DEF Injection, IsInjective
<1>4. Cardinality(S) = Len(published[p])
  BY <1>2, FS_Interval
<1>5. Cardinality(T) < Publications
  BY DEF Publish
<1>6. Cardinality(S) <= Cardinality(T) /\ Cardinality(T) \in Nat
  <2> HIDE DEF f, S, T
  <2>1. QED
    BY <1>1, <1>3, FS_Injection, FS_CardinalityType
<1>7. Len(published[p]) + 1 <= Publications
  <2> HIDE DEF S, T
  <2>1. QED
    BY <1>2, <1>4, <1>5, <1>6
<1>8. Len(published'[p]) = Len(published[p]) + 1
  <2>1. published[p] \in Seq(Files) /\ published'[p] = Append(published[p], file)
    BY DEF Publish, Typed
  <2>2. QED
    BY <2>1
<1>9. \A q \in Partitions : q # p => published'[q] = published[q]
  BY DEF Publish, Typed
<1>10. QED
  BY <1>7, <1>8, <1>9

\* Where a file's copies and bars stay, so does their order.
LEMMA StoreStays ==
  ASSUME JInv, IInv', today <= today',
         \A p \in Partitions : Stays(p) /\ (published'[p] # <<>> => Day(p) <= today'),
         bars' = bars
  PROVE  /\ \A p \in Partitions : BarsInOrder(p)'
         /\ \A p \in Partitions : HoldsBars(p)' = HoldsBars(p)
         /\ \A p \in Partitions :
              first[p] # 0 /\ Whole(bars[p], p) => Whole(bars[p], p)'
<1>1. Typed /\ Typed' /\ \A p \in Partitions : BarsInOrder(p)
  BY DEF JInv, IInv, StoreInOrder
<1>2. \A p \in Partitions : bars'[p] = bars[p]
  OBVIOUS
<1>3. QED
  BY <1>1, <1>2, BarsStay DEF HoldsBars

\* A process that does nothing while its venue's day stays is still in order.
LEMMA RunStays ==
  ASSUME JInv, Typed', NEW v \in Venues, process'[v] = process[v],
         today <= today', Reading(v) => window' = window,
         \A p \in Partitions : p[1] = v =>
           /\ first[p] # 0 => first'[p] # 0
           /\ first[p] # 0 /\ Whole(bars[p], p) => Whole(bars[p], p)'
  PROVE  RunInOrder(v)'
<1>1. /\ RunInOrder(v) /\ ProcessInOrder(v) /\ process[v] \in Process
      /\ today \in Nat /\ today' \in Nat
  BY DEF JInv, IInv, Typed, Dates
<1>2. process'[v].noticed <= today' /\ process'[v].answer <= Publications
  BY <1>1 DEF RunInOrder, Process
<1>3. Reading(v)' => process'[v].at <= window' /\ window' <= process'[v].noticed
  BY <1>1 DEF RunInOrder, Reading
<1>4. ASSUME process[v].step \in {"validators", "store", "stored"}
      PROVE  /\ first'[At(v)] # 0 /\ At(v)' = At(v)
             /\ process[v].step = "stored" => Whole(bars[At(v)], At(v))'
  <2>1. process[v].at \in TradeDays
    BY <1>1, <1>4 DEF ProcessInOrder, Reading, DayInOrder
  <2>2. At(v) \in Partitions /\ At(v)[1] = v /\ At(v)' = At(v)
    BY <2>1 DEF At, Partitions
  <2>3. PICK p \in Partitions : p = At(v)
    BY <2>2
  <2>4. first[p] # 0 /\ (process[v].step = "stored" => Whole(bars[p], p)) /\ p[1] = v
    BY <1>1, <1>4, <2>2, <2>3 DEF RunInOrder
  <2>5. first'[p] # 0 /\ (process[v].step = "stored" => Whole(bars[p], p)')
    BY <2>4
  <2>6. QED
    BY <2>2, <2>3, <2>5 DEF Whole
<1>5. QED
  BY <1>2, <1>3, <1>4 DEF RunInOrder, Whole

\* A process that reads no day is.
LEMMA IdleRunInOrder ==
  ASSUME Typed', NEW v \in Venues, NEW step \in {"off", "start", "done", "killed"},
         process'[v] = Idle(step)
  PROVE  RunInOrder(v)'
<1>1. today' \in Nat /\ 0 <= today'
  BY DEF Typed, Dates
<1>2. QED
  BY <1>1 DEF RunInOrder, Idle, Reading

-----------------------------------------------------------------------------
(* One step.                                                               *)

\* A process that is not off is of a run under way, which has not judged.
LEMMA RunUnderWay ==
  ASSUME RunsInOrder, NEW v \in Venues, process[v].step # "off"
  PROVE  window # 0 /\ judged = 0
  BY DEF RunsInOrder

\* What a venue's process leaves alone.
LEMMA VenueFrame ==
  ASSUME Typed, NEW v \in Venues, VenueStep(v)
  PROVE  /\ UNCHANGED <<today, published, verdicts, syncs, window, judged>>
         /\ process[v].step # "off"
         /\ \A u \in Venues \ {v} : process'[u] = process[u]
<1>1. UNCHANGED <<today, published, verdicts, syncs, window, judged>>
  BY DEF VenueStep, StartVenue, LeaveHeld, Recheck, HoldValidators, Fetch, PassOver, Store,
         CloseDay, Kill, stored, runVars
<1>2. process[v].step # "off"
  BY DEF VenueStep, StartVenue, LeaveHeld, Recheck, HoldValidators, Fetch, PassOver, Store,
         CloseDay, Kill
<1>3. ASSUME NEW u \in Venues \ {v}
      PROVE  process'[u] = process[u]
  <2>1. CASE StartVenue(v) \/ PassOver(v) \/ CloseDay(v)
    <3>1. \E state, day : GoOn(v, state, day)
      BY <2>1 DEF StartVenue, PassOver, CloseDay, NextDayOf
    <3>2. QED
      BY <3>1 DEF GoOn, Typed
  <2>2. CASE LeaveHeld(v) \/ Recheck(v) \/ HoldValidators(v) \/ Fetch(v) \/ Store(v) \/ Kill(v)
    BY <2>2 DEF LeaveHeld, Recheck, HoldValidators, Fetch, Store, Kill, Answered, Typed
  <2>3. QED
    BY <2>1, <2>2 DEF VenueStep
<1>4. QED
  BY <1>1, <1>2, <1>3

\* A step of a process that stores nothing keeps its order and every file's.
LEMMA QuietRunInOrder ==
  ASSUME JInv, IInv', NEW v \in Venues,
         StartVenue(v) \/ LeaveHeld(v) \/ HoldValidators(v) \/ PassOver(v) \/ CloseDay(v) \/ Kill(v)
  PROVE  /\ UNCHANGED <<first, versions, bars>>
         /\ RunInOrder(v)'
<1>1. /\ Typed /\ Typed' /\ process[v] \in Process /\ RunInOrder(v) /\ ProcessInOrder(v)
      /\ today \in Nat /\ window \in Nat /\ window <= today
  <2>1. Typed /\ Typed' /\ RunInOrder(v) /\ ProcessInOrder(v) /\ RunsInOrder
    BY DEF JInv, IInv
  <2>2. process[v] \in Process /\ today \in Nat
    BY <2>1 DEF Typed, Dates
  <2>3. window \in Nat /\ window <= today
    BY <2>1 DEF RunsInOrder
  <2>4. QED
    BY <2>1, <2>2, <2>3
<1>2. UNCHANGED <<today, window, first, versions, bars>>
  BY DEF StartVenue, LeaveHeld, HoldValidators, PassOver, CloseDay, Kill, stored, runVars
<1>3. ASSUME NEW state \in Process, NEW day, GoOn(v, state, day),
             state.noticed <= today, window <= state.noticed
      PROVE  RunInOrder(v)'
  <2>1. /\ process'[v].step \in {"day", "done"} /\ process'[v].answer = 0
        /\ process'[v].noticed \in {0, state.noticed}
        /\ process'[v].step = "day" =>
             process'[v].at <= window /\ process'[v].noticed = state.noticed
    BY <1>1, <1>3, GoOnReads
  <2>2. process'[v].noticed <= today' /\ process'[v].answer <= Publications
    BY <1>1, <1>2, <1>3, <2>1
  <2>3. Reading(v)' => process'[v].at <= window' /\ window' <= process'[v].noticed
    BY <1>2, <1>3, <2>1 DEF Reading
  <2>4. QED
    BY <2>1, <2>2, <2>3 DEF RunInOrder
<1>4. CASE StartVenue(v)
  <2> DEFINE state == [process[v] EXCEPT !.rechecked = LatestDaysHeld(v), !.noticed = today]
  <2>1. LatestDaysHeld(v) \subseteq TradeDays
    BY DEF LatestDaysHeld
  <2>2. today \in 0 .. LastDay
    BY <1>1 DEF Typed, Dates
  <2>3. state \in Process /\ state.noticed = today
    BY <1>1, <2>1, <2>2 DEF Process
  <2>4. GoOn(v, state, 0)
    BY <1>4 DEF StartVenue
  <2> HIDE DEF state
  <2>5. state.noticed <= today /\ window <= state.noticed
    BY <1>1, <2>3
  <2>6. QED
    BY <1>2, <1>3, <2>3, <2>4, <2>5
<1>5. CASE PassOver(v) \/ CloseDay(v)
  <2>1. GoOn(v, process[v], process[v].at) /\ Reading(v)
    BY <1>5 DEF PassOver, CloseDay, NextDayOf, Reading
  <2>2. process[v].noticed <= today /\ window <= process[v].noticed
    BY <1>1, <2>1 DEF RunInOrder
  <2>3. QED
    BY <1>1, <1>2, <1>3, <2>1, <2>2
<1>6. CASE Kill(v)
  <2>1. process'[v] = Idle("killed")
    BY <1>1, <1>6 DEF Kill, Typed
  <2>2. QED
    BY <1>1, <1>2, <2>1, IdleRunInOrder
<1>7. CASE LeaveHeld(v) \/ HoldValidators(v)
  <2>1. /\ process'[v].step = "store" /\ process'[v].at = process[v].at
        /\ process'[v].noticed = process[v].noticed
        /\ process'[v].answer <= Publications
    <3>1. CASE LeaveHeld(v)
      BY <1>1, <3>1 DEF LeaveHeld, Typed, Process, RunInOrder
    <3>2. CASE HoldValidators(v)
      BY <1>1, <3>2 DEF HoldValidators, Typed, Process
    <3>3. QED
      BY <1>7, <3>1, <3>2
  <2>2. first[At(v)] # 0 /\ Reading(v)
    BY <1>1, <1>7 DEF LeaveHeld, HoldValidators, Reading, RunInOrder
  <2>3. first'[At(v)'] # 0
    BY <1>2, <2>1, <2>2 DEF At
  <2>4. QED
    BY <1>1, <1>2, <2>1, <2>2, <2>3 DEF RunInOrder
<1>8. QED
  BY <1>2, <1>4, <1>5, <1>6, <1>7

\* A step of a process that holds a copy or stores a day keeps its order, and that of
\* the day's file.
LEMMA HoldingRunInOrder ==
  ASSUME JInv, IInv', NEW v \in Venues, Recheck(v) \/ Fetch(v) \/ Store(v),
         NEW p \in Partitions, p = At(v)
  PROVE  /\ BarsInOrder(p)' /\ RunInOrder(v)' /\ bars' \in [Partitions -> Bars]
         /\ HoldsBars(p) => HoldsBars(p)'
         /\ \A q \in Partitions \ {p} : Stays(q) /\ bars'[q] = bars[q]
<1>1. /\ IInv /\ Typed /\ Typed' /\ process[v] \in Process /\ RunInOrder(v)
      /\ BarsInOrder(p) /\ Len(published[p]) <= Publications
      /\ bars \in [Partitions -> Bars]
  BY DEF JInv, IInv, Typed, StoreInOrder
<1>2. Reading(v) /\ process[v].at \in TradeDays
  BY <1>1 DEF IInv, ProcessInOrder, DayInOrder, Recheck, Fetch, Store, Reading
<1>3. /\ process[v].at <= window /\ window <= process[v].noticed
      /\ process[v].at \in Dates /\ process[v].noticed \in Nat /\ window \in Nat
  BY <1>1, <1>2 DEF RunInOrder, JInv, RunsInOrder, Process
<1>4. Day(p) <= process[v].noticed
  BY <1>3 DEF Day, At, Dates
<1>5. CASE Recheck(v) \/ Fetch(v)
  <2>1. BarsInOrder(p)' /\ first'[p] # 0
    BY <1>1, <1>4, <1>5, RecheckBarsInOrder, FetchBarsInOrder
  <2>2. Answered(v, Len(published[p])) /\ UNCHANGED <<today, window, bars>>
    BY <1>5 DEF Recheck, Fetch, runVars
  <2>3. /\ process'[v].step = "validators" /\ process'[v].at = process[v].at
        /\ process'[v].noticed = process[v].noticed
        /\ process'[v].answer = Len(published[p])
    BY <1>1, <2>2 DEF Answered, Typed, Process
  <2>4. At(v)' = p
    BY <2>3 DEF At
  <2>5. RunInOrder(v)'
    BY <1>1, <1>3, <2>1, <2>2, <2>3, <2>4 DEF RunInOrder
  <2>6. \A q \in Partitions \ {p} : Stays(q)
    BY <1>1, <1>5, OthersStay
  <2>7. HoldsBars(p)' = HoldsBars(p)
    BY <2>2 DEF HoldsBars
  <2>8. QED
    BY <1>1, <2>1, <2>2, <2>5, <2>6, <2>7
<1>6. CASE Store(v)
  <2>1. first[p] # 0
    BY <1>1, <1>6 DEF RunInOrder, Store
  <2>2. /\ BarsInOrder(p)' /\ Whole(bars[p], p)' /\ bars' \in [Partitions -> Bars]
        /\ HoldsBars(p) => HoldsBars(p)'
    BY <1>1, <1>6, <2>1, StoreBarsInOrder
  <2>3. UNCHANGED <<today, published, first, versions, window>>
    BY <1>6 DEF Store, runVars
  <2>4. /\ process'[v].step = "stored" /\ process'[v].at = process[v].at
        /\ process'[v].noticed = process[v].noticed
        /\ process'[v].answer = process[v].answer
    BY <1>1, <1>6 DEF Store, Typed, Process
  <2>5. At(v)' = p
    BY <2>4 DEF At
  <2>6. RunInOrder(v)'
    <3>1. Whole(bars[At(v)], At(v))'
      BY <2>2, <2>3, <2>5 DEF Whole
    <3>2. QED
      BY <1>1, <1>3, <2>1, <2>3, <2>4, <2>5, <3>1 DEF RunInOrder, Reading
  <2>7. \A q \in Partitions \ {p} : bars'[q] = bars[q]
    BY <1>1, <1>6 DEF Store
  <2>8. \A q \in Partitions : Stays(q)
    BY <1>1, <2>3, UnchangedStays
  <2>9. QED
    BY <2>2, <2>6, <2>7, <2>8
<1>7. QED
  BY <1>5, <1>6

\* A step of a venue's process keeps the invariant.
LEMMA VenueStepInOrder ==
  ASSUME JInv, IInv', NEW v \in Venues, VenueStep(v)
  PROVE  JInv'
<1>1. /\ Typed /\ Typed' /\ RunsInOrder /\ StoreInOrder
      /\ UNCHANGED <<today, published, verdicts, syncs, window, judged>>
      /\ process[v].step # "off" /\ window # 0 /\ judged = 0
      /\ \A u \in Venues \ {v} : process'[u] = process[u]
      /\ today \in Nat
  <2>1. Typed /\ Typed' /\ RunsInOrder /\ StoreInOrder
    BY DEF JInv, IInv
  <2>2. /\ UNCHANGED <<today, published, verdicts, syncs, window, judged>>
        /\ process[v].step # "off"
        /\ \A u \in Venues \ {v} : process'[u] = process[u]
    BY <2>1, VenueFrame
  <2>3. window # 0 /\ judged = 0
    BY <2>1, <2>2, RunUnderWay
  <2>4. today \in Nat
    BY <2>1 DEF Typed, Dates
  <2>5. QED
    BY <2>1, <2>2, <2>3, <2>4
<1>2. \A p \in Partitions : published'[p] # <<>> => Day(p) <= today'
  BY <1>1 DEF StoreInOrder, BarsInOrder, CopiesPublished
<1>3. /\ bars' \in [Partitions -> Bars] /\ RunInOrder(v)'
      /\ \A p \in Partitions : BarsInOrder(p)' /\ (HoldsBars(p) => HoldsBars(p)')
      /\ \A u \in Venues \ {v} : RunInOrder(u)'
  <2>1. CASE \/ StartVenue(v) \/ LeaveHeld(v) \/ HoldValidators(v)
             \/ PassOver(v) \/ CloseDay(v) \/ Kill(v)
    <3>1. UNCHANGED <<first, versions, bars>> /\ RunInOrder(v)'
      BY <2>1, QuietRunInOrder
    <3>2. \A p \in Partitions : Stays(p)
      BY <1>1, <3>1, UnchangedStays
    <3>3. today <= today'
      BY <1>1
    <3>4. /\ \A p \in Partitions : BarsInOrder(p)'
          /\ \A p \in Partitions : HoldsBars(p)' = HoldsBars(p)
          /\ \A p \in Partitions :
               first[p] # 0 /\ Whole(bars[p], p) => Whole(bars[p], p)'
      BY <1>2, <3>1, <3>2, <3>3, StoreStays
    <3>5. ASSUME NEW u \in Venues \ {v}
          PROVE  RunInOrder(u)'
      BY <1>1, <3>1, <3>3, <3>4, RunStays
    <3>6. QED
      BY <1>1, <3>1, <3>4, <3>5 DEF StoreInOrder
  <2>2. CASE Recheck(v) \/ Fetch(v) \/ Store(v)
    <3>1. process[v].at \in TradeDays
      BY <2>2 DEF JInv, IInv, ProcessInOrder, DayInOrder, Recheck, Fetch, Store, Reading
    <3>2. PICK p \in Partitions : p = At(v)
      BY <3>1 DEF At, Partitions
    <3>3. /\ BarsInOrder(p)' /\ RunInOrder(v)' /\ bars' \in [Partitions -> Bars]
          /\ HoldsBars(p) => HoldsBars(p)'
          /\ \A q \in Partitions \ {p} : Stays(q) /\ bars'[q] = bars[q]
      BY <2>2, <3>2, HoldingRunInOrder
    <3>4. today <= today'
      BY <1>1
    <3>5. ASSUME NEW q \in Partitions \ {p}
          PROVE  /\ BarsInOrder(q)' /\ first'[q] = first[q]
                 /\ HoldsBars(q) => HoldsBars(q)'
                 /\ first[q] # 0 /\ Whole(bars[q], q) => Whole(bars[q], q)'
      <4>1. BarsInOrder(q) /\ Stays(q) /\ bars'[q] = bars[q]
        BY <1>1, <3>3 DEF StoreInOrder
      <4>2. QED
        BY <1>1, <1>2, <3>4, <4>1, BarsStay DEF HoldsBars, Stays
    <3>6. ASSUME NEW u \in Venues \ {v}
          PROVE  RunInOrder(u)'
      <4>1. \A q \in Partitions : q[1] = u => q # p
        BY <3>2 DEF At
      <4>2. QED
        BY <1>1, <3>4, <3>5, <4>1, RunStays
    <3>7. \A q \in Partitions : BarsInOrder(q)' /\ (HoldsBars(q) => HoldsBars(q)')
      BY <3>3, <3>5
    <3>8. QED
      BY <3>3, <3>6, <3>7
  <2>3. QED
    BY <2>1, <2>2 DEF VenueStep
<1>4. StoreInOrder'
  <2>1. \A p \in Partitions : VerdictsInOrder(verdicts, p)'
    BY <1>1, <1>3 DEF StoreInOrder, VerdictsInOrder
  <2>2. VerdictsTyped(verdicts)'
    BY <1>1 DEF StoreInOrder, VerdictsTyped
  <2>3. QED
    BY <1>1, <1>3, <2>1, <2>2 DEF StoreInOrder
<1>5. RunsInOrder'
  BY <1>1 DEF RunsInOrder
<1>6. StoredDaysJudged' /\ VenuesAgree'
  BY <1>1 DEF StoredDaysJudged, VenuesAgree
<1>7. QED
  BY <1>3, <1>4, <1>5, <1>6 DEF JInv

\* A publication, a day that passes and a step of nothing keep it.
LEMMA OutsideInOrder ==
  ASSUME JInv, IInv', today <= today',
         \/ NextDay \/ UNCHANGED vars
         \/ \E p \in Partitions, file \in Files : Publish(p, file)
  PROVE  JInv'
<1>1. /\ Typed /\ Typed' /\ RunsInOrder /\ StoreInOrder
      /\ today \in Nat /\ today' \in Nat
  <2>1. Typed /\ Typed' /\ RunsInOrder /\ StoreInOrder
    BY DEF JInv, IInv
  <2>2. today \in Dates /\ today' \in Dates
    BY <2>1 DEF Typed
  <2>3. today \in Nat /\ today' \in Nat
    BY <2>2 DEF Dates
  <2>4. QED
    BY <2>1, <2>3
<1>2. UNCHANGED <<first, versions, validators, bars, verdicts, syncs, window, judged, process>>
  BY DEF NextDay, Publish, stored, runVars, vars
<1>3. /\ \A p \in Partitions : Stays(p) /\ (published'[p] # <<>> => Day(p) <= today')
      /\ \A p \in Partitions : Len(published'[p]) <= Publications
  <2>1. CASE NextDay \/ UNCHANGED vars
    <3>1. published' = published
      BY <2>1 DEF NextDay, vars
    <3>2. \A p \in Partitions : Day(p) \in Nat
      <4>1. \A p \in Partitions : Day(p) \in Dates
        BY DEF Partitions, Day
      <4>2. QED
        BY <4>1 DEF Dates
    <3>3. ASSUME NEW p \in Partitions
          PROVE  Stays(p) /\ (published'[p] # <<>> => Day(p) <= today')
      <4>1. Stays(p)
        BY <1>1, <1>2, <3>1, UnchangedStays
      <4>2. published[p] # <<>> => Day(p) <= today
        BY <1>1 DEF StoreInOrder, BarsInOrder, CopiesPublished
      <4>3. Day(p) \in Nat
        BY <3>2
      <4>4. QED
        BY <1>1, <3>1, <4>1, <4>2, <4>3
    <3>4. QED
      BY <1>1, <3>1, <3>3 DEF StoreInOrder
  <2>2. ASSUME NEW p \in Partitions, NEW file \in Files, Publish(p, file)
        PROVE  /\ \A q \in Partitions : Stays(q) /\ (published'[q] # <<>> => Day(q) <= today')
               /\ \A q \in Partitions : Len(published'[q]) <= Publications
    <3>1. /\ \A q \in Partitions : Stays(q)
          /\ \A q \in Partitions : Len(published'[q]) <= Publications
      BY <1>1, <2>2, PublishStays, PublishBounded DEF StoreInOrder
    <3>2. today' = today /\ Day(p) <= today
      BY <2>2 DEF Publish
    <3>3. \A q \in Partitions : q # p => published'[q] = published[q]
      BY <1>1, <2>2 DEF Publish, Typed
    <3>4. \A q \in Partitions : published'[q] # <<>> => Day(q) <= today'
      BY <1>1, <3>2, <3>3 DEF StoreInOrder, BarsInOrder, CopiesPublished
    <3>5. QED
      BY <3>1, <3>4
  <2>3. QED
    BY <2>1, <2>2
<1>4. /\ \A p \in Partitions : BarsInOrder(p)'
      /\ \A p \in Partitions : HoldsBars(p)' = HoldsBars(p)
      /\ \A p \in Partitions :
           first[p] # 0 /\ Whole(bars[p], p) => Whole(bars[p], p)'
  BY <1>2, <1>3, StoreStays
<1>5. ASSUME NEW v \in Venues
      PROVE  RunInOrder(v)'
  BY <1>1, <1>2, <1>4, RunStays
<1>6. ASSUME NEW p \in Partitions
      PROVE  VerdictsInOrder(verdicts, p)'
  <2>1. \A n \in Dates : verdicts[p][n] # NoVerdict => n <= today /\ HoldsBars(p)
    BY <1>1 DEF StoreInOrder, VerdictsInOrder
  <2>2. \A n \in Dates : verdicts[p][n] # NoVerdict => n <= today'
    BY <1>1, <2>1 DEF Dates
  <2>3. QED
    BY <1>2, <1>4, <2>1, <2>2 DEF VerdictsInOrder
<1>7. StoreInOrder'
  <2>1. VerdictsTyped(verdicts)'
    BY <1>1, <1>2 DEF StoreInOrder, VerdictsTyped
  <2>2. QED
    BY <1>1, <1>2, <1>3, <1>4, <1>6, <2>1 DEF StoreInOrder
<1>8. RunsInOrder'
  <2>1. window <= today' /\ judged <= today'
    BY <1>1 DEF RunsInOrder
  <2>2. QED
    BY <1>1, <1>2, <2>1 DEF RunsInOrder
<1>9. StoredDaysJudged'
  <2>1. StoredDaysJudged
    BY DEF JInv
  <2>2. \A p \in Partitions : LatestVerdict(verdicts, p)' = LatestVerdict(verdicts, p)
    BY <1>2 DEF LatestVerdict
  <2>3. QED
    BY <1>2, <1>4, <2>1, <2>2 DEF StoredDaysJudged
<1>10. VenuesAgree'
  <2>1. VenuesAgree
    BY DEF JInv
  <2>2. Disagreeing(verdicts)' = Disagreeing(verdicts)
    BY <1>2 DEF Disagreeing, LatestVerdict
  <2>3. QED
    BY <1>2, <2>1, <2>2 DEF VenuesAgree
<1>11. QED
  BY <1>5, <1>7, <1>8, <1>9, <1>10 DEF JInv

\* So do the start of a run, its end and its verdicts.
LEMMA RunsStepInOrder ==
  ASSUME JInv, IInv', StartRun \/ Judge \/ EndRun
  PROVE  JInv'
<1>1. /\ Typed /\ Typed' /\ RunsInOrder /\ StoreInOrder
      /\ today \in Nat /\ today \in 1 .. LastDay
  BY DEF JInv, IInv, Typed, Dates
<1>2. UNCHANGED <<today, published, first, versions, validators, bars>>
  BY DEF StartRun, Judge, EndRun, RunOver, stored
<1>3. today <= today'
  BY <1>1, <1>2
<1>4. \A p \in Partitions : Stays(p) /\ (published'[p] # <<>> => Day(p) <= today')
  BY <1>1, <1>2, UnchangedStays DEF StoreInOrder, BarsInOrder, CopiesPublished
<1>5. /\ \A p \in Partitions : BarsInOrder(p)'
      /\ \A p \in Partitions : HoldsBars(p)' = HoldsBars(p)
  BY <1>2, <1>3, <1>4, StoreStays
<1>6. ASSUME NEW v \in Venues
      PROVE  RunInOrder(v)'
  <2>1. process'[v] = Idle("start") \/ process'[v] = Idle("off")
    BY DEF StartRun, Judge, EndRun, RunOver
  <2>2. QED
    BY <1>1, <2>1, IdleRunInOrder
<1>7. RunsInOrder'
  <2>1. CASE StartRun
    BY <1>1, <2>1 DEF StartRun, RunsInOrder
  <2>2. CASE Judge
    <3>1. \A v \in Venues : process'[v].step = "off"
      BY <2>2 DEF Judge, RunOver, Idle
    <3>2. QED
      BY <1>1, <2>2, <3>1 DEF Judge, RunOver, RunsInOrder
  <2>3. CASE EndRun
    <3>1. \A v \in Venues : process'[v].step = "off"
      BY <2>3 DEF EndRun, RunOver, Idle
    <3>2. QED
      BY <1>1, <2>3, <3>1 DEF EndRun, RunOver, RunsInOrder
  <2>4. QED
    BY <2>1, <2>2, <2>3
<1>8. CASE StartRun \/ EndRun
  <2>1. verdicts' = verdicts /\ judged' = 0
    BY <1>1, <1>8 DEF StartRun, EndRun, RunOver, RunsInOrder, stored
  <2>2. \A p \in Partitions : VerdictsInOrder(verdicts, p)'
    BY <1>1, <1>2, <1>5, <2>1 DEF StoreInOrder, VerdictsInOrder
  <2>3. VerdictsTyped(verdicts)'
    BY <1>1, <2>1 DEF StoreInOrder, VerdictsTyped
  <2>4. StoreInOrder'
    BY <1>1, <1>2, <1>5, <2>2, <2>3 DEF StoreInOrder
  <2>5. StoredDaysJudged' /\ VenuesAgree'
    BY <2>1 DEF StoredDaysJudged, VenuesAgree
  <2>6. QED
    BY <1>6, <1>7, <2>4, <2>5 DEF JInv
<1>9. CASE Judge
  <2> DEFINE w == RecordVerdicts
  <2>1. verdicts' = w /\ judged' = today
    BY <1>9 DEF Judge
  <2>2. /\ VerdictsTyped(w)
        /\ \A p \in Partitions : VerdictsInOrder(w, p)
        /\ \A p \in Partitions : HoldsBars(p) => LatestVerdict(w, p) # NoVerdict
        /\ \A d \in Disagreeing(w) : \E v \in Venues : w[<<v, d>>][today] # NoVerdict
    BY <1>1, VerdictsRecorded DEF StoreInOrder
  <2> HIDE DEF w
  <2>3. \A p \in Partitions : VerdictsInOrder(verdicts, p)'
    BY <1>2, <1>5, <2>1, <2>2 DEF VerdictsInOrder
  <2>4. VerdictsTyped(verdicts)'
    BY <2>1, <2>2 DEF VerdictsTyped
  <2>5. StoreInOrder'
    BY <1>1, <1>2, <1>5, <2>3, <2>4 DEF StoreInOrder
  <2>6. \A p \in Partitions : LatestVerdict(verdicts, p)' = LatestVerdict(w, p)
    BY <2>1 DEF LatestVerdict
  <2>7. StoredDaysJudged'
    BY <1>5, <2>2, <2>6 DEF StoredDaysJudged
  <2>8. Disagreeing(verdicts)' = Disagreeing(w)
    BY <2>1 DEF Disagreeing, LatestVerdict
  <2>9. VenuesAgree'
    BY <2>1, <2>2, <2>8 DEF VenuesAgree
  <2>10. QED
    BY <1>6, <1>7, <2>5, <2>7, <2>9 DEF JInv
<1>10. QED
  BY <1>8, <1>9

LEMMA JudgedStepInOrder ==
  ASSUME JInv, [Next]_vars
  PROVE  JInv'
<1>1. IInv'
  BY StepInOrder DEF JInv
<1>2. today \in Dates
  BY DEF JInv, IInv, Typed
<1>3. CASE NextDay \/ UNCHANGED vars \/ \E p \in Partitions, file \in Files : Publish(p, file)
  <2>1. today <= today'
    <3>1. today' = today + 1 \/ today' = today
      BY <1>3 DEF NextDay, Publish, vars
    <3>2. QED
      BY <1>2, <3>1 DEF Dates
  <2>2. QED
    BY <1>1, <1>3, <2>1, OutsideInOrder
<1>4. CASE StartRun \/ Judge \/ EndRun
  BY <1>1, <1>4, RunsStepInOrder
<1>5. ASSUME NEW v \in Venues, VenueStep(v)
      PROVE  JInv'
  BY <1>1, <1>5, VenueStepInOrder
<1>6. QED
  BY <1>3, <1>4, <1>5 DEF Next, Over

LEMMA InitJudged ==
  ASSUME Init
  PROVE  JInv
<1>1. IInv
  BY InitInOrder
<1>2. ASSUME NEW p \in Partitions
      PROVE  /\ Len(published[p]) <= Publications
             /\ BarsInOrder(p) /\ VerdictsInOrder(verdicts, p)
             /\ ~ HoldsBars(p)
  <2>1. /\ published[p] = <<>> /\ first[p] = 0 /\ \A n \in Dates : versions[p][n] = 0
        /\ \A k \in Isins \X Dates : bars[p][k] = Absent
        /\ \A n \in Dates : verdicts[p][n] = NoVerdict
    BY DEF Init
  <2>2. ~ HoldsBars(p)
    BY <2>1 DEF HoldsBars
  <2>3. CopiesPublished(p)
    BY <2>1 DEF CopiesPublished
  <2>4. Dated(bars[p], p) /\ NotedBefore(bars[p], p)
    BY <2>1 DEF Dated, NotedBefore
  <2>5. VerdictsInOrder(verdicts, p)
    BY <2>1 DEF VerdictsInOrder
  <2>6. Len(published[p]) <= Publications
    BY <2>1
  <2>7. QED
    BY <2>2, <2>3, <2>4, <2>5, <2>6 DEF BarsInOrder
<1>3. bars \in [Partitions -> Bars] /\ VerdictsTyped(verdicts)
  BY DEF Init, Bars, VerdictsTyped
<1>4. RunsInOrder /\ StoredDaysJudged /\ VenuesAgree
  <2>1. \A v \in Venues : process[v].step = "off"
    BY DEF Init, Idle
  <2>2. RunsInOrder
    BY <2>1 DEF Init, RunsInOrder
  <2>3. QED
    BY <2>2 DEF Init, StoredDaysJudged, VenuesAgree
<1>5. \A v \in Venues : RunInOrder(v)
  BY DEF Init, Idle, RunInOrder, Reading
<1>6. QED
  BY <1>1, <1>2, <1>3, <1>4, <1>5 DEF JInv, StoreInOrder

\* In order, what stood on a date can be read as of it.
LEMMA InOrderIsKnown ==
  ASSUME JInv
  PROVE  KnownAsOf
<1>1. ASSUME NEW v \in Venues, process[v].step = "stored",
             NEW date \in Day(At(v)) .. today, NEW i \in Isins,
             NEW p, p = At(v),
             NEW held, held = HeldBy(p, date),
             NEW dated,
             dated = IF NoticedBy(p, date) = {} THEN Day(p) ELSE Newest(NoticedBy(p, date)),
             Content(p, held)[i] # Absent
      PROVE  \/ Standing(bars[p], i, date) = Content(p, held)[i]
             \/ \E copy \in 1 .. held - 1 : bars[p][<<i, dated>>] = Content(p, copy)[i]
  <2>1. Typed /\ RunInOrder(v) /\ process[v].at \in TradeDays
    BY <1>1 DEF JInv, IInv, ProcessInOrder, DayInOrder, Reading
  <2>2. p \in Partitions
    BY <1>1, <2>1 DEF At, Partitions
  <2>3. first[p] # 0 /\ Whole(bars[p], p) /\ CopiesPublished(p)
    BY <1>1, <2>1, <2>2 DEF RunInOrder, JInv, StoreInOrder, BarsInOrder
  <2>4. Day(p) \in Dates
    BY <2>2 DEF Partitions, Day
  <2>5. date \in Day(p) .. LastDay
    BY <1>1, <2>1, <2>4 DEF Typed, Dates
  <2>6. QED
    BY ONLY <1>1, <2>1, <2>2, <2>3, <2>5, WholeIsKnown
<1>2. QED
  BY <1>1 DEF KnownAsOf

\* In order, everything has its type and nothing is known before it happened.
LEMMA InOrderIsTyped ==
  ASSUME JInv
  PROVE  TypeOK
<1>1. Typed /\ StoreInOrder /\ RunsInOrder
  BY DEF JInv, IInv
<1>2. ASSUME NEW p \in Partitions
      PROVE  /\ Len(published[p]) <= Publications
             /\ first[p] <= Len(published[p]) /\ validators[p] <= Len(published[p])
             /\ \A n \in Dates : versions[p][n] <= Len(published[p])
             /\ \A n \in Dates : n > today => /\ versions[p][n] = 0
                                              /\ verdicts[p][n] = NoVerdict
                                              /\ \A i \in Isins : bars[p][<<i, n>>] = Absent
  <2>1. CopyInOrder(p) /\ BarsInOrder(p) /\ VerdictsInOrder(verdicts, p)
    BY <1>1 DEF JInv, IInv, StoreInOrder
  <2>2. today \in Nat
    BY <1>1 DEF Typed, Dates
  <2>3. ASSUME NEW n \in Dates, n > today
        PROVE  versions[p][n] = 0 /\ verdicts[p][n] = NoVerdict
    BY <2>1, <2>2, <2>3 DEF CopyInOrder, VerdictsInOrder, Dates
  <2>4. ASSUME NEW n \in Dates, n > today, NEW i \in Isins, bars[p][<<i, n>>] # Absent
        PROVE  FALSE
    <3>1. n = Day(p)
      <4>1. \A copy : ~ (copy \in 1 .. versions[p][n])
        BY <2>3, <2>4
      <4>2. QED
        BY <2>1, <2>4, <4>1 DEF BarsInOrder, Dated
    <3>2. HoldsBars(p)
      BY <2>4 DEF HoldsBars
    <3>3. Day(p) <= today
      BY <1>1, <2>1, <3>2, BarsNeedTheDay
    <3>4. QED
      BY <2>2, <2>4, <3>1, <3>3 DEF Dates
  <2>5. QED
    BY <1>1, <2>1, <2>3, <2>4 DEF CopyInOrder, BarsInOrder, CopiesPublished, StoreInOrder
<1>3. first \in [Partitions -> Copies] /\ validators \in [Partitions -> Copies]
  <2>1. ASSUME NEW p \in Partitions
        PROVE  first[p] \in Copies /\ validators[p] \in Copies
    <3>1. first[p] \in Nat /\ validators[p] \in Nat /\ Len(published[p]) \in Nat
      BY <1>1 DEF Typed
    <3>2. QED
      BY <1>2, <3>1 DEF Copies
  <2>2. QED
    BY <1>1, <2>1 DEF Typed
<1>4. versions \in [Partitions -> [Dates -> Copies]]
  <2>1. ASSUME NEW p \in Partitions
        PROVE  versions[p] \in [Dates -> Copies]
    <3>1. versions[p] \in [Dates -> Nat] /\ Len(published[p]) \in Nat
      BY <1>1 DEF Typed
    <3>2. \A n \in Dates : versions[p][n] \in Copies
      BY <1>2, <3>1 DEF Copies
    <3>3. QED
      BY <3>1, <3>2
  <2>2. QED
    BY <1>1, <2>1 DEF Typed
<1>5. process \in [Venues -> [step: Steps, at: TradeDays \union {0}, rechecked: SUBSET TradeDays,
                             noticed: 0 .. today, answer: Copies]]
  <2>1. ASSUME NEW v \in Venues
        PROVE  process[v] \in [step: Steps, at: TradeDays \union {0},
                               rechecked: SUBSET TradeDays,
                               noticed: 0 .. today, answer: Copies]
    <3>1. process[v] \in Process /\ RunInOrder(v) /\ today \in Nat
      BY <1>1 DEF JInv, Typed, Dates
    <3>2. process[v].noticed \in 0 .. today
      BY <3>1 DEF Process, RunInOrder
    <3>3. process[v].answer \in Copies
      BY <3>1 DEF Process, RunInOrder, Copies
    <3>4. QED
      BY <3>1, <3>2, <3>3 DEF Process
  <2>2. QED
    BY <1>1, <2>1 DEF Typed
<1>6. bars \in [Partitions -> [Isins \X Dates -> Values \union {Absent}]]
  BY <1>1 DEF StoreInOrder, Bars
<1>7. verdicts \in [Partitions -> [Dates -> Verdicts \union {NoVerdict}]]
  BY <1>1 DEF StoreInOrder, VerdictsTyped
<1>8. /\ today \in Dates /\ published \in [Partitions -> Seq(Files)]
      /\ syncs \in 0 .. Syncs /\ window \in 0 .. LastDay /\ judged \in 0 .. LastDay
  BY <1>1 DEF Typed, RunsInOrder
<1>9. QED
  BY <1>2, <1>3, <1>4, <1>5, <1>6, <1>7, <1>8 DEF TypeOK

-----------------------------------------------------------------------------
(* The theorems.                                                           *)

\* For any venues, days, corrections and runs: every variable has its type, a
\* copy is of something published, and no copy, bar or verdict is dated after
\* the day it became known (cache.py, facts._append, completeness.py).
THEOREM DaysTypeCorrect == Spec => []TypeOK
<1>1. Init => JInv
  BY InitJudged
<1>2. JInv /\ [Next]_vars => JInv'
  BY JudgedStepInOrder
<1>3. JInv => TypeOK
  BY InOrderIsTyped
<1>4. QED
  BY <1>1, <1>2, <1>3, PTL DEF Spec

\* Wherever a process was killed before: once a day is stored, the bars standing
\* on every date are those of the copy held by that date, save where it found the
\* key taken by the bar of an earlier publication (bhavcopy.corrected_bars).
THEOREM WhatStoodIsKnown == Spec => []KnownAsOf
<1>1. Init => JInv
  BY InitJudged
<1>2. JInv /\ [Next]_vars => JInv'
  BY JudgedStepInOrder
<1>3. JInv => KnownAsOf
  BY InOrderIsKnown
<1>4. QED
  BY <1>1, <1>2, <1>3, PTL DEF Spec

\* Whichever venue's bars came first, and whatever runs ended without a verdict: once
\* a run has judged, every day that holds bars has one (days_awaiting_a_verdict).
THEOREM EveryStoredDayIsJudged == Spec => []StoredDaysJudged
<1>1. Init => JInv
  BY InitJudged
<1>2. JInv /\ [Next]_vars => JInv'
  BY JudgedStepInOrder
<1>3. JInv => StoredDaysJudged
  BY DEF JInv
<1>4. QED
  BY <1>1, <1>2, <1>3, PTL DEF Spec

\* Once a run has judged, the venues' verdicts on a day count the same divergences,
\* unless a verdict had the day's date already (days_whose_venues_disagree).
THEOREM VenuesAreAtOne == Spec => []VenuesAgree
<1>1. Init => JInv
  BY InitJudged
<1>2. JInv /\ [Next]_vars => JInv'
  BY JudgedStepInOrder
<1>3. JInv => VenuesAgree
  BY DEF JInv
<1>4. QED
  BY <1>1, <1>2, <1>3, PTL DEF Spec

-----------------------------------------------------------------------------
(* What was known of a day's verdict.                                      *)

\* Of a day with a verdict, judging draws one of today alone.
LEMMA JudgedToday ==
  ASSUME Typed, NEW w, NEW days, VerdictsTyped(w), NEW p \in Partitions,
         LatestVerdict(w, p) # NoVerdict
  PROVE  \A n \in Dates : n # today => Judged(w, days)[p][n] = w[p][n]
<1>1. w[p] \in [Dates -> Verdicts \union {NoVerdict}]
  BY DEF VerdictsTyped
<1>2. \/ Judged(w, days)[p] = w[p]
      \/ Judged(w, days)[p] = [w[p] EXCEPT ![today] = [bars |-> Cardinality(HeldAt(p)),
                                                       divergent |-> Cardinality(Diverging(Day(p)))]]
  BY DEF Judged
<1>3. QED
  BY <1>1, <1>2

\* So a run that judges leaves every verdict of an earlier date.
LEMMA RecordedToday ==
  ASSUME Typed, VerdictsTyped(verdicts),
         \A p \in Partitions : BarsInOrder(p) /\ VerdictsInOrder(verdicts, p),
         NEW p \in Partitions, LatestVerdict(verdicts, p) # NoVerdict
  PROVE  \A n \in Dates : n # today => RecordVerdicts[p][n] = verdicts[p][n]
<1> DEFINE days == Awaiting \union Changed
           drawn == Judged(verdicts, days)
<1>1. RecordVerdicts = Judged(drawn, Disagreeing(drawn))
  BY DEF RecordVerdicts
<1> HIDE DEF days
<1>2. \A q \in Partitions :
        /\ drawn[q] \in [Dates -> Verdicts \union {NoVerdict}]
        /\ \A n \in Dates : verdicts[q][n] # NoVerdict => drawn[q][n] # NoVerdict
  BY JudgedAdds
<1>3. VerdictsTyped(drawn)
  <2>1. drawn = [q \in Partitions |-> drawn[q]]
    BY DEF Judged
  <2>2. QED
    BY <1>2, <2>1 DEF VerdictsTyped
<1>4. \A n \in Dates : n # today => drawn[p][n] = verdicts[p][n]
  BY JudgedToday
<1>5. LatestVerdict(drawn, p) # NoVerdict
  BY <1>2, LatestVerdictIs
<1> HIDE DEF drawn
<1>6. \A n \in Dates : n # today => RecordVerdicts[p][n] = drawn[p][n]
  BY <1>1, <1>3, <1>5, JudgedToday
<1>7. QED
  BY <1>4, <1>6

\* However days are corrected, noticed late and judged again, a verdict that could be
\* read as of a date that is over is read so for good (persist_verdicts, stg_trading_day).
THEOREM VerdictsStayKnown == Spec => VerdictsKnownAsOf
<1>1. JInv /\ [Next]_vars => [VerdictsStay]_vars
  <2> SUFFICES ASSUME JInv, [Next]_vars, NEW p \in Partitions, NEW date \in Dates,
                      date < today, VerdictOn(p, date) # NoVerdict
               PROVE  VerdictOn(p, date)' = VerdictOn(p, date)
    BY DEF VerdictsStay
  <2>1. Typed /\ VerdictsTyped(verdicts) /\ date \in Nat /\ today \in Nat
    BY DEF JInv, IInv, Typed, StoreInOrder, Dates
  <2>2. LatestVerdict(verdicts, p) # NoVerdict
    <3>1. \E n \in Dates : verdicts[p][n] # NoVerdict
      BY DEF VerdictOn
    <3>2. QED
      BY <3>1, LatestVerdictIs
  <2>3. \A n \in Dates : n <= date => verdicts'[p][n] = verdicts[p][n]
    <3>1. CASE Judge
      <4>1. \A n \in Dates : n # today => RecordVerdicts[p][n] = verdicts[p][n]
        BY <2>1, <2>2, RecordedToday DEF JInv, StoreInOrder
      <4>2. \A n \in Dates : n <= date => n # today
        BY <2>1
      <4>3. verdicts' = RecordVerdicts
        BY <3>1 DEF Judge
      <4>4. QED
        BY <4>1, <4>2, <4>3
    <3>2. CASE ~Judge
      <4>1. verdicts' = verdicts
        <5>1. CASE \E v \in Venues : VenueStep(v)
          BY <2>1, <5>1, VenueFrame
        <5>2. CASE ~\E v \in Venues : VenueStep(v)
          BY <3>2, <5>2 DEF Next, NextDay, StartRun, EndRun, RunOver, Over, Publish, vars, stored
        <5>3. QED
          BY <5>1, <5>2
      <4>2. QED
        BY <4>1
    <3>3. QED
      BY <3>1, <3>2
  <2> DEFINE known == {n \in Dates : n <= date /\ verdicts[p][n] # NoVerdict}
  <2>4. {n \in Dates : n <= date /\ verdicts'[p][n] # NoVerdict} = known
    BY <2>3
  <2>5. known # {} /\ Newest(known) \in known
    BY NewestExists DEF VerdictOn
  <2> DEFINE after == {n \in Dates : n <= date /\ verdicts'[p][n] # NoVerdict}
  <2>6. VerdictOn(p, date)' = IF after = {} THEN NoVerdict ELSE verdicts'[p][Newest(after)]
    BY Zenon DEF VerdictOn, Newest
  <2>7. QED
    BY <2>3, <2>4, <2>5, <2>6 DEF VerdictOn
<1>2. Init => JInv
  BY InitJudged
<1>3. JInv /\ [Next]_vars => JInv'
  BY JudgedStepInOrder
<1>4. QED
  BY <1>1, <1>2, <1>3, PTL DEF Spec, VerdictsKnownAsOf
=============================================================================
