---------------------------- MODULE TradingDays ----------------------------
(***************************************************************************)
(* The prices of a trading day as they become known: the files the venues  *)
(* publish and correct, the copies the cache holds of them, the append-    *)
(* only bars stored from those copies, and the verdicts drawn on the bars  *)
(* (pipelines/assets/ingestion/{bhavcopy, completeness}.py, sources/cache  *)
(* .py, sources/revalidation.py, facts.py, history.py, validation.py).     *)
(*                                                                         *)
(* A run reads both venues at once, each in a process of its own that may  *)
(* be killed between any two writes, and then judges the days.  Of a bar   *)
(* the model keeps one value, any two of which are too far apart to agree  *)
(* across venues; of a file, the value it gives each instrument.  Every    *)
(* file is in the current format.  No day is measured against the length   *)
(* of the days before it, which takes MINIMUM_NEIGHBOURS of them.          *)
(***************************************************************************)
EXTENDS Integers, Sequences, FiniteSets

CONSTANTS Venues,         \* the exchanges
          Isins,          \* the instruments
          Values,         \* the values a bar may have
          TradeDays,      \* the days of the calendar the venues trade on
          LastDay,        \* bounds the calendar
          RecheckedDays,  \* RECHECKED_DAYS
          Publications,   \* bounds the files put up and corrected in all
          Syncs,          \* bounds the runs
          Absent          \* no bar

Dates == 1 .. LastDay

ASSUME ConstantsAssumption ==
  /\ LastDay \in Nat \ {0}
  /\ TradeDays \subseteq Dates
  /\ RecheckedDays \in Nat /\ Publications \in Nat /\ Syncs \in Nat
  /\ IsFiniteSet(Isins) /\ IsFiniteSet(Venues)
  /\ Absent \notin Values

\* One venue's file for one trading day, and what the cache and the database
\* hold of it.
Partitions == Venues \X TradeDays
Day(p) == p[2]
Files == {f \in [Isins -> Values \union {Absent}] : \E i \in Isins : f[i] # Absent}

\* Which of a venue's publications of a file a copy is of; 0 is no copy.
Copies == 0 .. Publications

\* A verdict: how many bars it was drawn from, and how many instruments of
\* the day diverged across the venues.
Verdicts == [bars: 0 .. Cardinality(Isins), divergent: 0 .. Cardinality(Isins)]
NoVerdict == [bars |-> -1, divergent |-> -1]

VARIABLES today,
          published,    \* each file as the venue published and corrected it
          first,        \* the first copy the cache holds
          versions,     \* the corrected copies, by the day each was noticed
          validators,   \* the publication the validators held identify
          bars,         \* price_daily, by instrument and as-of date
          verdicts,     \* trading_day, by as-of date
          syncs,        \* how many runs have been started
          window,       \* the last day the run under way reads; 0 is no run
          judged,       \* the day the last run judged; 0 while one is under way
          process       \* each venue's process: its step and day, the days it asks
                        \* for again, the day it started, and the publication it
                        \* was last answered with

stored  == <<first, versions, validators, bars, verdicts>>
runVars == <<syncs, window, judged>>
vars    == <<today, published, stored, runVars, process>>

\* A process at a step that reads no day.
Idle(step) == [step |-> step, at |-> 0, rechecked |-> {}, noticed |-> 0, answer |-> 0]

Init ==
  /\ today = 1
  /\ published = [p \in Partitions |-> <<>>]
  /\ first = [p \in Partitions |-> 0]
  /\ versions = [p \in Partitions |-> [n \in Dates |-> 0]]
  /\ validators = [p \in Partitions |-> 0]
  /\ bars = [p \in Partitions |-> [k \in Isins \X Dates |-> Absent]]
  /\ verdicts = [p \in Partitions |-> [n \in Dates |-> NoVerdict]]
  /\ syncs = 0 /\ window = 0 /\ judged = 0
  /\ process = [v \in Venues |-> Idle("off")]

-----------------------------------------------------------------------------
(* The world outside: the days pass, and the venues publish and correct.   *)

NextDay ==
  /\ today < LastDay
  /\ today' = today + 1
  /\ UNCHANGED <<published, stored, runVars, process>>

\* A file put up for the first time, corrected, or packed again unchanged.
Publish(p, file) ==
  /\ Day(p) <= today
  /\ Cardinality({c \in Partitions \X Copies : c[2] \in DOMAIN published[c[1]]}) < Publications
  /\ published' = [published EXCEPT ![p] = Append(@, file)]
  /\ UNCHANGED <<today, stored, runVars, process>>

-----------------------------------------------------------------------------
(* What is held.                                                           *)

Newest(S) == CHOOSE n \in S : \A m \in S : m <= n

\* The days a corrected copy was noticed on, up to a date.
NoticedBy(p, date) == {n \in Dates : n <= date /\ versions[p][n] # 0}

\* The most recent copy held as of a date: the first where none followed it.
HeldBy(p, date) ==
  IF NoticedBy(p, date) = {} THEN first[p] ELSE versions[p][Newest(NoticedBy(p, date))]

Latest(p) == HeldBy(p, LastDay)

\* The file a copy is of.
Content(p, copy) == published[p][copy]

\* The as-of dates of an instrument's bars for the day, up to a date.
StoredBy(b, i, date) == {n \in Dates : n <= date /\ b[<<i, n>>] # Absent}

\* The bar standing on a date: the latest stored at or before it.
Standing(b, i, date) ==
  IF StoredBy(b, i, date) = {} THEN Absent ELSE b[<<i, Newest(StoredBy(b, i, date))>>]

HoldsBars(p) == \E k \in Isins \X Dates : bars[p][k] # Absent

\* latest_days_held
LatestDaysHeld(v) ==
  LET held == {d \in TradeDays : d <= window /\ HoldsBars(<<v, d>>)}
  IN  {d \in held : Cardinality({e \in held : e > d}) < RecheckedDays}

-----------------------------------------------------------------------------
(* A run: one venue's process, day by day.                                 *)

\* One run of the flows at a time reads the days up to its own.
StartRun ==
  /\ window = 0 /\ syncs < Syncs
  /\ window' = today /\ syncs' = syncs + 1 /\ judged' = 0
  /\ process' = [v \in Venues |-> Idle("start")]
  /\ UNCHANGED <<today, published, stored>>

\* Goes on to the earliest day of the run after one, or is done with it.
GoOn(v, state, day) ==
  LET left == {d \in TradeDays : day < d /\ d <= window}
  IN  \/ left = {} /\ process' = [process EXCEPT ![v] = Idle("done")]
      \/ \E d \in left :
           /\ \A e \in left : d <= e
           /\ process' = [process EXCEPT ![v] =
                [state EXCEPT !.step = "day", !.at = d, !.answer = 0]]

\* A variant: the day is read off a clock ahead of India's.
StartVenueAhead(v) ==
  /\ process[v].step = "start"
  /\ GoOn(v, [process[v] EXCEPT !.rechecked = LatestDaysHeld(v), !.noticed = today + 1], 0)
  /\ UNCHANGED <<today, published, stored, runVars>>

\* A sync asks again for the latest days held.  A bootstrap asks for none: it
\* is a sync whose every such request is in vain.
StartVenue(v) ==
  /\ process[v].step = "start"
  /\ GoOn(v, [process[v] EXCEPT !.rechecked = LatestDaysHeld(v), !.noticed = today], 0)
  /\ UNCHANGED <<today, published, stored, runVars>>

At(v) == <<v, process[v].at>>
NextDayOf(v) == GoOn(v, process[v], process[v].at)

\* fetch: the copy held, whether it was not asked for again or in vain: no
\* answer, a page in place of the file, or one the venue says is current.
LeaveHeld(v) ==
  /\ process[v].step = "day"
  /\ first[At(v)] # 0
  /\ process' = [process EXCEPT ![v].step = "store"]
  /\ UNCHANGED <<today, published, stored, runVars>>

Answered(v, publication) ==
  process' = [process EXCEPT ![v].step = "validators", ![v].answer = publication]

\* A variant: a version already held under the day stays as it is.
RecheckOnceADay(v) ==
  LET p == At(v)
      now == Len(published[p])
  IN  /\ process[v].step = "day" /\ process[v].at \in process[v].rechecked
      /\ Latest(p) # 0 /\ now # validators[p]
      /\ IF Content(p, now) # Content(p, Latest(p)) /\ versions[p][process[v].noticed] = 0
         THEN versions' = [versions EXCEPT ![p][process[v].noticed] = now]
         ELSE UNCHANGED versions
      /\ Answered(v, now)
      /\ UNCHANGED <<today, published, first, validators, bars, verdicts, runVars>>

\* recheck: a file whose content changed is held under the day it was noticed.
Recheck(v) ==
  LET p == At(v)
      now == Len(published[p])
  IN  /\ process[v].step = "day" /\ process[v].at \in process[v].rechecked
      /\ Latest(p) # 0 /\ now # validators[p]
      /\ IF Content(p, now) # Content(p, Latest(p))
         THEN versions' = [versions EXCEPT ![p][process[v].noticed] = now]
         ELSE UNCHANGED versions
      /\ Answered(v, now)
      /\ UNCHANGED <<today, published, first, validators, bars, verdicts, runVars>>

\* fetch: a day not held is asked for and its file held.
Fetch(v) ==
  LET p == At(v)
      now == Len(published[p])
  IN  /\ process[v].step = "day" /\ first[p] = 0 /\ now # 0
      /\ first' = [first EXCEPT ![p] = now]
      /\ Answered(v, now)
      /\ UNCHANGED <<today, published, versions, validators, bars, verdicts, runVars>>

\* The validators of the file just held or compared; a venue may send none.
HoldValidators(v) ==
  /\ process[v].step = "validators"
  /\ validators' = [validators EXCEPT ![At(v)] = process[v].answer] \/ UNCHANGED validators
  /\ process' = [process EXCEPT ![v].step = "store", ![v].answer = 0]
  /\ UNCHANGED <<today, published, first, versions, bars, verdicts, runVars>>

\* A day not published, not served or not readable costs that day alone.
PassOver(v) ==
  /\ process[v].step \in {"day", "store"}
  /\ NextDayOf(v)
  /\ UNCHANGED <<today, published, stored, runVars>>

\* _append: a key already stored stays as it is.
Appended(b, file, asOf, chosen) ==
  [k \in Isins \X Dates |->
     IF k[2] = asOf /\ k[1] \in chosen /\ file[k[1]] # Absent /\ b[k] = Absent
     THEN file[k[1]] ELSE b[k]]

\* corrected_bars: the instruments the file gives another bar than the one standing.
Corrected(b, file) == {i \in Isins : file[i] # Standing(b, i, LastDay)}

\* A variant: the bars of a corrected file keep the trading day's date.
BarsOfTheDay(p) ==
  LET after[n \in 0 .. LastDay] ==
        IF n = 0 THEN Appended(bars[p], Content(p, first[p]), Day(p), Isins)
        ELSE LET b == after[n - 1]
             IN  IF versions[p][n] = 0 THEN b
                 ELSE Appended(b, Content(p, versions[p][n]), Day(p),
                               Corrected(b, Content(p, versions[p][n])))
  IN  after[LastDay]

\* The first copy's bars dated the day itself, and then each corrected copy's,
\* in the order they were noticed, dated the day noticed.
BarsOf(p) ==
  LET after[n \in 0 .. LastDay] ==
        IF n = 0 THEN Appended(bars[p], Content(p, first[p]), Day(p), Isins)
        ELSE LET b == after[n - 1]
             IN  IF versions[p][n] = 0 THEN b
                 ELSE Appended(b, Content(p, versions[p][n]), n,
                               Corrected(b, Content(p, versions[p][n])))
  IN  after[LastDay]

\* One transaction, one venue at a time by the advisory lock.
Store(v) ==
  /\ process[v].step = "store"
  /\ bars' = [bars EXCEPT ![At(v)] = BarsOf(At(v))]
  /\ process' = [process EXCEPT ![v].step = "stored"]
  /\ UNCHANGED <<today, published, first, versions, validators, verdicts, runVars>>

CloseDay(v) ==
  /\ process[v].step = "stored"
  /\ NextDayOf(v)
  /\ UNCHANGED <<today, published, stored, runVars>>

\* The process is killed, a transaction it has open undone.
Kill(v) ==
  /\ process[v].step \notin {"off", "done", "killed"}
  /\ process' = [process EXCEPT ![v] = Idle("killed")]
  /\ UNCHANGED <<today, published, stored, runVars>>

-----------------------------------------------------------------------------
(* record_verdicts.                                                        *)

LatestVerdict(w, p) ==
  LET drawn == {n \in Dates : w[p][n] # NoVerdict}
  IN  IF drawn = {} THEN NoVerdict ELSE w[p][Newest(drawn)]

HeldAt(p) == {i \in Isins : Standing(bars[p], i, LastDay) # Absent}

\* divergences: the instruments whose venues give the day different values.
Diverging(d) ==
  {i \in Isins : \E v, u \in Venues :
     /\ i \in HeldAt(<<v, d>>) /\ i \in HeldAt(<<u, d>>)
     /\ Standing(bars[<<v, d>>], i, LastDay) # Standing(bars[<<u, d>>], i, LastDay)}

\* A variant: a day any venue has a verdict on is not awaiting one.
AwaitingAny ==
  {d \in TradeDays :
     /\ \E v \in Venues : HoldsBars(<<v, d>>)
     /\ \A v \in Venues : LatestVerdict(verdicts, <<v, d>>) = NoVerdict}

\* days_awaiting_a_verdict: a bar newer than every verdict of its venue.
Awaiting ==
  {d \in TradeDays : \E v \in Venues, n \in Dates :
     /\ \E i \in Isins : bars[<<v, d>>][<<i, n>>] # Absent
     /\ \A m \in Dates : verdicts[<<v, d>>][m] # NoVerdict => m < n}

\* days_whose_bars_changed: not as many bars as the latest verdict counted.
Changed ==
  {d \in TradeDays : \E v \in Venues :
     /\ HoldsBars(<<v, d>>)
     /\ LatestVerdict(verdicts, <<v, d>>) # NoVerdict
     /\ LatestVerdict(verdicts, <<v, d>>).bars # Cardinality(HeldAt(<<v, d>>))}

\* days_whose_venues_disagree, of the verdicts w.
Disagreeing(w) ==
  {d \in TradeDays : \E v, u \in Venues :
     LET a == LatestVerdict(w, <<v, d>>)
         b == LatestVerdict(w, <<u, d>>)
     IN  a # NoVerdict /\ b # NoVerdict /\ a.divergent # b.divergent}

\* judge and persist_verdicts: each venue's verdict on each day, dated the day
\* where it is the venue's first, and left out where one has its date.
Judged(w, days) ==
  [p \in Partitions |->
     LET date == IF LatestVerdict(w, p) = NoVerdict THEN Day(p) ELSE today
     IN  IF Day(p) \in days /\ HoldsBars(p) /\ w[p][date] = NoVerdict
         THEN [w[p] EXCEPT ![date] = [bars |-> Cardinality(HeldAt(p)),
                                      divergent |-> Cardinality(Diverging(Day(p)))]]
         ELSE w[p]]

\* A variant: the days whose venues disagree are left at that.
RecordVerdictsOnce == Judged(verdicts, Awaiting \union Changed)

RecordVerdicts ==
  LET drawn == Judged(verdicts, Awaiting \union Changed) IN Judged(drawn, Disagreeing(drawn))

RunOver ==
  /\ window # 0 /\ window' = 0
  /\ process' = [v \in Venues |-> Idle("off")]
  /\ UNCHANGED <<today, published, first, versions, validators, bars, syncs>>

\* trading_day_completeness, once both venues' days are read.
Judge ==
  /\ \A v \in Venues : process[v].step = "done"
  /\ verdicts' = RecordVerdicts
  /\ judged' = today
  /\ RunOver

\* A run one of whose processes was killed, the one that judges among them, is
\* over without a verdict.
EndRun ==
  /\ \A v \in Venues : process[v].step \in {"done", "killed"}
  /\ RunOver
  /\ UNCHANGED <<verdicts, judged>>

-----------------------------------------------------------------------------

VenueStep(v) ==
  \/ StartVenue(v) \/ LeaveHeld(v) \/ Recheck(v) \/ HoldValidators(v) \/ Fetch(v)
  \/ PassOver(v) \/ Store(v) \/ CloseDay(v) \/ Kill(v)

\* Every run there was to be is over.
Over == syncs = Syncs /\ window = 0 /\ UNCHANGED vars

Next ==
  \/ NextDay \/ StartRun \/ Judge \/ EndRun \/ Over
  \/ \E p \in Partitions, file \in Files : Publish(p, file)
  \/ \E v \in Venues : VenueStep(v)

Spec == Init /\ [][Next]_vars

-----------------------------------------------------------------------------
(* Properties.                                                             *)

Steps == {"off", "start", "day", "validators", "store", "stored", "done", "killed"}

\* Every variable has its type, a copy is of something published, and nothing
\* is known before it happened: no copy, bar or verdict is dated after today.
TypeOK ==
  /\ today \in Dates
  /\ published \in [Partitions -> Seq(Files)]
  /\ first \in [Partitions -> Copies]
  /\ versions \in [Partitions -> [Dates -> Copies]]
  /\ validators \in [Partitions -> Copies]
  /\ bars \in [Partitions -> [Isins \X Dates -> Values \union {Absent}]]
  /\ verdicts \in [Partitions -> [Dates -> Verdicts \union {NoVerdict}]]
  /\ syncs \in 0 .. Syncs /\ window \in 0 .. LastDay /\ judged \in 0 .. LastDay
  /\ process \in [Venues -> [step: Steps, at: TradeDays \union {0}, rechecked: SUBSET TradeDays,
                            noticed: 0 .. today, answer: Copies]]
  /\ \A p \in Partitions :
       /\ Len(published[p]) <= Publications
       /\ first[p] <= Len(published[p]) /\ validators[p] <= Len(published[p])
       /\ \A n \in Dates : versions[p][n] <= Len(published[p])
       /\ \A n \in Dates : n > today => /\ versions[p][n] = 0
                                        /\ verdicts[p][n] = NoVerdict
                                        /\ \A i \in Isins : bars[p][<<i, n>>] = Absent

\* A venue that would answer that the version held is current is right: the
\* file held is the one it publishes, wherever a process was killed
\* (revalidation.recheck, which holds a file before its validators).
NothingHidden ==
  \A p \in Partitions :
    validators[p] # 0 /\ validators[p] = Len(published[p])
      => Latest(p) # 0 /\ Content(p, Latest(p)) = Content(p, validators[p])

\* What stood on a date can be read as of it: when a day has been stored, the
\* bars standing on every date are those of the copy held by that date, save
\* where that copy found the key taken by the bar of an earlier publication
\* (bhavcopy.corrected_bars, facts._append).
KnownAsOf ==
  \A v \in Venues : process[v].step = "stored" =>
    \A date \in Day(At(v)) .. today, i \in Isins :
      LET p == At(v)
          held == HeldBy(p, date)
          file == Content(p, held)
          dated == IF NoticedBy(p, date) = {} THEN Day(p) ELSE Newest(NoticedBy(p, date))
      IN  file[i] # Absent =>
            \/ Standing(bars[p], i, date) = file[i]
            \/ \E copy \in 1 .. held - 1 : bars[p][<<i, dated>>] = Content(p, copy)[i]

\* "Every stored day carries a verdict": once a run has judged, no venue's day
\* holds bars and no verdict, whichever venue's bars came first.
StoredDaysJudged ==
  judged # 0 => \A p \in Partitions : HoldsBars(p) => LatestVerdict(verdicts, p) # NoVerdict

\* Once a run has judged, the venues' verdicts on a day count the same
\* divergences, unless a verdict already had the day's date ("a restatement
\* drawn on the trade date itself is refused").
VenuesAgree ==
  judged # 0 => \A d \in Disagreeing(verdicts) :
    \E v \in Venues : verdicts[<<v, d>>][judged] # NoVerdict

\* The verdict of a day known on a date (stg_trading_day).
VerdictOn(p, date) ==
  LET drawn == {n \in Dates : n <= date /\ verdicts[p][n] # NoVerdict}
  IN  IF drawn = {} THEN NoVerdict ELSE verdicts[p][Newest(drawn)]

\* A verdict read as of a date that is over is read so for good: only a day's first
\* one is stored for a date before its own, and nothing was known of the day then.
VerdictsStay ==
  \A p \in Partitions, date \in Dates :
    date < today /\ VerdictOn(p, date) # NoVerdict => VerdictOn(p, date)' = VerdictOn(p, date)

VerdictsKnownAsOf == [][VerdictsStay]_vars

\* What calendar.py says of RECHECKED_DAYS: "asking again for the two most
\* recent days held covers such a change", one made on the evening of the day
\* after the evening sync.  A day stored stands as the latest file held has it.
ChangesCovered ==
  \A v \in Venues : process[v].step = "stored" =>
    \A i \in Isins : Content(At(v), Latest(At(v)))[i] # Absent =>
      Standing(bars[At(v)], i, LastDay) = Content(At(v), Latest(At(v)))[i]

\* "A day corrected after its verdict is checked again": once a run has judged,
\* past the day itself, whose date refuses a restatement, venues that agree on
\* the divergences of a day count those of the bars standing (completeness.py's
\* docstring, history.DAYS_AWAITING_A_VERDICT).
JudgedAsCorrected ==
  \A p \in Partitions :
    judged > Day(p) /\ HoldsBars(p) /\ Day(p) \notin Disagreeing(verdicts) =>
      LatestVerdict(verdicts, p).divergent = Cardinality(Diverging(Day(p)))

=============================================================================
