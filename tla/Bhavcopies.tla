----------------------------- MODULE Bhavcopies -----------------------------
(***************************************************************************)
(* From a venue's daily files to bars and names: the adapters of           *)
(* sources/{bse, nse}/bhavcopy.py, the parsers of sources/{legacy, udiff,  *)
(* bhavcopy}.py and the loop of assets/ingestion/bhavcopy.py, run for both *)
(* venues at once, each over days of its own choosing.                     *)
(*                                                                         *)
(* A venue corrects the file of a day once at most (TradingDays is about   *)
(* the dates corrections are noticed on); whether a file is answered       *)
(* changes from request to request, and a run may end at any moment.  A    *)
(* name is the venue and day it was published on.                          *)
(***************************************************************************)
EXTENDS Integers, FiniteSets

CONSTANTS Isins,            \* the instruments
          FileDays,         \* the days asked for, as numbers
          ScripDays,        \* the days BSE's file names no ISIN
          Published,        \* the rows of each venue's file of each day
          Corrected,        \* those of the corrected one, none where there is none
          UnreadableShare,  \* UNREADABLE_SHARE, in percent
          UnresolvedShare,  \* UNRESOLVED_SHARE, in percent
          ChunkDays,        \* the days whose bars open a chunk of price_daily
          MaxRuns           \* a bound: the runs of each venue

Exchanges == {"BSE", "NSE"}
NoIsin    == 0
Unnamed   == <<"none", 0>>

\* A line of a file; only an equity line that reads as a bar becomes one.
FileRow == [isin: Isins \union {NoIsin}, code: Nat, trades: Nat,
            second: BOOLEAN,             \* numbered as a second line
            equity: BOOLEAN, readable: BOOLEAN]

ASSUME BhavcopiesAssumption ==
  /\ Isins \subseteq Nat \ {NoIsin}
  /\ FileDays \subseteq Nat \ {0} /\ ScripDays \subseteq FileDays /\ IsFiniteSet(FileDays)
  /\ {Published, Corrected} \subseteq [Exchanges -> [FileDays -> SUBSET FileRow]]
  /\ \A v \in Exchanges, d \in FileDays:
       IsFiniteSet(Published[v][d]) /\ IsFiniteSet(Corrected[v][d])
  /\ {UnreadableShare, UnresolvedShare} \subseteq 0 .. 100
  /\ MaxRuns \in [Exchanges -> Nat]

\* A bar of price_daily, and the state of one venue's run.
StoredBar == [isin: Isins, venue: Exchanges, day: FileDays, code: Nat]
FileRun   == [phase: {"idle", "reading", "waiting", "turn", "introduced"},
              left: SUBSET FileDays, day: FileDays \union {0},
              bars: SUBSET StoredBar,             \* of the day's file
              changed: SUBSET StoredBar,          \* of the corrected one
              read: [Isins -> FileDays \union {0}]]     \* read_names

NotRunning == [phase |-> "idle", left |-> {}, day |-> 0, bars |-> {},
               changed |-> {}, read |-> [i \in Isins |-> 0]]

VARIABLES copies,       \* the cache: what is held of each venue's day
          stored,       \* the bars committed
          names,        \* instrument_master: the name of each instrument known
          fileRuns,     \* each venue's run
          outcomes,     \* ingestion_log's last outcome of each venue's day
          runsLeft,
          \* the latest day of an instrument in each run that came to its end: this
          \* names, and no step reads it
          namedAt

fileVars == <<copies, stored, names, fileRuns, outcomes, runsLeft, namedAt>>

BhavcopiesTypeOK ==
  /\ copies \in [Exchanges -> [FileDays -> {"none", "file", "broken", "corrected"}]]
  /\ stored \subseteq StoredBar
  /\ names \in [Isins -> {Unnamed} \union (Exchanges \X FileDays)]
  /\ fileRuns \in [Exchanges -> FileRun]
  /\ outcomes \in [Exchanges -> [FileDays -> {"none", "succeeded", "not_published", "failed"}]]
  /\ runsLeft \in [Exchanges -> Nat] /\ \A v \in Exchanges: runsLeft[v] <= MaxRuns[v]
  /\ namedAt \subseteq Isins \X Exchanges \X FileDays

-----------------------------------------------------------------------------
(* Reading one file.                                                       *)

TooMany(bad, all, share) == bad # {} /\ Cardinality(bad) * 100 > share * Cardinality(all)

\* validated: the few lines that are no bars are left out, many refuse the day.
Misread(rows) == TooMany({r \in rows: ~r.readable}, rows, UnreadableShare)

\* isins_by_scrip_code: the ISIN whose stored bars under the code lie nearest.
Distance(code, isin, d) ==
  LET under == {b.day: b \in {s \in stored: /\ s.venue = "BSE" /\ s.code = code
                                            /\ s.isin = isin /\ s.day # d}}
      first == CHOOSE e \in under: \A f \in under: e <= f
      last  == CHOOSE e \in under: \A f \in under: f <= e
  IN  IF d < first THEN first - d ELSE IF last < d THEN d - last ELSE 0

IsinForCode(code, d) ==
  LET known   == {b.isin: b \in {s \in stored: s.venue = "BSE" /\ s.code = code /\ s.day # d}}
      nearest == {i \in known: \A j \in known: Distance(code, i, d) <= Distance(code, j, d)}
  IN  IF Cardinality(nearest) = 1 THEN CHOOSE i \in nearest: TRUE ELSE NoIsin

\* normalize: the equity lines that read as bars.
Equity(rows) == {q \in rows: q.readable /\ q.equity}

\* Those of a day's file, with named_by_isin on the days that name none.
EquityLines(v, d) ==
  {IF v = "BSE" /\ d \in ScripDays THEN [r EXCEPT !.isin = IsinForCode(r.code, d)] ELSE r:
     r \in Equity(Published[v][d])}

Nameless(lines) == {r \in lines: r.isin = NoIsin}

\* resolvable refuses the day.
Unresolved(lines) == TooMany(Nameless(lines), lines, UnresolvedShare)

\* ordinary_lines: of an instrument's lines, the busiest that is no second line.
OrdinaryLine(lines, isin) ==
  LET own  == {r \in lines: r.isin = isin}
      main == IF \E r \in own: ~r.second THEN {r \in own: ~r.second} ELSE own
  IN  CHOOSE r \in main: \A q \in main: q.trades <= r.trades

\* The bars of a venue's day: a bar for each instrument the lines name.
BarsOf(v, d, lines) ==
  {[isin |-> i, venue |-> v, day |-> d, code |-> OrdinaryLine(lines, i).code]:
     i \in {r.isin: r \in lines \ Nameless(lines)}}

\* A day is refused where its file or the corrected one held misreads, and where the
\* file's lines resolve badly.
DayRefused(v, d, copy) ==
  \/ Misread(Published[v][d]) \/ Unresolved(EquityLines(v, d))
  \/ copy = "corrected" /\ Misread(Corrected[v][d])

\* What a request may be answered with: BSE serves its home page for a file it
\* does not hold, NSE an archive that is not one.
FileAnswers(v) == {"absent", "down", "file", IF v = "BSE" THEN "page" ELSE "broken"}

\* BSE's page is refused before it is held, NSE's archive held before it is opened.
HeldAfter(v, answer) ==
  IF answer \in {"file", "broken", "corrected"} THEN answer ELSE "none"

\* What a run reads a day from: the copy held, beside it the corrected file where one
\* is noticed, or what the venue answers.
CopyRead(v, d) ==
  IF copies[v][d] = "none" THEN FileAnswers(v)
  ELSE {copies[v][d]} \union (IF /\ copies[v][d] = "file" /\ Corrected[v][d] # {}
                                 /\ ~(v = "BSE" /\ d \in ScripDays)
                              THEN {"corrected"} ELSE {})

-----------------------------------------------------------------------------
(* One venue's run.                                                        *)

\* The ingestion of a window of days; a venue has one run at a time.
StartFiles(v, window) ==
  /\ fileRuns[v].phase = "idle" /\ runsLeft[v] > 0
  /\ fileRuns' = [fileRuns EXCEPT ![v] = [NotRunning EXCEPT !.phase = "reading", !.left = window]]
  /\ runsLeft' = [runsLeft EXCEPT ![v] = @ - 1]
  /\ UNCHANGED <<copies, stored, names, outcomes, namedAt>>

\* reading_order: the days in order, BSE's scrip code days after the others.
NextToRead(v) ==
  LET left == fileRuns[v].left
      main == IF v = "BSE" /\ left \ ScripDays # {} THEN left \ ScripDays ELSE left
  IN  CHOOSE d \in main: \A e \in main: d <= e

PassOverDay(v, d, outcome) ==
  /\ outcomes' = [outcomes EXCEPT ![v][d] = outcome]
  /\ fileRuns' = [fileRuns EXCEPT ![v].left = @ \ {d}]

\* recheck, fetch, parse and resolve a day; what fails costs that day alone.
ReadFile(v) ==
  LET d == NextToRead(v)
  IN  /\ fileRuns[v].phase = "reading" /\ fileRuns[v].left # {}
      /\ \E copy \in CopyRead(v, d):
           /\ copies' = [copies EXCEPT ![v][d] = HeldAfter(v, copy)]
           /\ \/ copy \in {"absent", "page"} /\ PassOverDay(v, d, "not_published")
              \/ /\ \/ copy \in {"down", "broken"}
                    \/ copy \in {"file", "corrected"} /\ DayRefused(v, d, copy)
                 /\ PassOverDay(v, d, "failed")
              \/ /\ copy \in {"file", "corrected"} /\ ~DayRefused(v, d, copy)
                 /\ fileRuns' = [fileRuns EXCEPT ![v].phase = "waiting", ![v].day = d,
                      ![v].bars = BarsOf(v, d, EquityLines(v, d)),
                      ![v].changed = IF copy = "corrected"
                                     THEN BarsOf(v, d, Equity(Corrected[v][d])) ELSE {}]
                 /\ UNCHANGED outcomes
      /\ UNCHANGED <<stored, names, runsLeft, namedAt>>

\* Variant: no run waits for another's writes.
NoTurns(v) == FALSE

\* The run has taken the lock its transaction's end gives up.
HoldsTurn(v) == fileRuns[v].phase \in {"turn", "introduced"}

\* hold_instrument_writes: one run at a time, until its transaction ends.
TakeTurn(v) ==
  /\ fileRuns[v].phase = "waiting"
  /\ \A u \in Exchanges: ~HoldsTurn(u)
  /\ fileRuns' = [fileRuns EXCEPT ![v].phase = "turn"]
  /\ UNCHANGED <<copies, stored, names, outcomes, runsLeft, namedAt>>

Names(v) == v # "BSE" \/ fileRuns[v].day \notin ScripDays

\* persist_identity inserts the instruments the day introduces, which locks their
\* rows until the commit; the names read are remembered.
Introduce(v) ==
  LET run  == fileRuns[v]
      seen == {b.isin: b \in run.bars}
  IN  /\ run.phase = "turn"
      /\ fileRuns' = [fileRuns EXCEPT
           ![v].phase = "introduced",
           ![v].read = [i \in Isins |-> IF Names(v) /\ i \in seen /\ run.day > run.read[i]
                                        THEN run.day ELSE run.read[i]]]
      /\ UNCHANGED <<copies, stored, names, outcomes, runsLeft, namedAt>>

\* A day that opens a chunk locks instrument_master for its foreign key, and so
\* waits for every other run that has inserted there and not committed.
OpensChunk(v) == fileRuns[v].day \in ChunkDays /\ \A b \in stored: b.day # fileRuns[v].day

WaitsFor(v, u) == /\ u # v /\ fileRuns[v].phase = "introduced" /\ OpensChunk(v)
                  /\ fileRuns[u].phase = "introduced"

\* The instruments a run's day inserts: those of its file where it names any, and
\* those of the bars a corrected one brings, which no name is remembered of.
Brought(v) == {b.isin: b \in (IF Names(v) THEN fileRuns[v].bars ELSE {}) \union fileRuns[v].changed}

\* persist_bars, the corrected file's bars after, and the commit; the foreign keys
\* hold by then.  A corrected file that resolves badly ends the run instead.
StoreFile(v) ==
  LET run == fileRuns[v]
  IN  /\ run.phase = "introduced"
      /\ \A u \in Exchanges: ~WaitsFor(v, u)
      /\ run.changed = {} \/ ~Unresolved(Equity(Corrected[v][run.day]))
      /\ stored' = stored \union run.bars \union run.changed
      /\ names' = [i \in Isins |-> IF i \in Brought(v) /\ names[i] = Unnamed
                                   THEN <<v, run.day>> ELSE names[i]]
      /\ outcomes' = [outcomes EXCEPT ![v][run.day] = "succeeded"]
      /\ fileRuns' = [fileRuns EXCEPT ![v] = [NotRunning EXCEPT !.phase = "reading",
                        !.left = run.left \ {run.day}, !.read = run.read]]
      /\ UNCHANGED <<copies, runsLeft, namedAt>>

LatestDay(isin, venues) ==
  LET days == {b.day: b \in {s \in stored: s.isin = isin /\ s.venue \in venues}}
  IN  IF days = {} THEN 0 ELSE CHOOSE d \in days: \A e \in days: e <= d

\* Variant: a name read stands whatever bars were stored meanwhile.
RenamesAlways(v, isin) == fileRuns[v].read[isin] # 0

\* name_instruments: a name read is written where no later bar is stored, and
\* where another venue traded that day by BSE alone.
Renames(v, isin) ==
  LET day == fileRuns[v].read[isin]
  IN  /\ day # 0
      /\ LatestDay(isin, Exchanges) <= day
      /\ v = "BSE" \/ LatestDay(isin, Exchanges \ {v}) # day

\* After the last day the run waits its turn once more and names instruments.
NameInstruments(v) ==
  LET read == fileRuns[v].read
  IN  /\ fileRuns[v].phase = "reading" /\ fileRuns[v].left = {}
      /\ \A u \in Exchanges: ~HoldsTurn(u)
      /\ names' = [i \in Isins |-> IF Renames(v, i) THEN <<v, read[i]>> ELSE names[i]]
      /\ fileRuns' = [fileRuns EXCEPT ![v] = NotRunning]
      /\ namedAt' = namedAt \union {<<i, v, read[i]>>: i \in {j \in Isins: read[j] # 0}}
      /\ UNCHANGED <<copies, stored, outcomes, runsLeft>>

\* A run killed, or ended by an exception: "a run interrupted part way keeps what it
\* read", its transaction is undone, and it names nothing.
Interrupt(v) ==
  /\ fileRuns[v].phase # "idle"
  /\ fileRuns' = [fileRuns EXCEPT ![v] = NotRunning]
  /\ UNCHANGED <<copies, stored, names, outcomes, runsLeft, namedAt>>

BhavcopiesInit ==
  /\ copies = [v \in Exchanges |-> [d \in FileDays |-> "none"]]
  /\ stored = {}
  /\ names = [i \in Isins |-> Unnamed]
  /\ fileRuns = [v \in Exchanges |-> NotRunning]
  /\ outcomes = [v \in Exchanges |-> [d \in FileDays |-> "none"]]
  /\ runsLeft = MaxRuns
  /\ namedAt = {}

BhavcopiesNext ==
  \E v \in Exchanges:
    \/ \E window \in SUBSET FileDays \ {{}}: StartFiles(v, window)
    \/ ReadFile(v) \/ TakeTurn(v) \/ Introduce(v) \/ StoreFile(v) \/ NameInstruments(v)
    \/ Interrupt(v)

BhavcopiesSpec == BhavcopiesInit /\ [][BhavcopiesNext]_fileVars

-----------------------------------------------------------------------------

\* "The name that stands does not depend on the order days or venues are read
\* in": once a run has come to its end that read the latest stored day of an
\* instrument, BSE's where both venues have a bar of it, the instrument is named as
\* that day named it, whatever was read before or since.  The name can lag behind
\* the latest bar only where no such run has: it was ended before it named, the day
\* names no instrument, or a corrected file alone brought the bar.
NamesFollowLatestDay ==
  \A i \in {b.isin: b \in stored}:
    LET d == LatestDay(i, Exchanges)
        v == IF \E b \in stored: b.isin = i /\ b.day = d /\ b.venue = "BSE" THEN "BSE" ELSE "NSE"
    IN  <<i, v, d>> \in namedAt => names[i] = <<v, d>>

\* Runs of both venues write instruments and bars at once without each holding
\* what the other waits for, and no bar names an instrument the master lacks.
WritersTakeTurns ==
  /\ ~(WaitsFor("BSE", "NSE") /\ WaitsFor("NSE", "BSE"))
  /\ \A b \in stored: names[b.isin] # Unnamed

\* What two venues' runs may do to each other: neither blocks the other for
\* good, and the name that stands is not whichever run ended last.
BothVenuesWriteSafely == WritersTakeTurns /\ NamesFollowLatestDay
=============================================================================
