------------------------------ MODULE Deliveries ------------------------------
(***************************************************************************)
(* Delivery figures of one venue, read a trading day at a time: the parsers *)
(* of sources/delivery.py, the adapters of sources/{bse, nse}/delivery.py   *)
(* and the loop of assets/ingestion/delivery.py.                            *)
(*                                                                         *)
(* A file names an instrument by the venue's identifier, so a row belongs  *)
(* to whatever listing identity has derived for the day, and is stored     *)
(* only beside a bar.  NSE publishes the figures in two files, BSE in one. *)
(* A file's content is a number, Figures what each content states.         *)
(***************************************************************************)
EXTENDS Integers, FiniteSets

CONSTANTS SettledDays,      \* the trading days
          LastNotice,       \* dates run on to LastNotice
          Identifiers,      \* scrip codes or tickers
          Owners,           \* ISINs
          Contents,         \* the contents a file of a day may have
          Figures,          \* what each states: [Identifiers -> quantity or NoFigure]
          Derivations,      \* the listings identity has derived, by stage
          Priced,           \* the ISINs each day's price file gives a bar
          RecheckedDays,    \* RECHECKED_DAYS
          MaxRereads        \* a bound: the runs in a behaviour

NoFigure == -1
NoticeDates == 1 .. LastNotice
InForce  == [key: Identifiers, isin: Owners, first: Nat, last: Nat]

ASSUME DeliveriesAssumption ==
  /\ LastNotice \in Nat /\ SettledDays \subseteq NoticeDates /\ SettledDays # {}
  /\ Contents \subseteq Nat \ {0}
  /\ Figures \in [Contents -> [Identifiers -> Nat \union {NoFigure}]]
  /\ Derivations \in [1 .. 2 -> SUBSET InForce]
  /\ Priced \in [SettledDays -> SUBSET Owners]
  /\ RecheckedDays \in Nat /\ MaxRereads \in Nat

Missing == 0                   \* no content held, no file published
Figure  == [isin: Owners, day: SettledDays, asOf: NoticeDates, quantity: Nat]
Progress == [rest: SUBSET SettledDays,      \* the days still to read
             again: SUBSET SettledDays,     \* those to ask for once more first
             file: {Missing} \union Contents]   \* what was read of the first of them
AtRest   == [rest |-> {}, again |-> {}, file |-> Missing]

VARIABLES market,        \* the venue followed
          date,
          posted,        \* the content of each day's file now
          fullCopy,      \* the registered file held of each day
          otherCopy,     \* NSE's other file held of each day
          corrected,     \* the corrected files held, by the date noticed
          settled,       \* delivery_daily
          priceLog,      \* the price log's last outcome of each day
          stage,         \* the stage identity has reached
          deliveryLog,   \* the last outcome of each day
          progress, rereads

deliveryVars == <<market, date, posted, fullCopy, otherCopy, corrected, settled, priceLog,
                  stage, deliveryLog, progress, rereads>>

DeliveriesTypeOK ==
  /\ market \in {"BSE", "NSE"} /\ date \in NoticeDates
  /\ posted \in [SettledDays -> {Missing} \union Contents]
  /\ fullCopy \in [SettledDays -> {Missing} \union Contents]
  /\ otherCopy \in [SettledDays -> {Missing} \union Contents]
  /\ corrected \in [SettledDays -> [NoticeDates -> {Missing} \union Contents]]
  /\ settled \subseteq Figure
  /\ priceLog \in [SettledDays -> {"none", "not_published", "succeeded"}]
  /\ stage \in 1 .. 2
  /\ deliveryLog \in [SettledDays -> {"none", "succeeded", "not_published", "failed"}]
  /\ progress \in Progress /\ rereads \in 0 .. MaxRereads

-----------------------------------------------------------------------------
(* What is read out of a file, and what is held.                           *)

\* latest: the last corrected file noticed, the first copy where there is none.
LatestCopy(d) ==
  LET noticed == {n \in NoticeDates: corrected[d][n] # Missing}
  IN  IF noticed = {} THEN fullCopy[d]
      ELSE corrected[d][CHOOSE n \in noticed: \A k \in noticed: k <= n]

\* resolver: the ISIN whose listing under the identifier was in force that day.
OwnersOf(key, d) ==
  {l.isin: l \in {f \in Derivations[stage]: /\ f.key = key /\ f.first <= d
                                            /\ (f.last = 0 \/ d <= f.last)}}

HasBar(isin, d) == priceLog[d] = "succeeded" /\ isin \in Priced[d]

Resolved(content, d) ==
  LET keys == {k \in Identifiers: Figures[content][k] # NoFigure /\ OwnersOf(k, d) # {}}
  IN  {[isin |-> CHOOSE i \in OwnersOf(k, d): TRUE, quantity |-> Figures[content][k]]: k \in keys}

\* A variant: figures are stored whether or not the day has a bar.
AllFiguresOf(content, d) == Resolved(content, d)

FiguresOf(content, d) == {f \in Resolved(content, d): HasBar(f.isin, d)}

\* persist_delivery: a figure of an instrument, day and date already stored stands,
\* and of two figures of an instrument in one file the first read is stored.
Written(rows, figures, d, n) ==
  LET fresh == {i \in Owners: /\ \E f \in figures: f.isin = i
                              /\ ~\E r \in rows: r.isin = i /\ r.day = d /\ r.asOf = n}
      first(i) == CHOOSE f \in figures: f.isin = i
  IN  rows \union {[isin |-> i, day |-> d, asOf |-> n, quantity |-> first(i).quantity]: i \in fresh}

\* STANDING: the version with the latest as-of date.
StandingFigures(rows, isin, d, upTo) ==
  LET own == {r \in rows: r.isin = isin /\ r.day = d /\ r.asOf <= upTo}
  IN  {r.quantity: r \in {q \in own: \A o \in own: o.asOf <= q.asOf}}

\* A variant: every corrected file is compared with what stood before the run.
ChangedAtFirst(rows, d, n) ==
  {f \in FiguresOf(corrected[d][n], d): StandingFigures(settled, f.isin, d, LastNotice) # {f.quantity}}

\* corrected_delivery: the figures of a corrected file that differ from the standing.
Changed(rows, d, n) ==
  {f \in FiguresOf(corrected[d][n], d): StandingFigures(rows, f.isin, d, LastNotice) # {f.quantity}}

\* The corrected files in the order they were noticed, each stored over those before.
WithCorrections(rows, d) ==
  LET after[n \in 0 .. LastNotice] ==
        IF n = 0 THEN rows
        ELSE IF corrected[d][n] = Missing THEN after[n - 1]
        ELSE Written(after[n - 1], Changed(after[n - 1], d, n), d, n)
  IN  after[LastNotice]

-----------------------------------------------------------------------------
(* A run: each day asked for again, read, and committed.                   *)

Reading == progress.rest # {}
Day     == CHOOSE d \in progress.rest: \A e \in progress.rest: d <= e

\* latest_days_held: of the days with a figure, the last RecheckedDays.
LatestSettled ==
  LET days == {r.day: r \in settled}
  IN  {d \in days: Cardinality({e \in days: e > d}) < RecheckedDays}

\* Only the scheduled sync asks again for what is held.
StartDelivery ==
  /\ ~Reading /\ rereads < MaxRereads
  /\ \E again \in {{}, LatestSettled}:
       progress' = [rest |-> SettledDays, again |-> again, file |-> Missing]
  /\ rereads' = rereads + 1
  /\ UNCHANGED <<market, date, posted, fullCopy, otherCopy, corrected, settled, priceLog,
                 stage, deliveryLog>>

\* recheck: a changed file is held under the date it was noticed, over one held
\* under that date already (cache.write_version).  A day whose registered file is
\* not held, or that cannot be read now, is left as it is.
RecheckDelivery ==
  LET d == Day
  IN  /\ Reading /\ d \in progress.again
      /\ progress' = [progress EXCEPT !.again = @ \ {d}]
      /\ \/ UNCHANGED corrected
         \/ /\ fullCopy[d] # Missing /\ posted[d] \notin {Missing, LatestCopy(d)}
            /\ corrected' = [corrected EXCEPT ![d][date] = posted[d]]
      /\ UNCHANGED <<market, date, posted, fullCopy, otherCopy, settled, priceLog, stage,
                     deliveryLog, rereads>>

\* What a request is answered with: NSE serves another day's file for some days,
\* and a file of another day is never held.
Serves(d) == {"absent", "wrong day", "unavailable"}
               \union (IF posted[d] = Missing THEN {} ELSE {"file"})

\* outcome_for: unpublished, unless a venue that traded served a wrong file.
OutcomeFor(failures, session) ==
  IF failures = {"absent"} \/ (~session /\ failures \subseteq {"absent", "wrong day"})
  THEN "not_published" ELSE "failed"

PassOver(d, outcome) ==
  /\ deliveryLog' = [deliveryLog EXCEPT ![d] = outcome]
  /\ progress' = [progress EXCEPT !.rest = @ \ {d}]

Read(content) == progress' = [progress EXCEPT !.file = content]

\* read_day, then NSE's other file on a day the venue held a session.
FetchDelivery ==
  LET d == Day
      session == priceLog[d] # "not_published"
      fallback == market = "NSE" /\ session
  IN  /\ Reading /\ d \notin progress.again /\ progress.file = Missing
      /\ \/ /\ fullCopy[d] # Missing
            /\ Read(fullCopy[d])
            /\ UNCHANGED <<fullCopy, otherCopy, deliveryLog>>
         \/ /\ fullCopy[d] = Missing /\ "file" \in Serves(d)
            /\ Read(posted[d])
            /\ fullCopy' = [fullCopy EXCEPT ![d] = posted[d]]
            /\ UNCHANGED <<otherCopy, deliveryLog>>
         \/ \E first \in Serves(d) \ {"file"}:
              /\ fullCopy[d] = Missing
              /\ \/ /\ ~fallback
                    /\ PassOver(d, OutcomeFor({first}, session))
                    /\ UNCHANGED otherCopy
                 \/ /\ fallback /\ otherCopy[d] # Missing
                    /\ Read(otherCopy[d])
                    /\ UNCHANGED <<otherCopy, deliveryLog>>
                 \/ /\ fallback /\ otherCopy[d] = Missing /\ "file" \in Serves(d)
                    /\ Read(posted[d])
                    /\ otherCopy' = [otherCopy EXCEPT ![d] = posted[d]]
                    /\ UNCHANGED deliveryLog
                 \/ \E second \in Serves(d) \ {"file"}:
                      /\ fallback /\ otherCopy[d] = Missing
                      /\ PassOver(d, OutcomeFor({first, second}, session))
                      /\ UNCHANGED otherCopy
              /\ UNCHANGED fullCopy
      /\ UNCHANGED <<market, date, posted, corrected, settled, priceLog, stage, rereads>>

\* The day's figures, those of its corrected files, and the commit.
CommitDelivery ==
  LET d == Day
      base == Written(settled, FiguresOf(progress.file, d), d, d)
  IN  /\ Reading /\ progress.file # Missing
      /\ settled' = WithCorrections(base, d)
      /\ deliveryLog' = [deliveryLog EXCEPT ![d] = "succeeded"]
      /\ progress' = [progress EXCEPT !.rest = @ \ {d}, !.file = Missing]
      /\ UNCHANGED <<market, date, posted, fullCopy, otherCopy, corrected, priceLog, stage, rereads>>

KillDelivery ==
  /\ Reading
  /\ progress' = AtRest
  /\ UNCHANGED <<market, date, posted, fullCopy, otherCopy, corrected, settled, priceLog,
                 stage, deliveryLog, rereads>>

-----------------------------------------------------------------------------
(* Between runs.                                                           *)

\* The venue publishes or corrects a day's file, on any date and during a run too.
PostDelivery(d) ==
  /\ posted[d] + 1 \in Contents
  /\ posted' = [posted EXCEPT ![d] = @ + 1]
  /\ UNCHANGED <<market, date, fullCopy, otherCopy, corrected, settled, priceLog, stage,
                 deliveryLog, progress, rereads>>

PassDate ==
  /\ ~Reading /\ date < LastNotice
  /\ date' = date + 1
  /\ UNCHANGED <<market, posted, fullCopy, otherCopy, corrected, settled, priceLog, stage,
                 deliveryLog, progress, rereads>>

\* The price run reads the day, or finds it unpublished.
ReadPrices(d, outcome) ==
  /\ ~Reading /\ priceLog[d] \notin {outcome, "succeeded"}
  /\ priceLog' = [priceLog EXCEPT ![d] = outcome]
  /\ UNCHANGED <<market, date, posted, fullCopy, otherCopy, corrected, settled, stage,
                 deliveryLog, progress, rereads>>

\* instrument_identity is derived again, from bars the earlier run had not.
DeriveListingsAgain ==
  /\ ~Reading /\ stage = 1
  /\ stage' = 2
  /\ UNCHANGED <<market, date, posted, fullCopy, otherCopy, corrected, settled, priceLog,
                 deliveryLog, progress, rereads>>

DeliveriesInit ==
  /\ market \in {"BSE", "NSE"}
  /\ date = CHOOSE d \in SettledDays: \A e \in SettledDays: e <= d
  /\ posted = [d \in SettledDays |-> Missing]
  /\ fullCopy = [d \in SettledDays |-> Missing] /\ otherCopy = fullCopy
  /\ corrected = [d \in SettledDays |-> [n \in NoticeDates |-> Missing]]
  /\ settled = {} /\ stage = 1
  /\ priceLog = [d \in SettledDays |-> "none"] /\ deliveryLog = priceLog
  /\ progress = AtRest /\ rereads = 0

DeliveriesNext ==
  \/ StartDelivery \/ RecheckDelivery \/ FetchDelivery \/ CommitDelivery \/ KillDelivery
  \/ \E d \in SettledDays:
       \/ PostDelivery(d)
       \/ \E outcome \in {"not_published", "succeeded"}: ReadPrices(d, outcome)
  \/ PassDate \/ DeriveListingsAgain

DeliveriesSpec == DeliveriesInit /\ [][DeliveriesNext]_deliveryVars

-----------------------------------------------------------------------------
(* What identity gives over all its derivations, and what must hold.       *)

\* An instrument is listed under an identifier on a day, by one derivation or another.
ListedUnder(d, k, i) ==
  \E l \in Derivations[1] \union Derivations[2]:
    l.key = k /\ l.isin = i /\ l.first <= d /\ (l.last = 0 \/ d <= l.last)

\* What a theorem assumes of the listings, which are read off the same price files:
\* of the instruments with a bar on a day, one is listed under an identifier.
OneOwnerEach ==
  \A d \in SettledDays, k \in Identifiers: \A i, j \in Priced[d]:
    ListedUnder(d, k, i) /\ ListedUnder(d, k, j) => i = j

\* An instrument is listed under a single identifier on a day.
OneIdentifier(d, i) ==
  \A k, m \in Identifiers: ListedUnder(d, k, i) /\ ListedUnder(d, m, i) => k = m

\* A content states a quantity of an instrument on a day.
States(c, d, i, q) ==
  \E k \in Identifiers: ListedUnder(d, k, i) /\ Figures[c][k] = q /\ q # NoFigure

\* The dates a day's corrections were noticed on, up to a date, and the last of
\* them: the day itself where there is none.
NoticedBy(d, n) == {k \in NoticeDates: k <= n /\ corrected[d][k] # Missing}

NoticedOn(d, n) ==
  IF NoticedBy(d, n) = {} THEN d
  ELSE CHOOSE k \in NoticedBy(d, n): \A j \in NoticedBy(d, n): j <= k

\* The content of a day's file as it was known on a date.
KnownFile(d, n) ==
  IF NoticedBy(d, n) = {} THEN fullCopy[d] ELSE corrected[d][NoticedOn(d, n)]

\* An earlier publication's figure is stored under the date a file was noticed on.
Forestalled(rows, d, i, n) ==
  \E r \in rows, c \in Contents:
    /\ r.isin = i /\ r.day = d /\ r.asOf = NoticedOn(d, n)
    /\ c < KnownFile(d, n) /\ States(c, d, i, r.quantity)

\* Once a day is read, what was known of it on every date can be read as of that
\* date, however its corrections were noticed, lost with a killed run and stored
\* again, save where the date the file was noticed on has the figure of an earlier
\* publication: the second correction noticed on a date, or one noticed on the
\* trade date itself, is held and its figures are not stored ("on conflict do
\* nothing"), as ChangesCovered shows of bars.  Left out as well are days
\* first read from NSE's other file, where a correction already in the registered
\* file when that is first held is never noticed, and instruments listed under two
\* identifiers, of which the file's first is stored.
FiguresKnownAsOf ==
  [][CommitDelivery =>
       LET d == Day
       IN  fullCopy[d] # Missing /\ otherCopy[d] \in {Missing, fullCopy[d]}
             => \A n \in d .. LastNotice: \A f \in FiguresOf(KnownFile(d, n), d):
                  OneIdentifier(d, f.isin) =>
                    \/ StandingFigures(settled', f.isin, d, n) = {f.quantity}
                    \/ Forestalled(settled', d, f.isin, n)]_deliveryVars

\* A day's figure under one identifier counts for one instrument, whichever
\* listings identity had derived when the file was read: a row resolved through
\* a listing not yet closed finds no bar to stand beside.
OneOwnerOfAFigure ==
  \A r, s \in settled:
    r.day = s.day /\ r.isin # s.isin
    => ~\E k \in Identifiers: ListedUnder(r.day, k, r.isin) /\ ListedUnder(r.day, k, s.isin)
=============================================================================
