------------------------------- MODULE Features -------------------------------
(***************************************************************************)
(* The daily feature rows of one instrument: which venue's bar a day's row  *)
(* takes (engine/src/venues.cpp), what its figures read and how it is dated *)
(* (feature_inputs.py, feature_derivation.py, venue_comparison.py), while   *)
(* bars and deliveries arrive and are corrected, days are judged, and the   *)
(* bars that stand and the actions applied change with what dbt selects     *)
(* (int_continuous_prices.sql, int_capital_action_factors.sql).            *)
(*                                                                         *)
(* A figure stands for every engine column: it reads the venue's bars up to *)
(* its day, each in the day's own price scale.  An action doubles the      *)
(* shares, so a scale is the count of actions still ahead of a bar.        *)
(***************************************************************************)
EXTENDS Integers, FiniteSets

CONSTANTS LastTradeDay,     \* the days of the series
          LastKnownDay,     \* a bound: the date a behaviour ends on
          MonthLength,      \* days of a month
          WindowDays,       \* kWindowDays
          Bars,             \* what a file may state: [close, turnover]
          Shares,           \* and what one of deliveries may
          OtherBars,        \* bars traded under the instrument's other ISINs
          MaxFacts,         \* a bound: the facts in a behaviour
          MaxComputations   \* a bound: the computations in it

ASSUME FeaturesAssumption ==
  /\ {LastTradeDay, LastKnownDay, MonthLength, WindowDays, MaxFacts,
      MaxComputations} \subseteq Nat
  /\ 0 < MonthLength /\ 0 < LastTradeDay /\ LastTradeDay <= LastKnownDay
  /\ Bars \subseteq [close: Nat, turnover: Nat] /\ Shares \subseteq Nat
  /\ OtherBars \subseteq [close: Nat, turnover: Nat, known: Nat \ {0}, shares: Nat,
                           delivered: Nat]

FeatureVenues == {"BSE", "NSE"}
TradeDays == 1 .. LastTradeDay
Unknown   == 0                      \* the date of a fact not known yet
Unpriced  == 0                      \* a close the venue left out
Blank     == -1                     \* NaN
NoBar     == [close |-> Unpriced, turnover |-> 0, known |-> Unknown,
              shares |-> 0, delivered |-> Unknown]

VARIABLES now,
          series,          \* int_continuous_prices: each bar that stands, the shares
                           \* delivered, and when the bar and the delivery were known
          splits,          \* when each ex-date's applied action was known
          verdicts,        \* stg_trading_day
          pass,            \* the computation in progress, the day it comes to next
          rows,            \* the rows last computed
          computedOn,      \* when
          undated,         \* days on which something changed since that does not carry
                           \* the date it did, for the property
          facts, computations

featureVars == <<now, series, splits, verdicts, pass, rows, computedOn, undated, facts,
                 computations>>

KnownDates == Unknown .. LastKnownDay

FeaturesTypeOK ==
  /\ now \in 1 .. LastKnownDay /\ computedOn \in Unknown .. now
  /\ facts \in 0 .. MaxFacts /\ computations \in 0 .. MaxComputations
  /\ pass.day \in 0 .. LastTradeDay + 1 /\ DOMAIN pass.designated \subseteq TradeDays
  /\ DOMAIN rows \subseteq TradeDays /\ undated \subseteq TradeDays
  /\ series \in [FeatureVenues -> [TradeDays -> [close: Nat, turnover: Nat, known: KnownDates,
                                                shares: Nat, delivered: KnownDates]]]
  /\ splits \in [TradeDays -> KnownDates]
  /\ verdicts \in [FeatureVenues -> [TradeDays -> [complete: BOOLEAN, known: KnownDates]]]

LatestIn(S) == CHOOSE x \in S: \A y \in S: y <= x
Traded(v, d) == series[v][d].known # Unknown
Turnover(v, d) == IF Traded(v, d) THEN series[v][d].turnover ELSE 0

-----------------------------------------------------------------------------
(* The designated venue.                                                   *)

MonthStart(d) == ((d - 1) \div MonthLength) * MonthLength + 1
Larger(bse, nse) == IF nse > bse THEN "NSE" ELSE "BSE"

TotalOn(turnovers, S) ==
  LET upTo[n \in 0 .. LastTradeDay] ==
        IF n = 0 THEN 0 ELSE upTo[n - 1] + (IF n \in S THEN turnovers[n] ELSE 0)
  IN  upTo[LastTradeDay]

SumTurnover(v, S) == TotalOn([d \in TradeDays |-> Turnover(v, d)], S)

NotStarted == [started |-> FALSE, running |-> FALSE, month |-> 0, bse |-> 0, nse |-> 0,
               venue |-> "BSE", recent |-> {}]

\* A variant: the sums of a running month are carried into the next one.
TurnMonthCarrying(state, month) ==
  LET recent == {e \in state.recent: e >= month - WindowDays}
      bse == SumTurnover("BSE", recent)  nse == SumTurnover("NSE", recent)
  IN  [state EXCEPT !.month = month, !.recent = recent, !.running = (bse = 0 /\ nse = 0),
                    !.venue = Larger(bse, nse)]

\* The first bar of a month: the days before its window leave, the window decides.
TurnMonth(state, month) ==
  LET recent == {e \in state.recent: e >= month - WindowDays}
      bse == SumTurnover("BSE", recent)  nse == SumTurnover("NSE", recent)
  IN  [state EXCEPT !.month = month, !.recent = recent, !.running = (bse = 0 /\ nse = 0),
                    !.bse = 0, !.nse = 0, !.venue = Larger(bse, nse)]

\* The state as it stands in a month: begun with its first bar, turned, or the same.
Turned(state, month) ==
  IF ~state.started THEN [state EXCEPT !.started = TRUE, !.running = TRUE, !.month = month]
  ELSE IF month # state.month THEN TurnMonth(state, month) ELSE state

\* PrimaryVenueState::update.
Update(state, d) ==
  LET turned == Turned(state, MonthStart(d))
      bse == turned.bse + Turnover("BSE", d)  nse == turned.nse + Turnover("NSE", d)
  IN  IF turned.running
      THEN [turned EXCEPT !.bse = bse, !.nse = nse, !.venue = Larger(bse, nse),
                          !.recent = @ \union {d}]
      ELSE [turned EXCEPT !.recent = @ \union {d}]

NoPass == [day |-> 0, state |-> NotStarted, designated |-> [d \in {} |-> "BSE"]]

Computing == pass.day # 0

-----------------------------------------------------------------------------
(* The rows.                                                               *)

\* int_continuous_prices: a bar's factor is of every action still ahead of it.
Factor(d) == Cardinality({x \in TradeDays: splits[x] # Unknown /\ d < x})

\* btcore::daily_features: the bars up to the day, in the day's own scale.
FiguresRead(v, d) ==
  {[day |-> e, close |-> series[v][e].close, turnover |-> series[v][e].turnover,
    shares |-> series[v][e].shares, scale |-> Factor(e) - Factor(d)]:
     e \in {k \in 1 .. d: Traded(v, k)}}

\* venue_spread: the gap between two closes, judged where both traded enough.
Gap(d) ==
  LET closes == {series[v][d].close: v \in FeatureVenues}
  IN  IF Unpriced \in closes THEN Blank ELSE LatestIn(closes) - (CHOOSE c \in closes: \A e \in closes: c <= e)

IsDiverging(d) == Gap(d) > 0 /\ \A v \in FeatureVenues: Turnover(v, d) > 0

\* greatest(prices.as_of_date, delivery.as_of_date), of a bar that stands.
BarKnown(v, d) ==
  IF Traded(v, d) THEN LatestIn({series[v][d].known, series[v][d].delivered}) ELSE Unknown

\* running_latest over both venues' bars up to the day.
LatestBarKnown(d) == LatestIn({BarKnown(v, e): v \in FeatureVenues, e \in 1 .. d})

\* latest_action: of the actions applied on or before the day, none counting as 0.
LatestActionKnown(d) == LatestIn({splits[x]: x \in 1 .. d})

\* A variant: a verdict drawn again does not date the row it is on.
KnownByItsBars(v, d) == LatestIn({LatestBarKnown(d), LatestActionKnown(d)})

Known(v, d) == LatestIn({LatestBarKnown(d), LatestActionKnown(d), verdicts[v][d].known})

\* _batch: the designated venue's bar, where it traded with a close.
RowDays(venue) ==
  {d \in DOMAIN venue: Traded(venue[d], d) /\ series[venue[d]][d].close # Unpriced}

Rows(venue) ==
  [d \in RowDays(venue) |->
    [venue |-> venue[d], figures |-> FiguresRead(venue[d], d), spread |-> Gap(d),
     diverging |-> IsDiverging(d), complete |-> verdicts[venue[d]][d].complete,
     asOf |-> Known(venue[d], d)]]

\* day_verdicts refuses a designated bar on a day without a verdict.
RefusedDay(venue) == \E d \in RowDays(venue): verdicts[venue[d]][d].known = Unknown

StartComputation ==
  /\ ~Computing /\ computations < MaxComputations
  /\ pass' = [NoPass EXCEPT !.day = 1]
  /\ computations' = computations + 1
  /\ UNCHANGED <<now, series, splits, verdicts, rows, computedOn, undated, facts>>

\* designate: every day either venue traded, in order.
Designate ==
  LET d == pass.day
  IN  /\ d \in TradeDays
      /\ IF \E v \in FeatureVenues: Traded(v, d)
         THEN \E state \in {Update(pass.state, d)}:
                pass' = [day |-> d + 1, state |-> state,
                         designated |-> [e \in DOMAIN pass.designated \union {d} |->
                           IF e = d THEN state.venue ELSE pass.designated[e]]]
         ELSE pass' = [pass EXCEPT !.day = d + 1]
      /\ UNCHANGED <<now, series, splits, verdicts, rows, computedOn, undated, facts, computations>>

\* derive_daily_features and write_daily_features, in one transaction.
StoreRows ==
  /\ pass.day = LastTradeDay + 1
  /\ pass' = NoPass
  /\ IF RefusedDay(pass.designated) THEN UNCHANGED <<rows, computedOn, undated>>
     ELSE /\ rows' = Rows(pass.designated)
          /\ computedOn' = now /\ undated' = {}
  /\ UNCHANGED <<now, series, splits, verdicts, facts, computations>>

-----------------------------------------------------------------------------
(* The facts.                                                              *)

\* The steps before a computation have ended when it reads them.
Fact ==
  /\ ~Computing /\ facts < MaxFacts /\ facts' = facts + 1
  /\ UNCHANGED <<now, pass, rows, computedOn, computations>>

Undated(d) == undated' = undated \union {d}

\* A bar first read carries the day it describes, one corrected the day it was noticed.
ReadBar(v, d, bar) ==
  /\ Fact /\ ~Traded(v, d) /\ d <= now
  /\ series' = [series EXCEPT ![v][d] = [NoBar EXCEPT !.close = bar.close,
                                           !.turnover = bar.turnover, !.known = d]]
  /\ Undated(d)
  /\ UNCHANGED <<splits, verdicts>>

CorrectBar(v, d, bar) ==
  /\ Fact /\ Traded(v, d) /\ series[v][d].known < now
  /\ series' = [series EXCEPT ![v][d] = [@ EXCEPT !.close = bar.close,
                                           !.turnover = bar.turnover, !.known = now]]
  /\ UNCHANGED <<splits, verdicts, undated>>

\* So do the shares delivered, joined to the bar whenever they are read.
ReadDelivery(v, d, shares) ==
  /\ Fact /\ Traded(v, d) /\ series[v][d].delivered = Unknown
  /\ series' = [series EXCEPT ![v][d] = [@ EXCEPT !.shares = shares, !.delivered = d]]
  /\ Undated(d)
  /\ UNCHANGED <<splits, verdicts>>

CorrectDelivery(v, d, shares) ==
  /\ Fact /\ Traded(v, d) /\ series[v][d].delivered # Unknown /\ series[v][d].delivered < now
  /\ series' = [series EXCEPT ![v][d] = [@ EXCEPT !.shares = shares, !.delivered = now]]
  /\ UNCHANGED <<splits, verdicts, undated>>

\* What may stand for a day by then under the instrument's other ISINs, none included.
Drawn(d) == {NoBar} \union {bar \in OtherBars: bar.known \in d .. now /\ bar.delivered <= now}

\* A succession stored or stored otherwise draws a predecessor's bar in, puts it in the
\* place of the one that stood or takes it away, under the dates that bar carries.
Relink(v, d, other) ==
  /\ Fact /\ series[v][d] # other
  /\ series' = [series EXCEPT ![v][d] = other]
  /\ Undated(d)
  /\ UNCHANGED <<splits, verdicts>>

\* An action applied from its ex-date, before or after it: stated, or stated otherwise.
KnowAction(x) ==
  /\ Fact /\ splits[x] < now
  /\ splits' = [splits EXCEPT ![x] = now]
  /\ UNCHANGED <<series, verdicts, undated>>

\* The closes either side of an ex-date, a review, another report or a succession decide
\* otherwise: the day's factor is dropped, or applied under the date its evidence carries.
Rejudge(x, known) ==
  /\ Fact /\ splits[x] # known
  /\ splits' = [splits EXCEPT ![x] = known]
  /\ Undated(x)
  /\ UNCHANGED <<series, verdicts>>

\* validate_day: knowable on the day it describes, one drawn again on the day it was.
JudgeDay(v, d, complete) ==
  /\ Fact /\ d <= now /\ verdicts[v][d].known < now
  /\ verdicts' = [verdicts EXCEPT ![v][d] =
       [complete |-> complete, known |-> IF @.known = Unknown THEN d ELSE now]]
  /\ IF verdicts[v][d].known = Unknown THEN Undated(d) ELSE UNCHANGED undated
  /\ UNCHANGED <<series, splits>>

PassDay ==
  /\ ~Computing /\ now < LastKnownDay
  /\ now' = now + 1
  /\ UNCHANGED <<series, splits, verdicts, pass, rows, computedOn, undated, facts, computations>>

FeaturesInit ==
  /\ now = 1 /\ facts = 0 /\ computations = 0
  /\ pass = NoPass /\ rows = [d \in {} |-> 0] /\ computedOn = Unknown /\ undated = {}
  /\ series = [v \in FeatureVenues |-> [d \in TradeDays |-> NoBar]]
  /\ splits = [d \in TradeDays |-> Unknown]
  /\ verdicts = [v \in FeatureVenues |-> [d \in TradeDays |->
                  [complete |-> FALSE, known |-> Unknown]]]

FeaturesNext ==
  \/ \E v \in FeatureVenues, d \in TradeDays:
       \/ \E bar \in Bars: ReadBar(v, d, bar) \/ CorrectBar(v, d, bar)
       \/ \E shares \in Shares: ReadDelivery(v, d, shares) \/ CorrectDelivery(v, d, shares)
       \/ \E other \in Drawn(d): Relink(v, d, other)
       \/ \E complete \in BOOLEAN: JudgeDay(v, d, complete)
  \/ \E x \in TradeDays: KnowAction(x) \/ \E known \in Unknown .. now: Rejudge(x, known)
  \/ PassDay \/ StartComputation \/ Designate \/ StoreRows

FeaturesSpec == FeaturesInit /\ [][FeaturesNext]_featureVars

-----------------------------------------------------------------------------

\* A row computed again with other contents carries no earlier date than the
\* computation before, whichever venue's correction, action or verdict changed it and
\* however far before the row (feature_derivation.py:7-9).  It may keep an earlier one
\* where something on its day or before changed that carries no such date: a bar, a
\* delivery or a verdict first read since, a bar of another ISIN that stands since, a
\* factor judged otherwise.  An action after its day never changes it.
ChangedRowsAreDated ==
  [][StoreRows =>
       \A d \in DOMAIN rows \intersect DOMAIN rows':
         \/ rows'[d] = rows[d]
         \/ rows'[d].asOf >= computedOn
         \/ \E e \in undated: e <= d]_featureVars

\* The primary venue held day by day is the one documented: in the first month, and
\* in one whose window holds no turnover, the larger of the month so far, otherwise
\* the larger of the window before the month (btcore/venues.hpp:14-19).
PrimaryVenueAsDefined ==
  \A d \in DOMAIN pass.designated:
    LET month  == MonthStart(d)
        window == {e \in TradeDays: month - WindowDays <= e /\ e < month}
        first  == ~\E v \in FeatureVenues, e \in 1 .. month - 1: Traded(v, e)
        none   == \A v \in FeatureVenues: SumTurnover(v, window) = 0
        span   == IF first \/ none THEN month .. d ELSE window
    IN  pass.designated[d] = Larger(SumTurnover("BSE", span), SumTurnover("NSE", span))
=============================================================================
