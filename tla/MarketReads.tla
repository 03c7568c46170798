---------------------------- MODULE MarketReads ----------------------------
(***************************************************************************)
(* The reads of market data the application serves while a sync rebuilds   *)
(* the marts: api/services/market_reads.py and the statements of the       *)
(* services that read through it.                                          *)
(*                                                                         *)
(* A read is a transaction of one statement after another.  A statement    *)
(* finds its marts or fails, and what a transaction has read stays as it   *)
(* is until it ends, since dbt waits for it to drop them.  dbt and the     *)
(* moment a mart is absent for are external: it replaces what a mart is    *)
(* built on, which drops the mart, and builds the mart again in its turn,  *)
(* or is stopped before.  Figures are left out; a mart's build is kept, as *)
(* how often it was built again.                                           *)
(***************************************************************************)
EXTENDS Integers, Sequences, FiniteSets

CONSTANTS Visitors,       \* the requests under way at once
          Marts,          \* the marts a rebuild may drop
          Rebuilds        \* bound: how often each is built again

ASSUME MarketReadsConstants == IsFiniteSet(Visitors) /\ IsFiniteSet(Marts) /\ Rebuilds \in Nat

-----------------------------------------------------------------------------
(* What each service reads, statement by statement.  feature_release is a  *)
(* table no rebuild drops: its statement needs no mart.                    *)

\* resolve_market_day: the release, its day's verdicts, the last complete day.
MarketDay == <<{}, {"mart_trading_days"}, {"mart_trading_days"}>>

\* SYMBOL, and the bars and actions UNHANDLED_ACTIONS_JOIN looks back over.
ReadBesideARow == {"mart_listings", "mart_adjusted_prices", "mart_corporate_actions"}

\* moved_most, up and then down.
MovedMost == {"mart_daily_features", "mart_instruments"} \union ReadBesideARow

MarketSummary == MarketDay \o <<{"mart_daily_features", "mart_market_breadth"},
                                {"mart_sources"}, MovedMost, MovedMost>>

\* statement: the day's features, and for each row of the page its symbol, its
\* trend and its actions.
ScreenStatement == {"mart_daily_features", "mart_instruments"} \union ReadBesideARow

\* rest_statement, asked where nothing passes.
RestStatement == {"mart_daily_features", "mart_instruments"}

RunScreen == MarketDay \o <<ScreenStatement, RestStatement>>

\* DAY: the newest day's bar, spread, figures and verdict.
DayStatement == {"mart_price_daily", "mart_venue_daily_figures", "mart_venue_spread",
                 "mart_daily_features", "mart_trading_days"}

KeyFigures == <<{"mart_instruments"}, {"mart_adjusted_prices"}, DayStatement, {"mart_sources"}>>

\* SERIES: the bars of the range with the other venue's and their figures.
SeriesStatement == {"mart_adjusted_prices", "mart_venue_spread", "mart_daily_features"}

PriceHistory == <<{"mart_instruments"}, {"mart_adjusted_prices"}, SeriesStatement>>

ActionsOfInstrument == <<{"mart_instruments"}, {"mart_corporate_actions"}>>

SearchInstruments == <<{"mart_instruments", "mart_listings"}>>

InstrumentFound == <<{"mart_instruments", "mart_primary_venue"}, {"mart_listings"}>>

Reads == {MarketDay, MarketSummary, RunScreen, KeyFigures, PriceHistory,
          ActionsOfInstrument, SearchInstruments, InstrumentFound}

-----------------------------------------------------------------------------
VARIABLES absent,         \* the marts dropped and not built again
          built,          \* how often each was built again
          visit           \* each request's read

marketVars == <<absent, built, visit>>

\* A read's statements, the next of them, the try it is at, and the marts its answer
\* is put together from, each with its build.
NotReading == [read |-> <<>>, next |-> 1, try |-> 0, step |-> "free", seen |-> {}]

\* The marts a transaction under way has read.
Held(r) == {one.mart : one \in {any \in visit[r].seen : visit[r].step = "reading"}}

MarketReadsInit ==
  /\ absent = {}
  /\ built = [mart \in Marts |-> 0]
  /\ visit = [r \in Visitors |-> NotReading]

\* A request starts its first try.
AskRead(r) ==
  /\ visit[r].step \in {"free", "answered", "updating"}
  /\ \E read \in Reads :
       visit' = [visit EXCEPT ![r] =
         [NotReading EXCEPT !.read = read, !.try = 1, !.step = "reading"]]
  /\ UNCHANGED <<absent, built>>

Needs(r) == visit[r].read[visit[r].next] \intersect Marts

\* What the next statement reads.
Found(r) == {[mart |-> mart, build |-> built[mart]] : mart \in Needs(r)}

\* Whether a read has a statement after the next.
MoreToAsk(read) == read.next < Len(read.read)

\* A statement runs.  A read ends before its last where a statement's answer
\* leaves nothing to ask: no release, no such instrument, never traded at the
\* venue, a day complete already, a screen that something passes.
RunStatement(r) ==
  /\ visit[r].step = "reading"
  /\ Needs(r) \intersect absent = {}
  /\ \/ visit' = [visit EXCEPT ![r].step = "answered", ![r].seen = @ \union Found(r)]
     \/ /\ MoreToAsk(visit[r])
        /\ visit' = [visit EXCEPT ![r].next = @ + 1, ![r].seen = @ \union Found(r)]
  /\ UNCHANGED <<absent, built>>

\* Variant: a read that finds a mart absent waits as often as it takes.
AfterMissingAgain(read) == [read EXCEPT !.step = "waiting", !.try = 1]

\* The first try waits for the rebuild; the second answers 503.
AfterMissing(read) ==
  IF read.try = 1 THEN [read EXCEPT !.step = "waiting"] ELSE [read EXCEPT !.step = "updating"]

\* UndefinedTable: a mart the statement needs is absent.
FindMissing(r) ==
  /\ visit[r].step = "reading"
  /\ Needs(r) \intersect absent # {}
  /\ visit' = [visit EXCEPT ![r] = AfterMissing(@)]
  /\ UNCHANGED <<absent, built>>

\* Variant: the second try goes on from the statement that found a mart absent.
RetriedFromThere(read) == [read EXCEPT !.try = @ + 1, !.step = "reading"]

\* The whole read runs once more, in a transaction of its own.
Retried(read) == [read EXCEPT !.next = 1, !.try = @ + 1, !.step = "reading", !.seen = {}]

\* wait_for_rebuild is over.
RunOnceMore(r) ==
  /\ visit[r].step = "waiting"
  /\ visit' = [visit EXCEPT ![r] = Retried(@)]
  /\ UNCHANGED <<absent, built>>

\* dbt replaces what some marts are built on, once no one reads them.
DropMarts ==
  /\ \E dropped \in SUBSET (Marts \ absent) \ {{}} :
       /\ \A r \in Visitors : Held(r) \intersect dropped = {}
       /\ absent' = absent \union dropped
  /\ UNCHANGED <<built, visit>>

\* dbt builds a mart again.
BuildMart ==
  /\ \E mart \in {any \in absent : built[any] < Rebuilds} :
       /\ absent' = absent \ {mart}
       /\ built' = [built EXCEPT ![mart] = @ + 1]
  /\ UNCHANGED visit

ReadStep(r) == RunStatement(r) \/ FindMissing(r) \/ RunOnceMore(r)

MarketReadsNext ==
  \/ \E r \in Visitors : AskRead(r) \/ ReadStep(r)
  \/ DropMarts \/ BuildMart

\* The event loop gets round to every read under way; nothing is assumed of
\* dbt, which may leave a mart absent for good.
MarketReadsFairness == \A r \in Visitors : WF_marketVars(ReadStep(r))

MarketReadsSpec == MarketReadsInit /\ [][MarketReadsNext]_marketVars /\ MarketReadsFairness

-----------------------------------------------------------------------------
MarketReadsTypeOK ==
  /\ absent \subseteq Marts
  /\ built \in [Marts -> 0..Rebuilds]
  /\ \A r \in Visitors :
       /\ visit[r].read \in Reads \union {<<>>}
       /\ visit[r].try \in 0..2
       /\ visit[r].next \in 1..Len(visit[r].read) \union {1}
       /\ visit[r].step \in {"free", "reading", "waiting", "answered", "updating"}
       /\ visit[r].seen \subseteq [mart: Marts, build: 0..Rebuilds]

\* No answer is put together from two builds of one mart, the wait and the second try
\* between them or not; and while a read is under way, every mart it has read stands as
\* it was read.  Of two marts one may be built again between the statements that
\* read them, and what a view reads beneath may be written meanwhile.
ReadsOneBuild ==
  \A r \in Visitors :
    /\ visit[r].step \in {"reading", "answered"} =>
         \A one, other \in visit[r].seen : one.mart = other.mart => one = other
    /\ visit[r].step = "reading" =>
         \A one \in visit[r].seen : one.mart \notin absent /\ built[one.mart] = one.build

\* Whatever dbt drops, and however often, every request for market data ends:
\* with figures, or told that they are being updated.
EveryReadEnds ==
  \A r \in Visitors :
    visit[r].step \in {"reading", "waiting"} ~> visit[r].step \in {"answered", "updating"}
=============================================================================
