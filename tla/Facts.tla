------------------------------- MODULE Facts -------------------------------
(***************************************************************************)
(* What a table of facts promises (facts.py, and the models of dbt's       *)
(* staging layer that read one): its rows are versions, appended and never *)
(* changed, so what was known on a date stays readable as of that date.    *)
(*                                                                         *)
(* CorporateActions and SecurityLists implement it.  A bar, and a figure   *)
(* of deliveries, is dated by when it became knowable and may be stored    *)
(* later, for an earlier date: their promise is TradingDays' KnownAsOf and *)
(* Deliveries' FiguresKnownAsOf.                                           *)
(***************************************************************************)
EXTENDS Integers

VARIABLES factRows,       \* the versions: what each is of, when it was known, what it says
          factDate        \* the date the rows of a commit are known on

factVars == <<factRows, factDate>>

\* select distinct on (key) ... where as_of_date <= date ... order by as_of_date desc.
LatestBy(versions, date) ==
  {v \in versions: /\ v.asOf <= date
                   /\ \A w \in versions: w.key = v.key /\ w.asOf <= date => w.asOf <= v.asOf}

KnownOn(date) == LatestBy(factRows, date)

FactsInit == factRows = {} /\ factDate \in Nat

\* _append: a version of a key and a date already stored is left as it is, and of
\* those a commit brings for one key, one is stored.
AppendFacts ==
  /\ factRows \subseteq factRows'
  /\ \A v \in factRows' \ factRows:
       /\ v.asOf = factDate
       /\ \A w \in factRows' \ {v}: w.key = v.key => w.asOf # v.asOf
  /\ UNCHANGED factDate

NextDate == factDate' = factDate + 1 /\ UNCHANGED factRows

FactsNext == AppendFacts \/ NextDate

FactsSpec == FactsInit /\ [][FactsNext]_factVars

-----------------------------------------------------------------------------

\* distinct on picks the one latest version there is of a key: the answer to "what
\* was known on a date" does not hang on the order rows happen to be read in.
OneVersionEach ==
  \A date \in Nat: \A v, w \in KnownOn(date): v.key = w.key => v = w

\* "Append-only": what was known on a date that is over is never known otherwise.
PastStays == \A date \in Nat: date < factDate => KnownOn(date)' = KnownOn(date)

PastIsFixed == [][PastStays]_factVars
=============================================================================
