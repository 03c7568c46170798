------------------------------ MODULE Identity ------------------------------
(***************************************************************************)
(* Instrument identity, derived again from every stored bar after each     *)
(* ingestion: pipelines/identity.py with history.read_stretches, run by    *)
(* assets/ingestion/identity.py and judged by checks/identity.py.          *)
(*                                                                         *)
(* A venue's days are stored in any order, since a bootstrap reads recent  *)
(* days before earlier ones, and a day's file may later be corrected.      *)
(* Nothing in the derivation compares two venues, so one behaviour follows *)
(* one of them.  ISINs, tickers and scrip codes are numbers: the code      *)
(* orders them, and a file that names no ticker gives the code in its      *)
(* place.                                                                  *)
(***************************************************************************)
EXTENDS Integers, FiniteSets

CONSTANTS Lines,              \* the rows a venue's file may hold
          LinesOf,            \* those its file of each day may hold
          LastDay,            \* days run from 1 to LastDay
          SettledAfter, SuccessionWindow,   \* SETTLED_AFTER, SUCCESSION_WINDOW
          VanishedLimit,      \* the stored stretches a derivation may lose
          MaxCorrections      \* a bound: the days corrected in a behaviour

Days   == 1 .. LastDay
NoCode == 0
Never  == 0               \* no delisting date
Line   == [isin: Nat \ {0}, exchange: {"BSE", "NSE"}, symbol: Nat \ {0}, code: Nat]

ASSUME IdentityAssumption ==
  /\ Lines \subseteq Line /\ IsFiniteSet(Lines)
  /\ \A line \in Lines: (line.code = NoCode) = (line.exchange = "NSE")
  /\ LastDay \in Nat \ {0}
  /\ LinesOf \in [Days -> SUBSET Lines]
  /\ SettledAfter \in Nat /\ SuccessionWindow \in Nat \ {0}
  /\ VanishedLimit \in Nat /\ MaxCorrections \in Nat

\* price_daily's latest bar of an instrument's day, listing and
\* instrument_succession.
Bar        == [line: Lines, day: Days]
Listing    == [isin: Nat, exchange: {"BSE", "NSE"}, symbol: Nat, code: Nat,
               listed: Days, delisted: Days \union {Never},
               reason: {"open", "renamed", "delisted", "superseded"}]
Succession == [predecessor: Nat, successor: Nat, changedOn: Days]

VARIABLES exchange,      \* the venue this behaviour follows
          bars, held,    \* its resolved bars, and the days it has stored
          listings, successions,     \* the stored rows of this venue
          derived,       \* identity was derived from the bars as they are
          lost,          \* the last derivation was refused as StaleIdentity
          corrections    \* the days corrected so far

identityVars == <<exchange, bars, held, listings, successions, derived, lost, corrections>>

IdentityTypeOK ==
  /\ exchange \in {"BSE", "NSE"}
  /\ bars \subseteq Bar
  /\ held \subseteq Days
  /\ listings \subseteq Listing
  /\ successions \subseteq Succession
  /\ derived \in BOOLEAN /\ lost \in BOOLEAN
  /\ corrections \in 0 .. MaxCorrections

-----------------------------------------------------------------------------
(* Stretches: the runs of days a venue named one instrument one way.       *)

\* What the venue keeps when a ticker or an ISIN changes.
VenueIdentifier(item) == IF item.code # NoCode THEN item.code ELSE item.symbol

\* Bars of one window of the query: an instrument under one scrip code.
SameLine(a, b) == a.line.isin = b.line.isin /\ a.line.code = b.line.code

\* `lag(local_symbol) over line is distinct from local_symbol`
Opens(b) ==
  ~\E before \in bars:
     /\ SameLine(before, b) /\ before.day < b.day
     /\ before.line.symbol = b.line.symbol
     /\ ~\E between \in bars: SameLine(between, b) /\ between.day \in before.day + 1 .. b.day - 1

\* The days of the stretch b opens: those up to the next bar that opens one.
DaysFrom(b) ==
  {d \in Days: /\ d >= b.day
               /\ \E c \in bars: SameLine(c, b) /\ c.day = d
               /\ ~\E c \in bars: SameLine(c, b) /\ Opens(c) /\ c.day \in b.day + 1 .. d}

Latest(days)   == CHOOSE d \in days: \A e \in days: e <= d
Earliest(days) == CHOOSE d \in days: \A e \in days: d <= e

Stretch(b) == [isin |-> b.line.isin, exchange |-> exchange, symbol |-> b.line.symbol,
               code |-> b.line.code, first |-> b.day, last |-> Latest(DaysFrom(b))]

ReadStretches == {Stretch(b): b \in {c \in bars: Opens(c)}}

-----------------------------------------------------------------------------
(* Listings: stretches closed where the venue's own record ended them.     *)

\* close_listings groups stretches by what the query grouped bars by.
Group(stretch, stretches) ==
  {s \in stretches: s.isin = stretch.isin /\ s.code = stretch.code}

FollowedIn(group, stretch) == \E s \in group: s.first > stretch.first

\* The first of several stretches, named by its code for want of a ticker.
Untickered(stretch, stretches) ==
  LET group == Group(stretch, stretches)
  IN  /\ stretch.symbol = stretch.code
      /\ FollowedIn(group, stretch)
      /\ \A s \in group: stretch.first <= s.first

Folded(stretches) == {s \in stretches: Untickered(s, stretches)}

\* The stretch of a line that comes after another.
NextOf(stretch, stretches) ==
  LET later == {t \in Group(stretch, stretches): t.first > stretch.first}
  IN  CHOOSE t \in later: \A u \in later: t.first <= u.first

\* It begins where the stretch folded into it did.
Widened(t, folded, stretches) ==
  LET before == {s \in folded: t = NextOf(s, stretches)}
  IN  IF before # {} THEN [t EXCEPT !.first = (CHOOSE s \in before: TRUE).first] ELSE t

AbsorbUntickered(stretches) ==
  LET folded == Folded(stretches)
  IN  {Widened(t, folded, stretches): t \in stretches \ folded}

\* Another ISIN opening under the same identifier just after a last day.
TookOver(later, stretch, on, last) ==
  /\ VenueIdentifier(later) = VenueIdentifier(stretch)
  /\ later.isin # stretch.isin
  /\ on \in last + 1 .. last + SuccessionWindow

CloseListing(stretch, histories, venueLastDay) ==
  LET renamed == FollowedIn(Group(stretch, histories), stretch)
      stopped == stretch.last < venueLastDay - SettledAfter
      takenOver == \E s \in histories: TookOver(s, stretch, s.first, stretch.last)
      closed  == renamed \/ stopped \/ takenOver
  IN  [isin |-> stretch.isin, exchange |-> stretch.exchange, symbol |-> stretch.symbol,
       code |-> stretch.code, listed |-> stretch.first,
       delisted |-> IF closed THEN stretch.last ELSE Never,
       reason |-> IF renamed THEN "renamed" ELSE IF closed THEN "delisted" ELSE "open"]

\* Variant: a stretch closed as renamed is taken over too.
TakersOfRenamed(listing, all) ==
  IF listing.reason # "open"
  THEN {l \in all: TookOver(l, listing, l.listed, listing.delisted)} ELSE {}

\* The listings that took one over; `min` takes the earliest, then the least ISIN.
Takers(listing, all) ==
  IF listing.reason \in {"delisted", "superseded"}
  THEN {l \in all: TookOver(l, listing, l.listed, listing.delisted)} ELSE {}

Successor(listing, all) ==
  CHOOSE l \in Takers(listing, all):
    \A m \in Takers(listing, all):
      l.listed < m.listed \/ (l.listed = m.listed /\ l.isin <= m.isin)

MarkSupersessions(all) ==
  {IF Takers(l, all) # {} THEN [l EXCEPT !.reason = "superseded"] ELSE l: l \in all}

DeriveListings ==
  LET histories == AbsorbUntickered(ReadStretches)
  IN  IF held = {} THEN {}
      ELSE MarkSupersessions({CloseListing(s, histories, Latest(held)): s \in histories})

\* One row to each predecessor: of several, persist_identity writes the last in
\* the listings' order, by scrip code and then by day.
DeriveSuccessions(all) ==
  {[predecessor |-> l.isin, successor |-> Successor(l, all).isin,
    changedOn |-> Successor(l, all).listed]:
     l \in {l \in all: /\ Takers(l, all) # {}
                       /\ \A m \in all:
                            m.isin = l.isin /\ Takers(m, all) # {}
                              => m.code < l.code \/ (m.code = l.code /\ m.listed <= l.listed)}}

-----------------------------------------------------------------------------
(* The asset: derive, write, retire, commit, all in one transaction.       *)

Key(l) == <<l.isin, l.exchange, l.symbol, l.listed>>
Keys(rows) == {Key(l): l \in rows}

\* insert ... on conflict do update: a row held already keeps its scrip code.
Upserted(rows, new) ==
  {r \in rows: Key(r) \notin Keys(new)}
    \union {IF \E r \in rows: Key(r) = Key(n)
            THEN [n EXCEPT !.code = (CHOOSE r \in rows: Key(r) = Key(n)).code] ELSE n: n \in new}

\* Variant: nothing is retired.
NoneStale(rows, new) == {r \in rows: FALSE}

\* The stretches stored that the bars no longer derive.
Stale(rows, new) == {r \in rows: Key(r) \notin Keys(new)}

\* Variant: every stale stretch counts as lost.
AllVanished(rows, new) == Stale(rows, new)

\* A stale stretch no derived one continues under its identifier.
Vanished(rows, new) ==
  {r \in Stale(rows, new): ~\E n \in new: n.isin = r.isin /\ VenueIdentifier(n) = VenueIdentifier(r)}

Linked(rows, new) ==
  {s \in rows: \A n \in new: n.predecessor # s.predecessor} \union new

\* retire_listings refuses to lose stretches, and the transaction is rolled back.
RefuseIdentity ==
  /\ ~derived
  /\ LET new == DeriveListings
     IN  Cardinality(Vanished(Upserted(listings, new), new)) > VanishedLimit
  /\ lost' = TRUE
  /\ UNCHANGED <<exchange, bars, held, listings, successions, derived, corrections>>

DeriveIdentity ==
  /\ ~derived
  /\ LET new  == DeriveListings
         rows == Upserted(listings, new)
     IN  /\ Cardinality(Vanished(rows, new)) <= VanishedLimit
         /\ listings' = rows \ Stale(rows, new)
         /\ successions' = Linked(successions, DeriveSuccessions(new))
  /\ derived' = TRUE /\ lost' = FALSE
  /\ UNCHANGED <<exchange, bars, held, corrections>>

\* A file names an instrument once, and two instruments by two identifiers.
Files(d) ==
  {file \in SUBSET {line \in LinesOf[d]: line.exchange = exchange}:
     \A a, b \in file: a # b => a.isin # b.isin /\ VenueIdentifier(a) # VenueIdentifier(b)}

\* bse_bhavcopy or nse_bhavcopy stores a day it had not.
StoreDay(d) ==
  /\ d \notin held
  /\ \E file \in Files(d): bars' = bars \union {[line |-> l, day |-> d]: l \in file}
  /\ held' = held \union {d}
  /\ derived' = FALSE
  /\ UNCHANGED <<exchange, listings, successions, lost, corrections>>

\* A corrected file names an instrument of a stored day another way.
CorrectDay(b) ==
  /\ corrections < MaxCorrections
  /\ \E line \in Lines:
       /\ line.isin = b.line.isin /\ line.exchange = exchange /\ line # b.line
       /\ ~\E other \in bars: /\ other.day = b.day /\ other # b
                              /\ VenueIdentifier(other.line) = VenueIdentifier(line)
       /\ bars' = (bars \ {b}) \union {[b EXCEPT !.line = line]}
  /\ corrections' = corrections + 1
  /\ derived' = FALSE
  /\ UNCHANGED <<exchange, held, listings, successions, lost>>

IdentityInit ==
  /\ exchange \in {"BSE", "NSE"}
  /\ bars = {} /\ held = {}
  /\ listings = {} /\ successions = {}
  /\ derived = TRUE /\ lost = FALSE
  /\ corrections = 0

IdentityNext ==
  \/ DeriveIdentity
  \/ RefuseIdentity
  \/ \E d \in Days: StoreDay(d)
  \/ \E b \in bars: CorrectDay(b)

IdentitySpec == IdentityInit /\ [][IdentityNext]_identityVars

-----------------------------------------------------------------------------
(* The blocking checks of checks/identity.py, each a query and its rows.   *)

Covers(l, b) ==
  /\ l.isin = b.line.isin
  /\ b.day >= l.listed /\ (l.delisted = Never \/ b.day <= l.delisted)

\* ORPHANED_BARS.
OrphanedBars == {b \in bars: ~\E l \in listings: Covers(l, b)}

\* STRETCHES_OVERLAP.
StretchesOverlap ==
  {pair \in listings \X listings:
     LET earlier == pair[1]
         later   == pair[2]
     IN  /\ later.isin = earlier.isin
         /\ VenueIdentifier(later) = VenueIdentifier(earlier)
         /\ later.listed > earlier.listed
         /\ earlier.delisted = Never \/ later.listed <= earlier.delisted}

\* SUPERSEDED_WITHOUT_A_SUCCESSOR.
SupersededAlone ==
  {l \in listings: l.reason = "superseded" /\ \A s \in successions: s.predecessor # l.isin}

-----------------------------------------------------------------------------
(* What the derivation promises the models that read it.                   *)

\* An instrument keeps its scrip code as long as it keeps its ticker.
OneCodeATicker ==
  \A a, b \in Lines:
    a.isin = b.isin /\ a.exchange = b.exchange /\ a.symbol = b.symbol => a.code = b.code

\* Whatever the order the days were stored in and corrected, an identity that
\* is derived and written holds every stored bar in a stretch, two stretches of
\* one identifier never overlap, and every superseded one is linked: no stretch
\* survives from a derivation made while days were missing.  With corrected days it
\* needs OneCodeATicker, as the run has it: a correction that gives an ISIN another
\* scrip code under the same ticker breaks it.
IdentityPassesItsChecks ==
  derived => OrphanedBars = {} /\ StretchesOverlap = {} /\ SupersededAlone = {}

\* "History reaching further back only moves the day a stretch begins, and a
\* ticker read after a BSE scrip code only renames it": days stored in any
\* order never make retire_listings refuse, only a corrected day can.
ReachingBackLosesNothing == lost => corrections > 0

\* The successions stored are those the stored bars derive, whatever the order
\* the days were stored in: identity is "indifferent to the order a backfill
\* filled the days in" (assets/ingestion/identity.py:4).
SuccessionsFollowBars == derived => successions = DeriveSuccessions(DeriveListings)

-----------------------------------------------------------------------------
(* Which ISIN an instrument has now: `isins_now` follows the successions to *)
(* their end, wherever it begins, as long as they form no cycle.            *)

TradedOn(isin) == {b.day: b \in {c \in bars: c.line.isin = isin}}

\* Each ISIN that is followed has a place before the one that follows it.
NoCycleIn(links) ==
  \E place \in [{line.isin: line \in Lines} -> 0 .. LastDay]:
    \A s \in links: place[s.predecessor] < place[s.successor]

\* The venue knows an instrument by one scrip code, as NSE does by none.
OneCodeAnIsin ==
  exchange = "NSE" \/ \A a, b \in Lines:
                        a.isin = b.isin /\ a.exchange = b.exchange => a.code = b.code

\* Of two ISINs the venue ever lists under one identifier, one left its files before
\* the other came, as at a change of face value: no ticker is given on meanwhile.
FiledOn(isin, where) ==
  {d \in Days: \E line \in LinesOf[d]: line.isin = isin /\ line.exchange = where}

OneAfterAnother ==
  \A a, b \in Lines:
    a.exchange = b.exchange /\ a.isin # b.isin /\ VenueIdentifier(a) = VenueIdentifier(b)
      => LET before == FiledOn(a.isin, a.exchange)
             after  == FiledOn(b.isin, b.exchange)
         IN  \/ \A d \in before: \A e \in after: d < e
             \/ \A d \in before: \A e \in after: e < d

\* A succession derived leads from an ISIN that trades no more to one that began to
\* trade that day, so the links one derivation makes form no cycle.
SuccessionsLeadOn ==
  OneCodeAnIsin =>
    \A s \in DeriveSuccessions(DeriveListings):
      /\ \A d \in TradedOn(s.predecessor): d < s.changedOn
      /\ s.changedOn \in TradedOn(s.successor)

DerivedLinksEnd == OneCodeAnIsin => NoCycleIn(DeriveSuccessions(DeriveListings))

\* The links stored, with those of earlier derivations none retires, form no cycle
\* as long as no identifier changes hands between ISINs that trade side by side.
StoredLinksEnd == OneAfterAnother => NoCycleIn(successions)
=============================================================================
