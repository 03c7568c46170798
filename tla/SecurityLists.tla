----------------------------- MODULE SecurityLists -----------------------------
(***************************************************************************)
(* The names and face values of instruments, read from one venue's lists of *)
(* securities: sources/bse/scrip_list.py asks for one status at a time,     *)
(* sources/nse/equity_list.py for one board, and                            *)
(* assets/ingestion/instrument_names.py writes what they state once every   *)
(* part was read.                                                           *)
(*                                                                         *)
(* A part is its place in STATUSES or BOARDS.  What the venue lists at one  *)
(* moment is a member of Lists; it may move between two requests, and a    *)
(* part is held for the rest of the day it was read on.                    *)
(***************************************************************************)
EXTENDS Integers, FiniteSets

CONSTANTS ListDays,         \* a bound: the dates of a behaviour
          Parts,            \* STATUSES or BOARDS, the one that stands first
          Lists,            \* what the venue lists, moment by moment
          HeldCodes,        \* <<isin, code>> of the listings held, by stage of identity
          Named,            \* instrument_master
          MaxListRuns       \* a bound: the runs in a behaviour

Unkeyed  == "NA"            \* a security that names no ISIN
Unstated == 0               \* a face value left out, or one that is not positive
Security == [code: Nat, isin: Named \union {Unkeyed}, name: STRING, face: Nat]

ASSUME SecurityListsAssumption ==
  /\ ListDays \in Nat \ {0} /\ Parts \in Nat \ {0} /\ MaxListRuns \in Nat
  /\ DOMAIN Lists = 1 .. Cardinality(DOMAIN Lists) /\ 1 \in DOMAIN Lists
  /\ \A k \in DOMAIN Lists: Lists[k] \in [1 .. Parts -> SUBSET Security]
  /\ \A k \in DOMAIN Lists: \A p \in 1 .. Parts: \A r, t \in Lists[k][p]:
       r.code = t.code /\ r.isin = t.isin => r = t    \* a part lists a code once
  /\ DOMAIN HeldCodes = 1 .. 2

Moments == DOMAIN Lists
Unread  == 0

VARIABLES lister,          \* the venue, "BSE" or "NSE"
          moment,          \* what it lists now
          listDate,
          heldParts,       \* the moment each part held for the date was read at
          listStage,       \* the stage identity has reached
          listRun,         \* the run reading the parts, in their order
          partOutcomes,    \* ingestion_log of the date's parts
          named,           \* instrument_name
          valued,          \* instrument_face_value
          listRuns

listVars == <<lister, moment, listDate, heldParts, listStage, listRun, partOutcomes, named,
              valued, listRuns>>

NoListRun == [part |-> 0, read |-> [p \in 1 .. Parts |-> Unread], failed |-> FALSE]

ListsTypeOK ==
  /\ lister \in {"BSE", "NSE"} /\ moment \in Moments /\ listDate \in 1 .. ListDays
  /\ heldParts \in [1 .. Parts -> Moments \union {Unread}]
  /\ listStage \in 1 .. 2
  /\ listRun \in [part: 0 .. Parts + 1, read: [1 .. Parts -> Moments \union {Unread}],
                  failed: BOOLEAN]
  /\ partOutcomes \in [1 .. Parts -> {"none", "succeeded", "failed"}]
  /\ \A v \in named: v.isin \in Named /\ v.asOf \in 1 .. listDate
  /\ \A v \in valued: v.isin \in Named /\ v.asOf \in 1 .. listDate /\ v.value > 0
  /\ listRuns \in 0 .. MaxListRuns

-----------------------------------------------------------------------------
(* What the parts read state.                                              *)

\* parse_listings: a row that names no ISIN, or no name, is left out.
Parsed(rows) == {r \in rows: r.isin # Unkeyed /\ r.name # ""}

\* The rows of every part, as each was read.
RowsOf(read) ==
  UNION {{[part |-> p, row |-> r]: r \in Parsed(Lists[read[p]][p])}:
           p \in {q \in 1 .. Parts: read[q] # Unread}}

\* precedence: the latest status, a code held for the ISIN, then the lowest code.
Precedes(l, m) ==
  LET held(x) == <<x.row.isin, x.row.code>> \in HeldCodes[listStage]
  IN  \/ l.part < m.part
      \/ l.part = m.part /\ held(l) /\ ~held(m)
      \/ l.part = m.part /\ (held(l) <=> held(m)) /\ l.row.code < m.row.code

\* chosen_by_isin, and names_by_isin of the boards, where the first row stands.
Chosen(rows, isin) ==
  LET own == {l \in rows: l.row.isin = isin}
  IN  CHOOSE l \in own: \A m \in own \ {l}:
        IF lister = "BSE" THEN Precedes(l, m)
        ELSE l.part < m.part \/ (l.part = m.part /\ l.row.code < m.row.code)

NamesByIsin(rows) ==
  {[isin |-> l.row.isin, name |-> Chosen(rows, l.row.isin).row.name]: l \in rows}

\* BSE: the chosen listing's, where it states one.  NSE: the first board stating one.
FaceValuesByIsin(rows) ==
  LET stating == {l \in rows: l.row.face # Unstated}
      of(isin) == IF lister = "BSE" THEN Chosen(rows, isin) ELSE Chosen(stating, isin)
  IN  {[isin |-> l.row.isin, value |-> of(l.row.isin).row.face]:
         l \in {k \in stating: of(k.row.isin).row.face # Unstated}}

-----------------------------------------------------------------------------
(* What is stored.                                                         *)

LatestOf(versions, isin) ==
  LET own == {v \in versions: v.isin = isin}
  IN  {v \in own: \A w \in own: w.asOf <= v.asOf}

\* A variant: a name stored for the instrument at any time is not fresh.
FreshAtAll(rows) ==
  {n \in NamesByIsin(rows): n.isin \in Named
                            /\ ~\E v \in named: v.isin = n.isin /\ v.name = n.name}

FreshNames(rows) ==
  {n \in NamesByIsin(rows): n.isin \in Named
                            /\ \A v \in LatestOf(named, n.isin): v.name # n.name}

FreshFaceValues(rows) ==
  {f \in FaceValuesByIsin(rows): f.isin \in Named
                                 /\ \A v \in LatestOf(valued, f.isin): v.value # f.value}

\* persist_names, persist_face_values: a version of the date already stored stands.
StoredOn(versions, isin) == \E v \in versions: v.isin = isin /\ v.asOf = listDate

PersistNames(rows) ==
  named \union {[isin |-> n.isin, asOf |-> listDate, name |-> n.name]:
                  n \in {f \in FreshNames(rows): ~StoredOn(named, f.isin)}}

\* Variant: on conflict do update, the day's last reading in place of its first.
PersistFaceValuesAnew(rows) ==
  {v \in valued: v.asOf = listDate => ~\E f \in FreshFaceValues(rows): f.isin = v.isin}
    \union {[isin |-> f.isin, asOf |-> listDate, value |-> f.value]: f \in FreshFaceValues(rows)}

PersistFaceValues(rows) ==
  valued \union {[isin |-> n.isin, asOf |-> listDate, value |-> n.value]:
                   n \in {f \in FreshFaceValues(rows): ~StoredOn(valued, f.isin)}}

-----------------------------------------------------------------------------
(* A run: bse_instrument_names or nse_instrument_names.                    *)

StartLists ==
  /\ listRun.part = 0 /\ listRuns < MaxListRuns
  /\ listRun' = [NoListRun EXCEPT !.part = 1]
  /\ listRuns' = listRuns + 1
  /\ UNCHANGED <<lister, moment, listDate, heldParts, listStage, partOutcomes, named, valued>>

\* fetch and parse: the copy held for the date, or the venue's answer, which is
\* held once it is read.  Each part's outcome is committed by itself.
ReadPart ==
  LET p == listRun.part
      succeed(k) == /\ listRun' = [listRun EXCEPT !.part = @ + 1, !.read = [@ EXCEPT ![p] = k]]
                    /\ partOutcomes' = [partOutcomes EXCEPT ![p] = "succeeded"]
  IN  /\ p \in 1 .. Parts
      /\ \/ /\ heldParts[p] # Unread
            /\ succeed(heldParts[p])
            /\ UNCHANGED heldParts
         \/ /\ heldParts[p] = Unread
            /\ succeed(moment)
            /\ heldParts' = [heldParts EXCEPT ![p] = moment]
         \/ \* no answer, or a page or another status in its place
            /\ heldParts[p] = Unread
            /\ listRun' = [listRun EXCEPT !.part = @ + 1, !.failed = TRUE]
            /\ partOutcomes' = [partOutcomes EXCEPT ![p] = "failed"]
            /\ UNCHANGED heldParts
      /\ UNCHANGED <<lister, moment, listDate, listStage, named, valued, listRuns>>

\* A list read in part names nothing.
WriteLists ==
  /\ listRun.part = Parts + 1
  /\ IF listRun.failed THEN UNCHANGED <<named, valued>>
     ELSE /\ named' = PersistNames(RowsOf(listRun.read))
          /\ valued' = PersistFaceValues(RowsOf(listRun.read))
  /\ listRun' = NoListRun
  /\ UNCHANGED <<lister, moment, listDate, heldParts, listStage, partOutcomes, listRuns>>

KillLists ==
  /\ listRun.part # 0
  /\ listRun' = NoListRun
  /\ UNCHANGED <<lister, moment, listDate, heldParts, listStage, partOutcomes, named, valued,
                 listRuns>>

-----------------------------------------------------------------------------
(* Around the runs.                                                        *)

\* The venue moves a security, renames it or states another face value.
Relist ==
  /\ moment + 1 \in Moments
  /\ moment' = moment + 1
  /\ UNCHANGED <<lister, listDate, heldParts, listStage, listRun, partOutcomes, named, valued,
                 listRuns>>

\* collected_on is a run's date throughout; copies and outcomes are keyed by it.
NextListDate ==
  /\ listRun.part = 0 /\ listDate < ListDays
  /\ listDate' = listDate + 1
  /\ heldParts' = [p \in 1 .. Parts |-> Unread]
  /\ partOutcomes' = [p \in 1 .. Parts |-> "none"]
  /\ UNCHANGED <<lister, moment, listStage, listRun, named, valued, listRuns>>

DeriveCodesAgain ==
  /\ listRun.part = 0 /\ listStage = 1
  /\ listStage' = 2
  /\ UNCHANGED <<lister, moment, listDate, heldParts, listRun, partOutcomes, named, valued,
                 listRuns>>

ListsInit ==
  /\ lister \in {"BSE", "NSE"} /\ moment = 1 /\ listDate = 1 /\ listStage = 1
  /\ heldParts = [p \in 1 .. Parts |-> Unread]
  /\ partOutcomes = [p \in 1 .. Parts |-> "none"]
  /\ listRun = NoListRun /\ named = {} /\ valued = {} /\ listRuns = 0

ListsNext ==
  \/ StartLists \/ ReadPart \/ WriteLists \/ KillLists
  \/ Relist \/ NextListDate \/ DeriveCodesAgain

ListsSpec == ListsInit /\ [][ListsNext]_listVars

-----------------------------------------------------------------------------

\* What the venue's lists say of an instrument at one moment.
Listed(isin, k) ==
  LET rows == RowsOf([p \in 1 .. Parts |-> k])
  IN  {[name |-> n.name, values |-> {f.value: f \in {g \in FaceValuesByIsin(rows): g.isin = isin}}]:
         n \in {m \in NamesByIsin(rows): m.isin = isin}}

\* Whatever was read torn between two moments, failed, killed or repeated before,
\* a reading of lists that did not move meanwhile leaves every instrument listed
\* under the name and face value the venue gives it, but for one whose version of
\* the date an earlier reading had stored (assets/ingestion/instrument_names.py).
NamesHealByAWholeReading ==
  [][(WriteLists /\ ~listRun.failed) =>
       \A k \in Moments: (\A p \in 1 .. Parts: listRun.read[p] = k) =>
         \A isin \in Named: \A l \in Listed(isin, k):
           /\ StoredOn(named, isin) \/ {v.name: v \in LatestOf(named', isin)} = {l.name}
           /\ \/ StoredOn(valued, isin) \/ l.values = {}
              \/ {v.value: v \in LatestOf(valued', isin)} = l.values]_listVars

-----------------------------------------------------------------------------
\* instrument_name and instrument_face_value as tables of facts.
NameFacts == INSTANCE Facts WITH
  factRows <- {[key |-> v.isin, asOf |-> v.asOf, says |-> v.name]: v \in named}, factDate <- listDate

FaceValueFacts == INSTANCE Facts WITH
  factRows <- {[key |-> v.isin, asOf |-> v.asOf, says |-> v.value]: v \in valued}, factDate <- listDate
=============================================================================
