--------------------------- MODULE CorporateActions ---------------------------
(***************************************************************************)
(* Corporate actions read a range of ex-dates at a time: the adapters and  *)
(* parsers of sources/{bse, nse}/corporate_actions.py and the loop of      *)
(* assets/ingestion/corporate_actions.py.                                  *)
(*                                                                         *)
(* The two venues' sources never meet, so one behaviour follows one venue. *)
(* Ex-dates and collection dates are numbers of one calendar, and so are   *)
(* ISINs, which the code orders.  A purpose or subject is what its venue's *)
(* expressions find in it.                                                 *)
(***************************************************************************)
EXTENDS Integers, FiniteSets

CONSTANTS ActionIsins, Texts,
          Wordings,       \* what each release of the parser finds in a text
          ExRanges,       \* the ranges of ex-dates asked for, each <<first, last>>
          Notices,        \* the rows the venue may announce
          Histories,      \* what identity derives, one record per stage
          FirstDate, LastDate,   \* the collection dates
          OpeningWindow,  \* OPENING_WINDOW
          MaxChanges      \* a bound: the changes between runs in a behaviour

Segments == {"equities", "sme"}
DividendKinds == {"ordinary", "interim", "final", "special"}
Wording  == [bonus: Nat \X Nat, face: Nat \X Nat,   \* received and held, old and new
             dividends: SUBSET [kind: DividendKinds, amount: Nat],
             namesDividend: BOOLEAN, namesSplit: BOOLEAN, notice: BOOLEAN]
Notice   == [segment: Segments, isin: Nat, code: Nat, equity: BOOLEAN,
             ex: Nat, text: Texts]
Span     == [isin: ActionIsins, code: Nat, first: Nat, last: Nat]

ASSUME CorporateActionsAssumption ==
  /\ ActionIsins \subseteq Nat /\ IsFiniteSet(ActionIsins)
  /\ Wordings \in [1 .. 2 -> [Texts -> Wording]]
  /\ ExRanges \subseteq Nat \X Nat
  /\ Notices \subseteq Notice
  /\ Histories \in [1 .. 2 -> [spans: SUBSET Span, master: SUBSET ActionIsins,
                               links: SUBSET (ActionIsins \X ActionIsins),
                               otherLinks: SUBSET (ActionIsins \X ActionIsins)]]
  /\ \A stage \in 1 .. 2: IsFiniteSet(Histories[stage].spans)
  /\ FirstDate \in Nat /\ LastDate \in Nat /\ FirstDate <= LastDate
  /\ OpeningWindow \in Nat /\ MaxChanges \in Nat

ActionKinds   == {"bonus", "split", "consolidation", "dividend", "unhandled"}
ActionTerms   == [kind: ActionKinds, qualifier: DividendKinds \union Texts,
                  from: Nat, to: Nat, amount: Nat]
ActionRecord  == [isin: ActionIsins, ex: Nat, terms: ActionTerms]
ActionVersion == [isin: ActionIsins, ex: Nat, terms: ActionTerms, asOf: FirstDate .. LastDate,
            withdrawn: BOOLEAN]
RangeAnswer  == [segment: Segments, range: ExRanges, under: {0} \union FirstDate .. LastDate,
            rows: SUBSET Notices]

VARIABLES venue,        \* the venue followed
          announced,    \* the rows it would answer now
          changes,      \* the changes between runs so far
          release,      \* the release of the parser
          history,      \* the stage identity has reached
          trading,      \* ISINs with a bar in the last UNTRADED_DAYS
          collectedOn,  \* the date the latest run collects on
          answers,      \* the cache
          actions,      \* corporate_action
          left,         \* the ranges the run has still to read
          taken         \* the ranges its commits succeeded for

actionVars == <<venue, announced, changes, release, history, trading, collectedOn,
                answers, actions, left, taken>>

ActionsTypeOK ==
  /\ venue \in {"BSE", "NSE"}
  /\ announced \subseteq Notices
  /\ changes \in 0 .. MaxChanges
  /\ release \in 1 .. 2 /\ history \in 1 .. 2
  /\ trading \subseteq ActionIsins
  /\ collectedOn \in FirstDate .. LastDate
  /\ answers \subseteq RangeAnswer
  /\ actions \subseteq ActionVersion
  /\ left \subseteq ExRanges /\ taken \subseteq ExRanges

-----------------------------------------------------------------------------
(* What a text says.                                                       *)

DividendTerms(d)    == [kind |-> "dividend", qualifier |-> d.kind, from |-> 0, to |-> 0,
                   amount |-> d.amount]
RatioTerms(k, a, b) == [kind |-> k, qualifier |-> "ordinary", from |-> a, to |-> b, amount |-> 0]
UnhandledTerms(t)   == [kind |-> "unhandled", qualifier |-> t, from |-> 0, to |-> 0, amount |-> 0]

BonusTerms(w) == RatioTerms("bonus", w.bonus[2], w.bonus[1] + w.bonus[2])

\* Face values only change by whole factors here.
FaceChange(w) ==
  LET old == w.face[1]
      new == w.face[2]
  IN  IF new > old THEN RatioTerms("consolidation", new \div old, 1)
      ELSE RatioTerms("split", 1, old \div new)

Positive(pair) == pair[1] > 0 /\ pair[2] > 0

\* BSE's parse_purpose reads one action, the first of the three it finds.
ParsePurpose(text) ==
  LET w == Wordings[release][text]
  IN  IF Positive(w.bonus) THEN {BonusTerms(w)}
      ELSE IF Positive(w.face) THEN {FaceChange(w)}
      ELSE IF w.dividends # {} THEN {DividendTerms(CHOOSE d \in w.dividends: TRUE)}
      ELSE IF w.notice THEN {}     \* a row that states nothing
      ELSE {UnhandledTerms(text)}

\* NSE's parse_subject reads every action a subject states, and the text itself
\* where it names one whose terms were not read.
ParseSubject(text) ==
  LET w     == Wordings[release][text]
      found == (IF Positive(w.bonus) THEN {BonusTerms(w)} ELSE {})
                 \union (IF Positive(w.face) /\ w.face[1] # w.face[2] THEN {FaceChange(w)} ELSE {})
                 \union {DividendTerms(d): d \in {e \in w.dividends: e.amount > 0}}
      kinds == {t.kind: t \in found}
      unread == \/ w.namesDividend /\ "dividend" \notin kinds
                \/ w.namesSplit /\ kinds \intersect {"split", "consolidation"} = {}
  IN  IF found # {} THEN found \union {t \in {UnhandledTerms(text)}: unread}
      ELSE IF w.notice THEN {} ELSE {UnhandledTerms(text)}

-----------------------------------------------------------------------------
(* Whose action it is now.                                                 *)

Present == Histories[history]

\* SUCCESSIONS with setdefault: NSE's successor where both venues derived one.
FollowedBy(isin) ==
  LET nse == {l \in IF venue = "NSE" THEN Present.links ELSE Present.otherLinks: l[1] = isin}
      all == {l \in Present.links \union Present.otherLinks: l[1] = isin}
  IN  {l[2]: l \in IF nse # {} THEN nse ELSE all}

\* isins_now: the walk ends at an ISIN nothing follows, or before one seen.
Following(isin) == CHOOSE n \in FollowedBy(isin): TRUE

Onward(w) ==
  IF FollowedBy(w.now) = {} \/ Following(w.now) \in w.seen THEN w
  ELSE [now |-> Following(w.now), seen |-> w.seen \union {Following(w.now)}]

\* A walk takes fewer steps than there are ISINs.
IsinNow(isin) ==
  LET steps == Cardinality(ActionIsins)
      walk[n \in 0 .. steps] ==
        IF n = 0 THEN [now |-> isin, seen |-> {isin}] ELSE Onward(walk[n - 1])
  IN  IF isin \in Present.master THEN walk[steps].now ELSE isin

\* No ISIN follows one that follows it: each has a place before those that do.  Nothing
\* in the code rules it in; where it holds, every ISIN answered is its own of now.
NoCycles ==
  \A stage \in 1 .. 2: \E place \in [ActionIsins -> 0 .. Cardinality(ActionIsins)]:
    \A l \in Histories[stage].links \union Histories[stage].otherLinks: place[l[1]] < place[l[2]]

SpansOn(spans, ex) == {s \in spans: s.first <= ex /\ (s.last = 0 \/ ex <= s.last)}
FirstOf(spans) == CHOOSE s \in spans: \A t \in spans: s.first <= t.first
LastOf(spans)  == CHOOSE s \in spans: \A t \in spans: t.first <= s.first
CodeSpans(code) == {s \in Present.spans: s.code = code}

\* ScripResolver: the ISIN of the code that day, else of the stretch opening
\* next, else of the last.
ResolveScrip(n) ==
  LET spans == CodeSpans(n.code)
      later == {s \in spans: n.ex < s.first}
      on    == SpansOn(spans, n.ex)
      span  == FirstOf(IF on # {} THEN on ELSE IF later # {} THEN later ELSE {LastOf(spans)})
  IN  IF spans = {} THEN {} ELSE {IsinNow(span.isin)}

\* IsinResolver: the row's own ISIN where it is held, else the ticker's that day,
\* else of the listing opening within the week.
ResolveIsin(n) ==
  LET spans == CodeSpans(n.code)
      soon  == {s \in spans: s.first \in n.ex + 1 .. n.ex + OpeningWindow}
      near  == IF SpansOn(spans, n.ex) # {} THEN SpansOn(spans, n.ex) ELSE soon
  IN  IF n.isin \in Present.master THEN {IsinNow(n.isin)}
      ELSE IF near = {} THEN {} ELSE {IsinNow(FirstOf(near).isin)}

\* normalize, at either venue: every action of every row that can be placed.
ActionsOfScrips(rows) ==
  UNION {{[isin |-> i, ex |-> n.ex, terms |-> t]: i \in ResolveScrip(n), t \in ParsePurpose(n.text)}:
           n \in rows}

ActionsOfSubjects(rows) ==
  UNION {{[isin |-> i, ex |-> n.ex, terms |-> t]: i \in ResolveIsin(n), t \in ParseSubject(n.text)}:
           n \in {m \in rows: m.equity}}

\* Of the actions one instrument, type, ex-date and qualifier seal, one is kept.
Normalized(rows) ==
  LET all == IF venue = "BSE" THEN ActionsOfScrips(rows) ELSE ActionsOfSubjects(rows)
      Seal(r) == <<r.isin, r.ex, r.terms.kind, r.terms.qualifier>>
  IN  {CHOOSE r \in all: Seal(r) = seal: seal \in {Seal(r): r \in all}}

-----------------------------------------------------------------------------
(* What is held, and what an answer leaves of it.                          *)

Inside(r) == r[1] .. r[2]

ActionKey(a)    == <<a.isin, a.ex, a.terms.kind, a.terms.qualifier>>
KeyNow(a) == <<IsinNow(a.isin), a.ex, a.terms.kind, a.terms.qualifier>>

\* HELD: the latest version of each action of the range, unless withdrawn.
Standing(r) ==
  {a \in actions: /\ a.ex \in Inside(r) /\ ~a.withdrawn
                  /\ \A b \in actions: ActionKey(b) = ActionKey(a) => b.asOf <= a.asOf}

\* held_actions: under the ISIN of now; of two rows the greater ISIN's is last.
HeldActions(r) ==
  {a \in Standing(r): \A b \in Standing(r): KeyNow(b) = KeyNow(a) => b.isin <= a.isin}

\* listed_as: the ISIN standing for an identifier an ISIN was listed under, of
\* several whichever LISTED happens to name last.
ListedAs(isin) ==
  LET own == {s \in Present.spans: s.isin = isin}
  IN  IF venue = "NSE" THEN IsinNow(isin)
      ELSE IF own = {} THEN isin ELSE LastOf(CodeSpans((CHOOSE s \in own: TRUE).code)).isin

StandsFor(key) == <<ListedAs(key[1]), key[2], key[3], key[4]>>

Accounted(a, records) ==
  \E r \in records: StandsFor(ActionKey(r)) = StandsFor(KeyNow(a))

SameDay(a, records) ==
  \E r \in records: r.ex = a.ex /\ ListedAs(r.isin) = ListedAs(IsinNow(a.isin))

IsText(a) == a.terms.kind = "unhandled"

\* A variant: anything answered for the day accounts for any action of it.
UnansweredDays(r, records) == {a \in HeldActions(r): ~SameDay(a, records)}

\* unanswered: a text is accounted for by whatever is answered for its day.
Unanswered(r, records) ==
  {a \in HeldActions(r): ~Accounted(a, records) /\ ~(IsText(a) /\ SameDay(a, records))}

\* A variant: a text the answer lacks is replaced by nothing.
TextsMissing(r, records) ==
  {KeyNow(a): a \in {b \in HeldActions(r): IsText(b) /\ ~Accounted(b, records)}}

ReplacedTexts(r, records) ==
  {KeyNow(a): a \in {b \in HeldActions(r):
                       IsText(b) /\ ~Accounted(b, records) /\ SameDay(b, records)}}

TradedAt == {IsinNow(i): i \in trading}
Refused(r, records) == {a \in Unanswered(r, records): IsinNow(a.isin) \in TradedAt}

\* A variant: what is held is looked up under the ISIN it was stored under.
FreshAsStored(r, records) ==
  {[isin |-> x.isin, ex |-> x.ex, terms |-> x.terms, asOf |-> collectedOn, withdrawn |-> FALSE]:
     x \in {y \in records: ~\E a \in Standing(r): ActionKey(a) = ActionKey(y) /\ a.terms = y.terms}}

FreshVersions(r, records) ==
  {[isin |-> x.isin, ex |-> x.ex, terms |-> x.terms, asOf |-> collectedOn, withdrawn |-> FALSE]:
     x \in {y \in records: ~\E a \in HeldActions(r): KeyNow(a) = ActionKey(y) /\ a.terms = y.terms}}

Withdrawals(r, records) ==
  {[a EXCEPT !.asOf = collectedOn, !.withdrawn = TRUE]:
     a \in {b \in Standing(r): KeyNow(b) \in ReplacedTexts(r, records)}}

\* persist_actions: a version of a key and date already stored stands.
ActionsPlus(table, rows) ==
  table \union {a \in rows: ~\E b \in table: ActionKey(b) = ActionKey(a) /\ b.asOf = a.asOf}

\* What is answered is written before what is withdrawn.
ActionsWith(fresh, gone) == ActionsPlus(ActionsPlus(actions, fresh), gone)

-----------------------------------------------------------------------------
(* The run: a range after another, a segment's answer after another.       *)

\* range_key: an answer for a range still open is held for the day alone.
HeldUnder(r) == IF r[2] >= collectedOn THEN collectedOn ELSE 0
HeldAnswers(r, s)   == {a \in answers: a.range = r /\ a.segment = s /\ a.under = HeldUnder(r)}
Asked        == IF venue = "NSE" THEN Segments ELSE {"equities"}
AnswerRows(r)      == UNION {a.rows: a \in UNION {HeldAnswers(r, s): s \in Asked}}
NextRange    == CHOOSE r \in left: \A q \in left: r[1] <= q[1]

StartRanges ==
  /\ left = {}
  /\ left' = ExRanges /\ taken' = {}
  /\ UNCHANGED <<venue, announced, changes, release, history, trading, collectedOn,
                 answers, actions>>

\* A venue answers all it announces, cuts its answer short, or answers days it
\* was not asked for; whatever reads as an answer is held.
Served(r, s) ==
  LET all == {n \in announced: n.segment = s}
      own == {n \in all: n.ex \in Inside(r)}
  IN  {all} \union SUBSET own

AskSegment(s) ==
  LET r == NextRange
  IN  /\ left # {} /\ s \in Asked /\ HeldAnswers(r, s) = {}
      /\ \A t \in Asked: t = "equities" /\ s = "sme" => HeldAnswers(r, t) # {}
      /\ \E rows \in Served(r, s):
           answers' = answers \union {[segment |-> s, range |-> r, under |-> HeldUnder(r),
                                       rows |-> rows]}
      /\ UNCHANGED <<venue, announced, changes, release, history, trading, collectedOn,
                     actions, left, taken>>

\* The venue cannot be read, or serves a page in the answer's place.
GiveUpRange ==
  /\ left # {} /\ \E s \in Asked: HeldAnswers(NextRange, s) = {}
  /\ left' = left \ {NextRange}
  /\ UNCHANGED <<venue, announced, changes, release, history, trading, collectedOn,
                 answers, actions, taken>>

OutsideRange(r, records) == {x \in records: x.ex \notin Inside(r)}

\* One range's commit: refused as it stands, or written.
ReadRange ==
  LET r == NextRange
      records == Normalized(AnswerRows(r))
  IN  /\ left # {} /\ \A s \in Asked: HeldAnswers(r, s) # {}
      /\ left' = left \ {r}
      /\ IF OutsideRange(r, records) # {} \/ Refused(r, records) # {}
         THEN UNCHANGED <<actions, taken>>
         ELSE /\ actions' = ActionsWith(FreshVersions(r, records), Withdrawals(r, records))
              /\ taken' = taken \union {r}
      /\ UNCHANGED <<venue, announced, changes, release, history, trading, collectedOn, answers>>

\* The run's process is killed; what it committed stays.
StopRanges ==
  /\ left # {}
  /\ left' = {}
  /\ UNCHANGED <<venue, announced, changes, release, history, trading, collectedOn,
                 answers, actions, taken>>

-----------------------------------------------------------------------------
(* Between runs: the venue, the calendar, identity and a new release.      *)

NoRunReads    == left = {}
BetweenRuns == NoRunReads /\ changes < MaxChanges /\ changes' = changes + 1

Announce ==
  /\ BetweenRuns
  /\ \E n \in Notices:
       announced' = IF n \in announced THEN announced \ {n} ELSE announced \union {n}
  /\ UNCHANGED <<venue, release, history, trading, collectedOn, answers, actions, left, taken>>

LearnWording ==
  /\ BetweenRuns /\ release = 1
  /\ release' = 2
  /\ UNCHANGED <<venue, announced, history, trading, collectedOn, answers, actions, left, taken>>

DeriveHistory ==
  /\ BetweenRuns /\ history = 1
  /\ history' = 2
  /\ UNCHANGED <<venue, announced, release, trading, collectedOn, answers, actions, left, taken>>

StopTrading(isin) ==
  /\ BetweenRuns /\ isin \in trading
  /\ trading' = trading \ {isin}
  /\ UNCHANGED <<venue, announced, release, history, collectedOn, answers, actions, left, taken>>

NextCollection ==
  /\ NoRunReads /\ collectedOn < LastDate
  /\ collectedOn' = collectedOn + 1
  /\ UNCHANGED <<venue, announced, changes, release, history, trading, answers, actions,
                 left, taken>>

ActionsInit ==
  /\ venue \in {"BSE", "NSE"}
  /\ announced \in SUBSET Notices
  /\ changes = 0 /\ release = 1 /\ history = 1
  /\ trading = Histories[1].master
  /\ collectedOn = FirstDate
  /\ answers = {} /\ actions = {} /\ left = {} /\ taken = {}

ActionsNext ==
  \/ StartRanges \/ GiveUpRange \/ ReadRange \/ StopRanges
  \/ \E s \in Segments: AskSegment(s)
  \/ Announce \/ LearnWording \/ DeriveHistory \/ NextCollection
  \/ \E i \in ActionIsins: StopTrading(i)

ActionsSpec == ActionsInit /\ [][ActionsNext]_actionVars

-----------------------------------------------------------------------------

\* A key of another action than a, of a's day and listing.
OtherOfItsDay(key, a) ==
  /\ key[2] = a.ex /\ ListedAs(key[1]) = ListedAs(IsinNow(a.isin))
  /\ StandsFor(key) # StandsFor(KeyNow(a))

\* A text is only withdrawn for another action of its instrument's day: no price
\* move the venues explained is left unexplained, whatever is announced, learned,
\* renamed or killed in between.  The other action stands, under its instrument of
\* now or as this very run stored it, but where an earlier run of the same date
\* withdrew it: its key is then taken until the next date's run.
WithdrawnTextsReplaced ==
  [][\A a \in actions' \ actions: a.withdrawn =>
       \E c \in actions':
         \/ c \in Standing(<<a.ex, a.ex>>)' /\ OtherOfItsDay(KeyNow(c), a)
         \/ /\ c.asOf = collectedOn /\ OtherOfItsDay(ActionKey(c), a)
            /\ c \in Standing(<<a.ex, a.ex>>)' \/ c \in actions]_actionVars

\* "An action stored with the same terms is not new information": a version stored
\* under the ISIN of now is of an action nothing stood of, or one of whose rows,
\* under whichever of its ISINs, had other terms; one withdrawn is of an action that
\* stood.  An ISIN that successions both ways leave without an own of now is stored
\* anew on every date: of it nothing is said.
EveryVersionIsNews ==
  [][\A b \in actions' \ actions:
       LET before == {a \in Standing(<<b.ex, b.ex>>): KeyNow(a) = KeyNow(b)}
       IN  IF b.withdrawn THEN before # {}
           ELSE IsinNow(b.isin) = b.isin => before = {} \/ \E a \in before: a.terms # b.terms]_actionVars

\* An action answered stands with the terms answered: the version of it that is held
\* has them, or the latest under its own ISIN, where an older row under a greater one
\* is held before it.  An answer whose key a run of the same date already wrote is lost
\* ("on conflict do nothing") until the next date's run asks again.
StandsWithItsTerms(r, x) ==
  \/ \E a \in Standing(r)': /\ KeyNow(a) = ActionKey(x) /\ a.terms = x.terms
                            /\ a \in HeldActions(r)' \/ a.isin = x.isin
  \/ \E a \in actions: ActionKey(a) = ActionKey(x) /\ a.asOf = collectedOn

\* What a range's commit leaves, where every ISIN answered is its own of now: all that
\* is answered stands so, and all else that is held is of an instrument the venue has
\* left, or a text stored the same day, which the next day's run withdraws.
StandsAsAnswered(r) ==
  LET records == Normalized(AnswerRows(r))
  IN  (\A x \in records: IsinNow(x.isin) = x.isin) =>
        /\ \A x \in records: StandsWithItsTerms(r, x)
        /\ \A a \in HeldActions(r)': \/ Accounted(a, records)
                                     \/ IsinNow(a.isin) \notin TradedAt
                                     \/ IsText(a) /\ a.asOf = collectedOn

\* A range taken stands as the venue answered it.
AnswerStands == [][\A r \in taken' \ taken: StandsAsAnswered(r)]_actionVars

-----------------------------------------------------------------------------
\* corporate_action as a table of facts, of whatever its primary key seals.
ActionFacts == INSTANCE Facts WITH
  factRows <- {[key |-> ActionKey(a), asOf |-> a.asOf, says |-> <<a.terms, a.withdrawn>>]: a \in actions},
  factDate <- collectedOn
=============================================================================
