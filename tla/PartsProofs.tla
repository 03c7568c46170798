----------------------------- MODULE PartsProofs -----------------------------
(***************************************************************************)
(* Proofs about what the API keeps of a person (SavedViews, Sessions and   *)
(* SignIn) for any people, requests and limits, and, last, about the parts *)
(* of the pipeline and of the API side by side, as MCParts runs them.  The *)
(* argument of each stands before its lemmas.                              *)
(***************************************************************************)
EXTENDS MCParts, IngestionProofs, DerivationProofs

-----------------------------------------------------------------------------
(* Saved views, for any people, names, addresses and ids, and any number   *)
(* of requests at once.                                                    *)
(*                                                                         *)
(* The argument: no two statements write one row (OneWriter), so a row     *)
(* found to be the person's is still theirs when its change commits        *)
(* (WritersHaveTheirRow), and a change commits a name only where no other  *)
(* kept row of the person has it.                                          *)

ViewRow == [owner: People \union {Absent}, name: ViewNames \union {NoName},
        query: {KeptQuery(a) : a \in Addresses} \union {NoName},
        shown: {Screen(a) : a \in Addresses} \union {NoName}, kept: BOOLEAN]

ViewChange == [op: {"none", "save", "change", "remove"}, owner: People \union {Absent},
           view: Views \union {0}, name: ViewNames \union {NoName},
           address: Addresses \union {NoName}, step: {"free", "finding", "writing"}]

\* A kept row has an owner, a name and an address that was a screen's.
KeptRowsAreWhole ==
  \A v \in Views : views[v].kept =>
    /\ views[v].owner \in People /\ views[v].name \in ViewNames
    /\ \E a \in Addresses : /\ MayBeKept(a)
                            /\ views[v].query = KeptQuery(a) /\ views[v].shown = Screen(a)

\* What a request asks for was read before it began.
AskedIsRead ==
  \A c \in Changers :
    /\ change[c].step # "free" => change[c].owner \in People /\ change[c].view \in Views
    /\ change[c].address # NoName => MayBeKept(change[c].address)
    /\ change[c].op = "save" => change[c].name # NoName /\ change[c].address # NoName
    /\ change[c].step = "finding" => change[c].op # "save"

\* No two statements write one row.
OneWriter ==
  \A c, d \in Changers : WritingView(c) /\ WritingView(d) /\ c # d => change[c].view # change[d].view

\* A statement that writes has the row it found: new, or one its person keeps.
WritersHaveTheirRow ==
  \A c \in Changers : WritingView(c) =>
    IF change[c].op = "save" THEN ~views[change[c].view].kept
    ELSE views[change[c].view].kept /\ views[change[c].view].owner = change[c].owner

ViewsIInv == /\ views \in [Views -> ViewRow] /\ change \in [Changers -> ViewChange]
        /\ KeptRowsAreWhole /\ AskedIsRead /\ OneWriter /\ WritersHaveTheirRow
        /\ OneKeptViewPerName

-----------------------------------------------------------------------------

\* kept_query, part by part.
LEMMA KeptParts ==
  ASSUME NEW a \in Addresses
  PROVE  KeptQuery(a) = [gate |-> a.gate, kind |-> IF a.kind = "all" THEN "all" ELSE Absent,
                         criteria |-> a.criteria, sort |-> a.sort, page |-> 1,
                         unknown |-> a.unknown, repeated |-> a.repeated]
<1>1. a \in Address
  BY SavedViewsConstants
<1>2. a = [gate |-> a.gate, kind |-> a.kind, criteria |-> a.criteria, sort |-> a.sort,
           page |-> a.page, unknown |-> a.unknown, repeated |-> a.repeated]
  BY <1>1 DEF Address
<1> DEFINE kind  == IF a.kind = "all" THEN "all" ELSE Absent
           first == [gate |-> a.gate, kind |-> a.kind, criteria |-> a.criteria, sort |-> a.sort,
                     page |-> 1, unknown |-> a.unknown, repeated |-> a.repeated]
<1>3. KeptQuery(a) = [[a EXCEPT !.page = 1] EXCEPT !.kind = kind]
  BY DEF KeptQuery
<1> HIDE DEF kind
<1>4. [a EXCEPT !.page = 1] = first
  BY <1>2
<1>5. [first EXCEPT !.kind = kind] =
        [gate |-> a.gate, kind |-> kind, criteria |-> a.criteria, sort |-> a.sort, page |-> 1,
         unknown |-> a.unknown, repeated |-> a.repeated]
  OBVIOUS
<1>6. QED
  BY <1>3, <1>4, <1>5 DEF kind

\* A screen's address, kept, is a screen's address still.
LEMMA KeptQueryMayBeKept ==
  ASSUME NEW a \in Addresses, MayBeKept(a)
  PROVE  MayBeKept(KeptQuery(a))
BY KeptParts DEF MayBeKept, IsScreen, Absent

\* It opens the screen it was kept from, at its first page: kept_query leaves
\* out what the screener supplies.
LEMMA KeptQueryOpensItsScreen ==
  ASSUME NEW a \in Addresses, MayBeKept(a)
  PROVE  Screen(KeptQuery(a)) = [Screen(a) EXCEPT !.page = 1]
BY KeptParts DEF Screen, Absent

LEMMA ViewsInitInvariant == SavedViewsInit => ViewsIInv
<1> SUFFICES ASSUME SavedViewsInit
             PROVE  ViewsIInv
  OBVIOUS
<1>1. NoView \in ViewRow /\ NoChange \in ViewChange /\ ~NoView.kept
      /\ NoChange.step = "free" /\ NoChange.address = NoName /\ NoChange.op = "none"
  BY DEF NoView, NoChange, ViewRow, ViewChange
<1>2. /\ views \in [Views -> ViewRow] /\ change \in [Changers -> ViewChange]
      /\ \A v \in Views : views[v] = NoView
      /\ \A c \in Changers : change[c] = NoChange
  BY <1>1 DEF SavedViewsInit
<1>3. QED
  BY <1>1, <1>2 DEF ViewsIInv, KeptRowsAreWhole, AskedIsRead, OneWriter, WritersHaveTheirRow,
                    OneKeptViewPerName, WritingView

\* A request that ends without a change to the rows.
LEMMA FreeInvariant ==
  ASSUME ViewsIInv, NEW c \in Changers, FreeChange(c), UNCHANGED views
  PROVE  ViewsIInv'
<1>1. NoChange \in ViewChange /\ NoChange.step = "free" /\ NoChange.address = NoName
      /\ NoChange.op = "none"
  BY DEF NoChange, ViewChange
<1>2. /\ change' \in [Changers -> ViewChange]
      /\ change'[c] = NoChange /\ \A d \in Changers \ {c} : change'[d] = change[d]
  BY <1>1 DEF ViewsIInv, FreeChange
<1>3. QED
  BY <1>1, <1>2 DEF ViewsIInv, KeptRowsAreWhole, AskedIsRead, OneWriter, WritersHaveTheirRow,
                    OneKeptViewPerName, WritingView

LEMMA AskInvariant ==
  ASSUME ViewsIInv, NEW c \in Changers, AskChange(c)
  PROVE  ViewsIInv'
<1> USE DEF ViewsIInv
<1>1. PICK x : /\ change' = [change EXCEPT ![c] = x]
               /\ x \in ViewChange /\ x.owner \in People /\ x.view \in Views
               /\ x.address # NoName => MayBeKept(x.address)
               /\ \/ /\ x.op = "save" /\ x.name # NoName /\ x.address # NoName
                     /\ x.step = "writing"
                     /\ views[x.view].owner = Absent /\ ~IsHeld(x.view)
                  \/ x.op # "save" /\ x.step = "finding"
  <2>1. PICK owner \in People :
       \/ \E name \in ViewNames, a \in Addresses :
            /\ MayBeKept(a)
            /\ \E v \in Views : /\ views[v].owner = Absent /\ ~IsHeld(v)
                                /\ change' = [change EXCEPT ![c] =
                                     [op |-> "save", owner |-> owner, view |-> v, name |-> name,
                                      address |-> a, step |-> "writing"]]
       \/ \E v \in Views, name \in ViewNames \union {NoName}, a \in Addresses \union {NoName} :
            /\ a # NoName => MayBeKept(a)
            /\ change' = [change EXCEPT ![c] =
                 [op |-> "change", owner |-> owner, view |-> v, name |-> name,
                  address |-> a, step |-> "finding"]]
       \/ \E v \in Views :
            change' = [change EXCEPT ![c] =
              [op |-> "remove", owner |-> owner, view |-> v, name |-> NoName,
               address |-> NoName, step |-> "finding"]]
    BY DEF AskChange
  <2>2. QED
    BY <2>1, SavedViewsConstants DEF ViewChange
<1>2. /\ views' = views /\ change' \in [Changers -> ViewChange]
      /\ change'[c] = x /\ \A d \in Changers \ {c} : change'[d] = change[d]
  BY <1>1 DEF AskChange
<1>3. KeptRowsAreWhole' /\ OneKeptViewPerName'
  BY <1>2 DEF KeptRowsAreWhole, OneKeptViewPerName
<1>4. AskedIsRead'
  BY <1>1, <1>2 DEF AskedIsRead
<1>5. OneWriter'
  BY <1>1, <1>2 DEF OneWriter, WritingView, IsHeld, Holds
<1>6. WritersHaveTheirRow'
  <2>1. views[x.view].owner = Absent => ~views[x.view].kept
    BY <1>1, SavedViewsConstants DEF KeptRowsAreWhole
  <2>2. QED
    BY <1>1, <1>2, <2>1 DEF WritersHaveTheirRow, WritingView
<1>7. QED
  BY <1>2, <1>3, <1>4, <1>5, <1>6

LEMMA FindInvariant ==
  ASSUME ViewsIInv, NEW c \in Changers, FindRow(c)
  PROVE  ViewsIInv'
<1>1. CASE ~(views[change[c].view].kept /\ views[change[c].view].owner = change[c].owner)
  BY <1>1, FreeInvariant DEF FindRow
<1>2. CASE views[change[c].view].kept /\ views[change[c].view].owner = change[c].owner
  <2> USE DEF ViewsIInv
  <2>1. /\ change[c].step = "finding" /\ ~IsHeld(change[c].view) /\ views' = views
        /\ change' = [change EXCEPT ![c].step = "writing"]
    BY <1>2 DEF FindRow
  <2>2. /\ change'[c] = [change[c] EXCEPT !.step = "writing"]
        /\ \A d \in Changers \ {c} : change'[d] = change[d]
    BY <2>1
  <2>3. /\ change'[c].op = change[c].op /\ change'[c].owner = change[c].owner
        /\ change'[c].view = change[c].view /\ change'[c].name = change[c].name
        /\ change'[c].address = change[c].address /\ change'[c].step = "writing"
        /\ change'[c] \in ViewChange
    BY <2>2 DEF ViewChange
  <2>4. change' \in [Changers -> ViewChange]
    BY <2>1, <2>3
  <2>5. KeptRowsAreWhole' /\ OneKeptViewPerName'
    BY <2>1 DEF KeptRowsAreWhole, OneKeptViewPerName
  <2>6. AskedIsRead'
    BY <2>1, <2>2, <2>3 DEF AskedIsRead
  <2>7. OneWriter'
    BY <2>1, <2>2, <2>3 DEF OneWriter, WritingView, IsHeld, Holds
  <2>8. change[c].op # "save"
    BY <2>1 DEF AskedIsRead
  <2>9. WritersHaveTheirRow'
    BY <1>2, <2>1, <2>2, <2>3, <2>8 DEF WritersHaveTheirRow, WritingView
  <2>10. QED
    BY <2>1, <2>4, <2>5, <2>6, <2>7, <2>9
<1>3. QED
  BY <1>1, <1>2

LEMMA CommitInvariant ==
  ASSUME ViewsIInv, NEW c \in Changers, Commit(c)
  PROVE  ViewsIInv'
<1> USE DEF ViewsIInv
<1> DEFINE asked == change[c]
           v     == asked.view
           row   == views[v]
           new   == ChangedView(c, row)
           name  == IF asked.name = NoName THEN row.name ELSE asked.name
<1>1. /\ WritingView(c) /\ Rivals(c) = {} /\ FreeChange(c)
      /\ views' = [views EXCEPT ![v] = new]
  BY DEF Commit
<1>2. /\ asked \in ViewChange /\ asked.step = "writing" /\ asked.owner \in People
      /\ v \in Views /\ row \in ViewRow
  BY <1>1 DEF WritingView, AskedIsRead
<1>4. IF asked.op = "save" THEN ~row.kept ELSE row.kept /\ row.owner = asked.owner
  BY <1>1 DEF WritersHaveTheirRow
<1>5. /\ new \in ViewRow
      /\ new.kept =>
           /\ new.owner = asked.owner /\ new.name = name /\ name \in ViewNames
           /\ \E a \in Addresses : MayBeKept(a) /\ new.query = KeptQuery(a) /\ new.shown = Screen(a)
  <2>1. row = [owner |-> row.owner, name |-> row.name, query |-> row.query,
               shown |-> row.shown, kept |-> row.kept]
    BY <1>2 DEF ViewRow
  <2>2. asked.op # "save" => row.name \in ViewNames
    BY <1>2, <1>4 DEF KeptRowsAreWhole
  <2>3. name \in ViewNames
    BY <1>2, <2>2 DEF ViewChange, AskedIsRead
  <2>4. CASE asked.op = "remove"
    <3>1. new = [row EXCEPT !.kept = FALSE]
      BY <2>4 DEF ChangedView
    <3>2. QED
      BY <1>2, <3>1 DEF ViewRow
  <2>5. CASE asked.op # "remove" /\ asked.address = NoName
    <3>1. new = [row EXCEPT !.name = name]
      BY <2>5 DEF ChangedView
    <3>2. asked.op # "save"
      BY <1>1, <2>5 DEF AskedIsRead
    <3>3. new = [owner |-> row.owner, name |-> name, query |-> row.query,
                 shown |-> row.shown, kept |-> row.kept]
      BY <2>1, <3>1
    <3>4. new \in ViewRow
      BY <1>2, <2>3, <3>3 DEF ViewRow
    <3>5. QED
      BY <1>2, <1>4, <2>3, <3>2, <3>3, <3>4 DEF KeptRowsAreWhole
  <2>6. CASE asked.op # "remove" /\ asked.address # NoName
    <3>1. new = [[row EXCEPT !.name = name]
                   EXCEPT !.owner = asked.owner, !.kept = TRUE,
                          !.query = KeptQuery(asked.address), !.shown = Screen(asked.address)]
      BY <2>6 DEF ChangedView
    <3>2. new = [owner |-> asked.owner, name |-> name, query |-> KeptQuery(asked.address),
                 shown |-> Screen(asked.address), kept |-> TRUE]
      BY <2>1, <3>1
    <3>3. asked.address \in Addresses /\ MayBeKept(asked.address)
      BY <1>2, <2>6 DEF ViewChange, AskedIsRead
    <3>4. new \in ViewRow
      BY <1>2, <2>3, <3>2, <3>3 DEF ViewRow
    <3>5. QED
      BY <2>3, <3>2, <3>3, <3>4
  <2>7. QED
    BY <2>4, <2>5, <2>6
<1> HIDE DEF new
<1>6. /\ views' \in [Views -> ViewRow] /\ views'[v] = new
      /\ \A w \in Views \ {v} : views'[w] = views[w]
  BY <1>1, <1>2, <1>5
<1>7. /\ change' \in [Changers -> ViewChange] /\ change'[c] = NoChange
      /\ \A d \in Changers \ {c} : change'[d] = change[d]
      /\ NoChange.step = "free" /\ NoChange.address = NoName /\ NoChange.op = "none"
  <2>1. NoChange \in ViewChange
    BY DEF NoChange, ViewChange
  <2>2. QED
    BY <1>1, <2>1 DEF FreeChange, NoChange
<1>8. KeptRowsAreWhole'
  BY <1>2, <1>5, <1>6 DEF KeptRowsAreWhole
<1>9. AskedIsRead' /\ OneWriter'
  BY <1>7 DEF AskedIsRead, OneWriter, WritingView
<1>10. WritersHaveTheirRow'
  <2> SUFFICES ASSUME NEW d \in Changers, WritingView(d)'
               PROVE  IF change'[d].op = "save" THEN ~views'[change'[d].view].kept
                      ELSE /\ views'[change'[d].view].kept
                           /\ views'[change'[d].view].owner = change'[d].owner
    BY DEF WritersHaveTheirRow
  <2>1. d # c /\ WritingView(d) /\ change'[d] = change[d]
    BY <1>7 DEF WritingView
  <2>2. change[d].view \in Views \ {v}
    BY <1>1, <2>1 DEF OneWriter, AskedIsRead, WritingView
  <2>3. QED
    BY <1>6, <2>1, <2>2 DEF WritersHaveTheirRow
<1>11. new.kept => \A w \in Views \ {v} :
         views[w].kept /\ views[w].owner = asked.owner => views[w].name[1] # new.name[1]
  <2> SUFFICES ASSUME new.kept, NEW w \in Views \ {v},
                      views[w].kept, views[w].owner = asked.owner
               PROVE  views[w].name[1] # new.name[1]
    OBVIOUS
  <2>1. CASE asked.name = NoName
    <3>1. asked.op # "save" /\ new.name = row.name
      BY <1>1, <1>5, <2>1 DEF AskedIsRead
    <3>2. QED
      BY <1>2, <1>4, <3>1 DEF OneKeptViewPerName
  <2>2. CASE asked.name # NoName
    <3>1. ~SameName(views[w].name, asked.name)
      BY <1>1, <2>2 DEF Rivals
    <3>2. QED
      BY <1>5, <2>2, <3>1 DEF SameName
  <2>3. QED
    BY <2>1, <2>2
<1>12. OneKeptViewPerName'
  BY <1>2, <1>5, <1>6, <1>11 DEF OneKeptViewPerName
<1>13. QED
  BY <1>6, <1>7, <1>8, <1>9, <1>10, <1>12

LEMMA ViewsNextInvariant == ViewsIInv /\ [SavedViewsNext]_savedViewVars => ViewsIInv'
<1> SUFFICES ASSUME ViewsIInv, [SavedViewsNext]_savedViewVars
             PROVE  ViewsIInv'
  OBVIOUS
<1>1. ASSUME NEW c \in Changers, AskChange(c)
      PROVE  ViewsIInv'
  BY <1>1, AskInvariant
<1>2. ASSUME NEW c \in Changers, FindRow(c)
      PROVE  ViewsIInv'
  BY <1>2, FindInvariant
<1>3. ASSUME NEW c \in Changers, Commit(c)
      PROVE  ViewsIInv'
  BY <1>3, CommitInvariant
<1>4. ASSUME NEW c \in Changers, RefuseName(c) \/ BreakDeadlock(c)
      PROVE  ViewsIInv'
  BY <1>4, FreeInvariant DEF RefuseName, BreakDeadlock
<1>5. CASE UNCHANGED savedViewVars
  BY <1>5 DEF savedViewVars, ViewsIInv, KeptRowsAreWhole, AskedIsRead, OneWriter,
              WritersHaveTheirRow, OneKeptViewPerName, WritingView
<1>6. QED
  BY <1>1, <1>2, <1>3, <1>4, <1>5 DEF SavedViewsNext

LEMMA ViewsInductive == SavedViewsSpec => []ViewsIInv
BY ViewsInitInvariant, ViewsNextInvariant, PTL DEF SavedViewsSpec

\* Rows and requests keep their types.
THEOREM ViewsTypeCorrect == SavedViewsSpec => []SavedViewsTypeOK
<1>1. ViewsIInv => SavedViewsTypeOK
  BY DEF ViewsIInv, SavedViewsTypeOK, KeptRowsAreWhole, ViewRow, ViewChange
<1>2. QED
  BY <1>1, ViewsInductive, PTL

\* Whichever requests save, rename, swap and free names at once, the names a
\* person keeps differ in more than their case, and every view opens the screen
\* it was saved from (save_view, change_view, kept_query).
THEOREM ViewsAreKept == SavedViewsSpec => []ViewsKeepTheirScreens
<1>1. ViewsIInv => ViewsKeepTheirScreens
  <2> SUFFICES ASSUME ViewsIInv
               PROVE  ViewsKeepTheirScreens
    OBVIOUS
  <2>1. OpensTheScreenSaved
    BY KeptQueryMayBeKept, KeptQueryOpensItsScreen
       DEF ViewsIInv, KeptRowsAreWhole, OpensTheScreenSaved
  <2>2. QED
    BY <2>1 DEF ViewsIInv, ViewsKeepTheirScreens
<1>2. QED
  BY <1>1, ViewsInductive, PTL
-----------------------------------------------------------------------------
(* Sessions, for any requests at once and any limits.                      *)
(*                                                                         *)
(* The argument: activity is written by the reading a request began with,  *)
(* so it can go back, but never by more than the time a request takes; the *)
(* activity a request reads is thus behind the session's use by no more    *)
(* than Slack.                                                             *)

\* What the recorded activity may be behind the session's use by.
Slack == Max({ActivityInterval - 1, Longest})

\* The activity recorded is a use of the session, and not long behind the last.
ActivityIsUse ==
  /\ session.lastSeenAt <= lastUse /\ lastUse <= clock
  /\ lastUse - session.lastSeenAt <= Slack
  /\ session.createdAt = 0

\* A request under way, at the moment it began.
CallsAreRecent ==
  \A c \in Calls : call[c].step # "free" =>
    /\ call[c].now <= clock /\ clock - call[c].now <= Longest
    /\ call[c].read.createdAt = 0

\* What it read of the session's activity, beside what is recorded by now.
ReadsAreOfUse ==
  \A c \in Calls : call[c].step # "free" =>
    /\ call[c].read.lastSeenAt <= lastUse
    /\ call[c].usedBefore - call[c].read.lastSeenAt <= Slack
    /\ \/ session.lastSeenAt >= call[c].read.lastSeenAt
       \/ call[c].now - session.lastSeenAt <= Longest

SessionsIInv == SessionsTypeOK /\ ActivityIsUse /\ CallsAreRecent /\ ReadsAreOfUse

-----------------------------------------------------------------------------

LEMMA MaxOfTwo ==
  ASSUME NEW a \in Int, NEW b \in Int
  PROVE  Max({a, b}) \in {a, b} /\ Max({a, b}) >= a /\ Max({a, b}) >= b
<1>1. \E x \in {a, b} : \A y \in {a, b} : x >= y
  <2>1. CASE a >= b
    BY <2>1
  <2>2. CASE b >= a
    BY <2>2
  <2>3. QED
    BY <2>1, <2>2
<1>2. QED
  BY <1>1 DEF Max

LEMMA SlackBounds == Slack \in Int /\ Slack >= ActivityInterval - 1 /\ Slack >= Longest
<1>1. ActivityInterval - 1 \in Int /\ Longest \in Int
  BY SessionsConstants
<1>2. QED
  BY <1>1, MaxOfTwo DEF Slack

\* ending names a limit that is past, where one is, and nothing where none is
\* and the account may be used.
LEMMA EndingFact ==
  ASSUME NEW row, NEW idle \in Nat, NEW max \in Nat, NEW disabled \in BOOLEAN, NEW instant \in Clock,
         row.lastSeenAt \in Clock, row.createdAt \in Clock
  PROVE  /\ \A end \in Ending(row, idle, max, disabled, instant) :
              /\ end \in [at: Clock, reason: EndedReason]
              /\ end.reason = "idle" => row.lastSeenAt + idle <= instant
         /\ Ending(row, idle, max, disabled, instant) = {} =>
              instant < row.lastSeenAt + idle /\ instant < row.createdAt + max
<1> DEFINE byIdle == [at |-> row.lastSeenAt + idle, reason |-> "idle"]
           byMax  == [at |-> row.createdAt + max, reason |-> "limit"]
           past   == Passed(row, idle, max, instant)
           First(end) == \A other \in past \ {end} :
                           end.at < other.at \/ (end.at = other.at /\ end.reason = "idle")
<1>1. past = {end \in {byIdle, byMax} : end.at <= instant}
  BY DEF Passed
<1>2. /\ byIdle.at = row.lastSeenAt + idle /\ byIdle.reason = "idle"
      /\ byMax.at = row.createdAt + max /\ byMax.reason = "limit"
      /\ byIdle.at \in Nat /\ byMax.at \in Nat /\ instant \in Nat /\ LastMoment \in Nat
  BY SessionsConstants DEF Clock
<1> HIDE DEF byIdle, byMax, past
<1>3. ASSUME past # {}
      PROVE  (CHOOSE end \in past : First(end)) \in past
  <2>1. \E end \in past : First(end)
    <3>1. CASE byIdle \in past /\ (byMax \in past => byIdle.at <= byMax.at)
      BY <1>1, <1>2, <3>1
    <3>2. CASE byMax \in past /\ (byIdle \in past => byMax.at < byIdle.at)
      BY <1>1, <1>2, <3>2
    <3>3. QED
      BY <1>1, <1>2, <1>3, <3>1, <3>2
  <2>2. QED
    BY <2>1
<1>4. Ending(row, idle, max, disabled, instant) =
        CASE past # {} -> {CHOOSE end \in past : First(end)}
          [] past = {} /\ disabled -> {[at |-> instant, reason |-> "disabled"]}
          [] OTHER -> {}
  BY DEF Ending, past
<1> HIDE DEF First
<1>5. CASE past # {}
  <2>1. PICK end \in past : Ending(row, idle, max, disabled, instant) = {end}
    BY <1>3, <1>4, <1>5
  <2>2. end \in {byIdle, byMax} /\ end.at <= instant
    BY <1>1, <2>1
  <2>2a. end.at \in Clock /\ end.reason \in EndedReason
         /\ (end.reason = "idle" => row.lastSeenAt + idle <= instant)
    BY <1>2, <2>2 DEF Clock, EndedReason
  <2>2b. end = [at |-> end.at, reason |-> end.reason]
    BY <2>2 DEF byIdle, byMax
  <2>2c. end \in [at: Clock, reason: EndedReason]
    BY <2>2a, <2>2b
  <2>3. QED
    BY <2>1, <2>2a, <2>2c, <1>5, <1>4
<1>6. CASE past = {} /\ disabled
  <2> DEFINE end == [at |-> instant, reason |-> "disabled"]
  <2>1. end.at = instant /\ end.reason = "disabled"
    OBVIOUS
  <2> HIDE DEF end
  <2>2. Ending(row, idle, max, disabled, instant) = {end}
    BY <1>4, <1>6 DEF end
  <2>3. end \in [at: Clock, reason: EndedReason] /\ end.reason # "idle"
    BY <2>1 DEF end, EndedReason
  <2>4. QED
    BY <2>2, <2>3
<1>7. CASE past = {} /\ ~disabled
  <2>1. Ending(row, idle, max, disabled, instant) = {}
    BY <1>4, <1>7
  <2>2. ~(byIdle.at <= instant) /\ ~(byMax.at <= instant)
    BY <1>1, <1>7
  <2>3. instant < row.lastSeenAt + idle /\ instant < row.createdAt + max
    BY <1>2, <2>2
  <2>4. QED
    BY <2>1, <2>3
<1>8. QED
  BY <1>5, <1>6, <1>7

\* What is known of a request whose limits are looked at.
LEMMA EndsFact ==
  ASSUME SessionsIInv, NEW c \in Calls, call[c].step = "standing"
  PROVE  /\ \A end \in Ends(c) :
              /\ end \in [at: Clock, reason: EndedReason]
              /\ end.reason = "idle" => call[c].read.lastSeenAt + idleLimit <= call[c].now
         /\ Ends(c) = {} => /\ call[c].now < call[c].read.lastSeenAt + idleLimit
                            /\ call[c].now < call[c].read.createdAt + maxLimit
<1>1. /\ idleLimit \in Nat /\ maxLimit \in Nat /\ accountDisabled \in BOOLEAN
      /\ call[c].now \in Clock /\ call[c].read.lastSeenAt \in Clock
      /\ call[c].read.createdAt \in Clock
  BY SessionsConstants DEF SessionsIInv, SessionsTypeOK, SessionRow
<1>2. QED
  BY <1>1, EndingFact DEF Ends

LEMMA SessionsInitInvariant == SessionsInit => SessionsIInv
<1> SUFFICES ASSUME SessionsInit
             PROVE  SessionsIInv
  OBVIOUS
<1>1. 0 \in Clock /\ 0 \in 0..MaxInterventions
  BY SessionsConstants DEF Clock
<1>2. NoCall.read \in SessionRow /\ NoCall.read.lastSeenAt = 0 /\ NoCall.read.createdAt = 0
  BY <1>1 DEF NoCall, SessionRow
<1>3. NoCall \in [step: {"free", "standing", "judged", "sign_out"}, now: Clock,
                  read: SessionRow, usedBefore: Clock,
                  ends: SUBSET [at: Clock, reason: EndedReason]] /\ NoCall.step = "free"
  BY <1>1, <1>2 DEF NoCall
<1>4. SessionsTypeOK
  BY <1>1, <1>2, <1>3 DEF SessionsInit, SessionsTypeOK
<1>5. ActivityIsUse
  BY <1>2, SlackBounds, SessionsConstants DEF SessionsInit, ActivityIsUse
<1>6. CallsAreRecent /\ ReadsAreOfUse
  BY <1>3 DEF SessionsInit, CallsAreRecent, ReadsAreOfUse
<1>7. QED
  BY <1>4, <1>5, <1>6 DEF SessionsIInv

\* A row after a step: what the invariant asks of the row a step leaves.
LEMMA RowChange ==
  ASSUME SessionsIInv, NEW c \in Calls, FreeCall(c),
         session' \in SessionRow, session'.createdAt = 0, lastUse' \in Clock,
         session'.lastSeenAt <= lastUse', lastUse <= lastUse', lastUse' <= clock,
         lastUse' - session'.lastSeenAt <= Slack,
         \A d \in Calls \ {c} : call[d].step # "free" =>
           \/ session'.lastSeenAt >= call[d].read.lastSeenAt
           \/ call[d].now - session'.lastSeenAt <= Longest,
         UNCHANGED <<clock, idleLimit, maxLimit, accountDisabled, interventions>>
  PROVE  SessionsIInv'
<1> DEFINE Call == [step: {"free", "standing", "judged", "sign_out"}, now: Clock,
                    read: SessionRow, usedBefore: Clock,
                    ends: SUBSET [at: Clock, reason: EndedReason]]
<1>1. NoCall \in Call /\ NoCall.step = "free"
  <2>1. 0 \in Clock
    BY SessionsConstants DEF Clock
  <2>2. QED
    BY <2>1 DEF NoCall, SessionRow
<1>2. /\ call' \in [Calls -> Call] /\ call'[c] = NoCall
      /\ \A d \in Calls \ {c} : call'[d] = call[d]
  BY <1>1 DEF FreeCall, SessionsIInv, SessionsTypeOK
<1>3. SessionsTypeOK'
  BY <1>2 DEF SessionsIInv, SessionsTypeOK
<1>4. ActivityIsUse'
  BY DEF SessionsIInv, ActivityIsUse
<1>5. CallsAreRecent'
  BY <1>1, <1>2 DEF SessionsIInv, CallsAreRecent
<1>6. ReadsAreOfUse'
  <2> SUFFICES ASSUME NEW d \in Calls, call'[d].step # "free"
               PROVE  /\ call'[d].read.lastSeenAt <= lastUse'
                      /\ call'[d].usedBefore - call'[d].read.lastSeenAt <= Slack
                      /\ \/ session'.lastSeenAt >= call'[d].read.lastSeenAt
                         \/ call'[d].now - session'.lastSeenAt <= Longest
    BY SlackBounds DEF ReadsAreOfUse, Slack
  <2>1. d # c /\ call'[d] = call[d]
    BY <1>1, <1>2
  <2>2. call[d].read.lastSeenAt \in Int /\ lastUse \in Int /\ lastUse' \in Int
    BY DEF SessionsIInv, SessionsTypeOK, SessionRow, Clock
  <2>3. /\ call[d].read.lastSeenAt <= lastUse
        /\ call[d].usedBefore - call[d].read.lastSeenAt <= Slack
    BY <2>1 DEF SessionsIInv, ReadsAreOfUse
  <2>4. QED
    BY <2>1, <2>2, <2>3
<1>7. QED
  BY <1>3, <1>4, <1>5, <1>6 DEF SessionsIInv

\* The numbers of a request under way.
LEMMA Numbers ==
  ASSUME SessionsIInv
  PROVE  /\ clock \in Nat /\ lastUse \in Nat /\ LastMoment \in Nat
         /\ Longest \in Nat /\ ActivityInterval \in Nat /\ Slack \in Int
         /\ session \in SessionRow /\ session.lastSeenAt \in Nat /\ session.createdAt = 0
         /\ \A c \in Calls : /\ call[c].now \in Nat /\ call[c].now \in Clock
                             /\ call[c].read.lastSeenAt \in Nat /\ call[c].usedBefore \in Nat
BY SessionsConstants, SlackBounds DEF SessionsIInv, SessionsTypeOK, SessionRow, Clock, ActivityIsUse

LEMMA RowEnded ==
  ASSUME NEW row \in SessionRow, NEW end, end.at \in Clock, end.reason \in EndedReason
  PROVE  /\ EndedWith(row, end) \in SessionRow
         /\ EndedWith(row, end).lastSeenAt = row.lastSeenAt
         /\ EndedWith(row, end).createdAt = row.createdAt
BY DEF EndedWith, SessionRow

\* An end leaves the row's activity as it is.
LEMMA EndInvariant ==
  ASSUME SessionsIInv, NEW c \in Calls, call[c].step # "free", FreeCall(c),
         NEW end, end.at \in Clock, end.reason \in EndedReason,
         session' = EndedWith(session, end),
         UNCHANGED <<clock, idleLimit, maxLimit, accountDisabled, lastUse, interventions>>
  PROVE  SessionsIInv'
<1>1. /\ session' \in SessionRow /\ session'.lastSeenAt = session.lastSeenAt
      /\ session'.createdAt = 0
  BY Numbers, RowEnded
<1>2. /\ lastUse' \in Clock /\ session'.lastSeenAt <= lastUse' /\ lastUse <= lastUse'
      /\ lastUse' <= clock /\ lastUse' - session'.lastSeenAt <= Slack
  BY <1>1, Numbers DEF SessionsIInv, ActivityIsUse, SessionsTypeOK
<1>3. \A d \in Calls \ {c} : call[d].step # "free" =>
        \/ session'.lastSeenAt >= call[d].read.lastSeenAt
        \/ call[d].now - session'.lastSeenAt <= Longest
  BY <1>1 DEF SessionsIInv, ReadsAreOfUse
<1>4. QED
  BY <1>1, <1>2, <1>3, RowChange

\* A request served: what it writes, or leaves unwritten, of the activity.
LEMMA ServeInvariant ==
  ASSUME SessionsIInv, NEW c \in Calls, Serve(c)
  PROVE  SessionsIInv'
<1> DEFINE instant  == call[c].now
           read == call[c].read
<1>1. /\ call[c].step # "free" /\ FreeCall(c) /\ session' = Seen(session, read, instant)
      /\ lastUse' = Max({lastUse, instant})
      /\ UNCHANGED <<clock, idleLimit, maxLimit, accountDisabled, interventions>>
  BY DEF Serve
<1>2. /\ instant \in Nat /\ instant \in Clock /\ read.lastSeenAt \in Nat
  BY Numbers
<1>3. instant <= clock /\ clock - instant <= Longest
  BY <1>1 DEF SessionsIInv, CallsAreRecent
<1>4. lastUse' \in {lastUse, instant} /\ lastUse' >= lastUse /\ lastUse' >= instant
  <2>1. lastUse \in Int /\ call[c].now \in Int
    BY Numbers
  <2>2. QED
    BY <1>1, <2>1, MaxOfTwo
<1>5. lastUse' \in Clock /\ lastUse' <= clock /\ lastUse' \in Nat
  BY <1>2, <1>3, <1>4, Numbers DEF SessionsIInv, ActivityIsUse, SessionsTypeOK
<1>6. CASE instant - read.lastSeenAt >= ActivityInterval
  <2>1. session' = [session EXCEPT !.lastSeenAt = instant]
    BY <1>1, <1>6 DEF Seen
  <2>2. session' \in SessionRow /\ session'.lastSeenAt = instant /\ session'.createdAt = 0
    BY <1>2, <2>1, Numbers DEF SessionRow
  <2>3. lastUse' - session'.lastSeenAt <= Slack
    BY <1>2, <1>3, <1>5, <2>2, Numbers, SlackBounds
  <2>4. \A d \in Calls \ {c} : call[d].step # "free" => call[d].now - session'.lastSeenAt <= Longest
    BY <1>2, <1>3, <2>2, Numbers DEF SessionsIInv, CallsAreRecent
  <2>5. QED
    BY <1>1, <1>4, <1>5, <2>2, <2>3, <2>4, RowChange, Numbers
<1>7. CASE ~(instant - read.lastSeenAt >= ActivityInterval)
  <2>1. session' = session
    BY <1>1, <1>7 DEF Seen
  <2>2. instant - session.lastSeenAt <= Slack
    <3>1. \/ session.lastSeenAt >= read.lastSeenAt
          \/ instant - session.lastSeenAt <= Longest
      BY <1>1 DEF SessionsIInv, ReadsAreOfUse
    <3>2. QED
      BY <1>2, <1>7, <3>1, Numbers, SlackBounds
  <2>3. lastUse - session.lastSeenAt <= Slack /\ session.lastSeenAt <= lastUse
    BY DEF SessionsIInv, ActivityIsUse
  <2>4. lastUse' - session'.lastSeenAt <= Slack /\ session'.lastSeenAt <= lastUse'
    BY <1>4, <1>5, <2>1, <2>2, <2>3, Numbers
  <2>5. \A d \in Calls \ {c} : call[d].step # "free" =>
          \/ session'.lastSeenAt >= call[d].read.lastSeenAt
          \/ call[d].now - session'.lastSeenAt <= Longest
    BY <2>1 DEF SessionsIInv, ReadsAreOfUse
  <2>6. QED
    BY <1>1, <1>4, <1>5, <2>1, <2>4, <2>5, RowChange, Numbers
<1>8. QED
  BY <1>6, <1>7

LEMMA ReadInvariant ==
  ASSUME SessionsIInv, NEW c \in Calls, ReadSession(c)
  PROVE  SessionsIInv'
<1>1. PICK step \in {"standing", "sign_out"} :
        call' = [call EXCEPT ![c] = [step |-> step, now |-> clock, read |-> session,
                                     usedBefore |-> lastUse, ends |-> {}]]
  BY DEF ReadSession
<1> DEFINE x == [step |-> step, now |-> clock, read |-> session, usedBefore |-> lastUse,
                 ends |-> {}]
<1>2. /\ UNCHANGED <<clock, session, idleLimit, maxLimit, accountDisabled, lastUse, interventions>>
      /\ call'[c] = x /\ \A d \in Calls \ {c} : call'[d] = call[d]
  BY <1>1 DEF ReadSession, SessionsIInv, SessionsTypeOK
<1>3. SessionsTypeOK'
  BY <1>1, <1>2 DEF SessionsIInv, SessionsTypeOK
<1>4. ActivityIsUse'
  BY <1>2 DEF SessionsIInv, ActivityIsUse, Slack
<1>5. CallsAreRecent'
  BY <1>2, Numbers DEF SessionsIInv, CallsAreRecent
<1>6. ReadsAreOfUse'
  <2> SUFFICES ASSUME NEW d \in Calls, call'[d].step # "free"
               PROVE  /\ call'[d].read.lastSeenAt <= lastUse
                      /\ call'[d].usedBefore - call'[d].read.lastSeenAt <= Slack
                      /\ \/ session.lastSeenAt >= call'[d].read.lastSeenAt
                         \/ call'[d].now - session.lastSeenAt <= Longest
    BY <1>2 DEF ReadsAreOfUse, Slack
  <2>1. CASE d = c
    <3>1. call'[d].read = session /\ call'[d].usedBefore = lastUse
      BY <1>2, <2>1
    <3>2. QED
      BY <3>1, Numbers DEF SessionsIInv, ActivityIsUse
  <2>2. CASE d # c
    BY <1>2, <2>2 DEF SessionsIInv, ReadsAreOfUse
  <2>3. QED
    BY <2>1, <2>2
<1>7. QED
  BY <1>3, <1>4, <1>5, <1>6 DEF SessionsIInv

\* What a request judged has read stays as it was.
LEMMA StandingInvariant ==
  ASSUME SessionsIInv, NEW c \in Calls, ReadStanding(c)
  PROVE  SessionsIInv'
<1> DEFINE x == [call[c] EXCEPT !.step = "judged", !.ends = Ends(c)]
<1>1. call[c].step = "standing" /\ call' = [call EXCEPT ![c] = x]
      /\ UNCHANGED <<clock, session, idleLimit, maxLimit, accountDisabled, lastUse, interventions>>
  BY DEF ReadStanding
<1>2. Ends(c) \in SUBSET [at: Clock, reason: EndedReason]
  BY <1>1, EndsFact
<1>3. /\ call[c] \in [step: {"free", "standing", "judged", "sign_out"}, now: Clock,
                      read: SessionRow, usedBefore: Clock,
                      ends: SUBSET [at: Clock, reason: EndedReason]]
      /\ call \in [Calls -> [step: {"free", "standing", "judged", "sign_out"}, now: Clock,
                      read: SessionRow, usedBefore: Clock,
                      ends: SUBSET [at: Clock, reason: EndedReason]]]
  BY DEF SessionsIInv, SessionsTypeOK
<1>4. /\ x.now = call[c].now /\ x.read = call[c].read /\ x.usedBefore = call[c].usedBefore
      /\ x \in [step: {"free", "standing", "judged", "sign_out"}, now: Clock,
                read: SessionRow, usedBefore: Clock,
                ends: SUBSET [at: Clock, reason: EndedReason]]
  BY <1>2, <1>3
<1> HIDE DEF x
<1>5. /\ call'[c] = x /\ \A d \in Calls \ {c} : call'[d] = call[d]
      /\ call' \in [Calls -> [step: {"free", "standing", "judged", "sign_out"}, now: Clock,
                read: SessionRow, usedBefore: Clock,
                ends: SUBSET [at: Clock, reason: EndedReason]]]
  BY <1>1, <1>3, <1>4
<1>6. \A d \in Calls : /\ call'[d].now = call[d].now /\ call'[d].read = call[d].read
                       /\ call'[d].usedBefore = call[d].usedBefore
                       /\ call'[d].step # "free" => call[d].step # "free"
  BY <1>1, <1>4, <1>5
<1>7. SessionsTypeOK'
  BY <1>1, <1>5 DEF SessionsIInv, SessionsTypeOK
<1>8. ActivityIsUse'
  BY <1>1 DEF SessionsIInv, ActivityIsUse, Slack
<1>9. CallsAreRecent'
  <2> SUFFICES ASSUME NEW d \in Calls, call'[d].step # "free"
               PROVE  /\ call'[d].now <= clock' /\ clock' - call'[d].now <= Longest
                      /\ call'[d].read.createdAt = 0
    BY DEF CallsAreRecent
  <2>1. call[d].step # "free" /\ call'[d].now = call[d].now /\ call'[d].read = call[d].read
    BY <1>6
  <2>2. QED
    BY <1>1, <2>1 DEF SessionsIInv, CallsAreRecent
<1>10. ReadsAreOfUse'
  <2> SUFFICES ASSUME NEW d \in Calls, call'[d].step # "free"
               PROVE  /\ call'[d].read.lastSeenAt <= lastUse'
                      /\ call'[d].usedBefore - call'[d].read.lastSeenAt <= Slack
                      /\ \/ session'.lastSeenAt >= call'[d].read.lastSeenAt
                         \/ call'[d].now - session'.lastSeenAt <= Longest
    BY DEF ReadsAreOfUse, Slack
  <2>1. /\ call[d].step # "free" /\ call'[d].now = call[d].now /\ call'[d].read = call[d].read
        /\ call'[d].usedBefore = call[d].usedBefore
    BY <1>6
  <2>2. QED
    BY <1>1, <2>1 DEF SessionsIInv, ReadsAreOfUse
<1>11. QED
  BY <1>7, <1>8, <1>9, <1>10 DEF SessionsIInv

\* What an admin does ends the session, or leaves its row alone.
LEMMA AdminInvariant ==
  ASSUME SessionsIInv, EndElsewhere \/ ChangeLimits
  PROVE  SessionsIInv'
<1>1. /\ interventions' \in 0..MaxInterventions /\ idleLimit' \in IdleLimits
      /\ maxLimit' \in MaxLimits /\ accountDisabled' \in BOOLEAN
      /\ UNCHANGED <<clock, call, lastUse>>
  <2>1. interventions' \in 0..MaxInterventions
    BY SessionsConstants DEF EndElsewhere, ChangeLimits, SessionsIInv, SessionsTypeOK
  <2>2. /\ idleLimit' \in IdleLimits /\ maxLimit' \in MaxLimits
        /\ UNCHANGED <<clock, call, lastUse>>
    BY DEF EndElsewhere, ChangeLimits, SessionsIInv, SessionsTypeOK
  <2>3. accountDisabled' \in BOOLEAN
    <3>1. accountDisabled \in BOOLEAN
      BY DEF SessionsIInv, SessionsTypeOK
    <3>2. CASE EndElsewhere
      BY <3>2, Zenon DEF EndElsewhere
    <3>3. CASE ChangeLimits
      BY <3>1, <3>3 DEF ChangeLimits
    <3>4. QED
      BY <3>2, <3>3
  <2>4. QED
    BY <2>1, <2>2, <2>3
<1>2. /\ session' \in SessionRow /\ session'.lastSeenAt = session.lastSeenAt
      /\ session'.createdAt = session.createdAt
  <2>1. CASE session' = session
    BY <2>1, Numbers
  <2>2. CASE \E reason \in {"signed_out_elsewhere", "disabled"} :
               session' = EndedWith(session, [at |-> clock, reason |-> reason])
    <3>1. PICK reason \in {"signed_out_elsewhere", "disabled"} :
            session' = EndedWith(session, [at |-> clock, reason |-> reason])
      BY <2>2
    <3>2. clock \in Clock /\ reason \in EndedReason
      BY DEF SessionsIInv, SessionsTypeOK, EndedReason
    <3>3. QED
      BY <3>1, <3>2, Numbers, RowEnded
  <2>3. QED
    BY <2>1, <2>2 DEF EndElsewhere, ChangeLimits
<1>3. SessionsTypeOK'
  BY <1>1, <1>2 DEF SessionsIInv, SessionsTypeOK
<1>4. QED
  BY <1>1, <1>2, <1>3 DEF SessionsIInv, ActivityIsUse, CallsAreRecent, ReadsAreOfUse, Slack

LEMMA SessionsNextInvariant == SessionsIInv /\ [SessionsNext]_sessionVars => SessionsIInv'
<1> SUFFICES ASSUME SessionsIInv, [SessionsNext]_sessionVars
             PROVE  SessionsIInv'
  OBVIOUS
<1>1. ASSUME NEW c \in Calls, ReadSession(c)
      PROVE  SessionsIInv'
  BY <1>1, ReadInvariant
<1>1a. ASSUME NEW c \in Calls, ReadStanding(c)
       PROVE  SessionsIInv'
  BY <1>1a, StandingInvariant
<1>2. ASSUME NEW c \in Calls, Refuse(c)
      PROVE  SessionsIInv'
  <2>1. PICK end \in call[c].ends : session' = EndedWith(session, end)
    BY <1>2 DEF Refuse
  <2>2. end.at \in Clock /\ end.reason \in EndedReason
    BY <2>1 DEF SessionsIInv, SessionsTypeOK
  <2>3. QED
    BY <1>2, <2>1, <2>2, EndInvariant DEF Refuse
<1>3. ASSUME NEW c \in Calls, Serve(c)
      PROVE  SessionsIInv'
  BY <1>3, ServeInvariant
<1>4. ASSUME NEW c \in Calls, SignOut(c)
      PROVE  SessionsIInv'
  <2> DEFINE end == [at |-> call[c].now, reason |-> "signed_out"]
  <2>1. end.at \in Clock /\ end.reason \in EndedReason
    BY Numbers DEF EndedReason
  <2>2. session' = EndedWith(session, end)
    BY <1>4 DEF SignOut
  <2>3. QED
    BY <1>4, <2>1, <2>2, EndInvariant DEF SignOut
<1>5. CASE EndElsewhere \/ ChangeLimits
  BY <1>5, AdminInvariant
<1>6. CASE Pass
  <2>1. /\ clock' = clock + 1 /\ clock' \in Clock
        /\ \A c \in Calls : call[c].step # "free" => clock - call[c].now < Longest
        /\ UNCHANGED <<session, idleLimit, maxLimit, accountDisabled, call, lastUse, interventions>>
    BY <1>6, Numbers DEF Pass, Clock
  <2>2. SessionsTypeOK'
    BY <2>1 DEF SessionsIInv, SessionsTypeOK
  <2>3. ActivityIsUse'
    BY <2>1, Numbers DEF SessionsIInv, ActivityIsUse, Slack
  <2>4. CallsAreRecent'
    BY <2>1, Numbers DEF SessionsIInv, CallsAreRecent
  <2>5. ReadsAreOfUse'
    BY <2>1 DEF SessionsIInv, ReadsAreOfUse, Slack
  <2>6. QED
    BY <2>2, <2>3, <2>4, <2>5 DEF SessionsIInv
<1>7. CASE UNCHANGED sessionVars
  BY <1>7 DEF sessionVars, SessionsIInv, SessionsTypeOK, ActivityIsUse, CallsAreRecent, ReadsAreOfUse, Slack
<1>8. QED
  BY <1>1, <1>1a, <1>2, <1>3, <1>4, <1>5, <1>6, <1>7 DEF SessionsNext

LEMMA SessionsInductive == SessionsSpec => []SessionsIInv
BY SessionsInitInvariant, SessionsNextInvariant, PTL DEF SessionsSpec

\* The session, its limits and its requests keep their types.
THEOREM SessionsTypeCorrect == SessionsSpec => []SessionsTypeOK
<1>1. SessionsIInv => SessionsTypeOK
  BY DEF SessionsIInv
<1>2. QED
  BY <1>1, SessionsInductive, PTL

\* Whichever requests run at once, and whatever an admin changes meanwhile, no
\* request is served past a limit, and none is refused as idle before the limit
\* less Slack has gone by without use (ending, signed_in_user).
THEOREM LimitsHold == SessionsSpec => LimitsHoldAsUsed
<1> DEFINE Within ==
      \A c \in Calls :
        /\ IsServed(c) => /\ call[c].now < lastUse + idleLimit
                          /\ call[c].now < session.createdAt + maxLimit
        /\ IsIdledOut(c) =>
             call[c].now - call[c].usedBefore >= idleLimit - Max({ActivityInterval - 1, Longest})
<1>1. SessionsIInv /\ [SessionsNext]_sessionVars => [Within]_sessionVars
  <2> SUFFICES ASSUME SessionsIInv, NEW c \in Calls, [SessionsNext]_sessionVars,
                      call[c].step = "standing"
               PROVE  /\ IsServed(c) => /\ call[c].now < lastUse + idleLimit
                                        /\ call[c].now < session.createdAt + maxLimit
                      /\ IsIdledOut(c) => call[c].now - call[c].usedBefore >= idleLimit - Slack
    BY DEF IsServed, IsIdledOut, Slack
  <2>1. idleLimit \in Nat /\ maxLimit \in Nat
    BY SessionsConstants DEF SessionsIInv, SessionsTypeOK
  <2>2. /\ call[c].read.lastSeenAt <= lastUse
        /\ call[c].usedBefore - call[c].read.lastSeenAt <= Slack
        /\ call[c].read.createdAt = 0 /\ session.createdAt = 0
    BY DEF SessionsIInv, ReadsAreOfUse, CallsAreRecent, ActivityIsUse
  <2>3. ASSUME Ends(c) = {}
        PROVE  call[c].now < lastUse + idleLimit /\ call[c].now < session.createdAt + maxLimit
    BY <2>1, <2>2, <2>3, EndsFact, Numbers
  <2>4. ASSUME NEW end \in Ends(c), end.reason = "idle"
        PROVE  call[c].now - call[c].usedBefore >= idleLimit - Slack
    BY <2>1, <2>2, <2>4, EndsFact, Numbers
  <2>5. ASSUME call'[c].step = "judged"
        PROVE  call'[c].ends = Ends(c)
    <3> DEFINE Writes(d) == \/ ReadSession(d) \/ FreeCall(d)
               Judged(d) == call' = [call EXCEPT ![d].step = "judged", ![d].ends = Ends(d)]
    <3>1. \/ \E d \in Calls : Writes(d) \/ Judged(d)
          \/ UNCHANGED call
      BY DEF SessionsNext, ReadStanding, Refuse, Serve, SignOut, EndElsewhere, ChangeLimits, Pass,
             sessionVars
    <3>2. call # call' /\ DOMAIN call = Calls
      BY <2>5 DEF SessionsIInv, SessionsTypeOK
    <3>3. ASSUME NEW d \in Calls, Writes(d)
          PROVE  call'[d].step # "judged" /\ \A e \in Calls \ {d} : call'[e] = call[e]
      <4>1. NoCall.step = "free"
        BY DEF NoCall
      <4>2. CASE FreeCall(d)
        BY <3>2, <4>1, <4>2 DEF FreeCall
      <4>3. CASE ReadSession(d)
        BY <3>2, <4>3 DEF ReadSession
      <4>4. QED
        BY <3>3, <4>2, <4>3
    <3>4. ASSUME NEW d \in Calls, Judged(d)
          PROVE  call'[d] = [call[d] EXCEPT !.step = "judged", !.ends = Ends(d)]
                 /\ \A e \in Calls \ {d} : call'[e] = call[e]
      BY <3>2, <3>4
    <3>5. PICK d \in Calls : Writes(d) \/ Judged(d)
      BY <3>1, <3>2
    <3> HIDE DEF Writes, Judged
    <3>6. d = c /\ Judged(c)
      BY <2>5, <3>3, <3>4, <3>5
    <3>7. call[c] \in [step: {"free", "standing", "judged", "sign_out"}, now: Clock,
                       read: SessionRow, usedBefore: Clock,
                       ends: SUBSET [at: Clock, reason: EndedReason]]
      BY DEF SessionsIInv, SessionsTypeOK
    <3>8. QED
      BY <3>4, <3>6, <3>7
  <2>6. QED
    BY <2>3, <2>4, <2>5 DEF IsServed, IsIdledOut
<1>2. QED
  BY <1>1, SessionsInductive, PTL DEF SessionsSpec, LimitsHoldAsUsed
-----------------------------------------------------------------------------
(* Signing in, for any attempts at once and any pauses.                    *)
(*                                                                         *)
(* The argument: only an attempt that read fewer failures than the free    *)
(* ones can count another without a pause, and no attempt does so twice;   *)
(* and an attempt that may still pause the account began before the pause  *)
(* under way, which turns away every other.                                *)

\* The attempts that would count a wrong password without a pause.
CountingFree == {a \in Guesses : tried[a].step = "verifying" /\ tried[a].read.failures < FreeFailures}

FreeCountsRunOut ==
  account.pausedUntil = NotSet =>
    account.failures + Cardinality(CountingFree) < FreeFailures + Cardinality(Guesses)

\* Whoever checks a password began by now, and before the pause under way.
AttemptsPrecedeThePause ==
  \A a \in Guesses : tried[a].step = "verifying" =>
    /\ tried[a].at <= minute
    /\ IsPaused(account, minute) => tried[a].at <= pausedSince

SignInIInv == SignInTypeOK /\ FreeCountsRunOut /\ AttemptsPrecedeThePause /\ PausesEnd

\* A power of two is a natural number and not zero: so many sets a set of as
\* many members has.
LEMMA PowersOfTwo ==
  ASSUME NEW n \in Nat
  PROVE  2 ^ n \in Nat \ {0}
<1>1. IsFiniteSet(1 .. n) /\ Cardinality(1 .. n) = n
  BY FS_Interval
<1>2. IsFiniteSet(SUBSET (1 .. n)) /\ Cardinality(SUBSET (1 .. n)) = 2 ^ n
  BY <1>1, FS_SUBSET
<1>3. SUBSET (1 .. n) # {}
  OBVIOUS
<1>4. Cardinality(SUBSET (1 .. n)) \in Nat /\ Cardinality(SUBSET (1 .. n)) # 0
  BY <1>2, <1>3, FS_CardinalityType, FS_EmptySet
<1>5. QED
  BY <1>2, <1>4

\* The smaller of two is one of them, and no larger than either.
LEMMA MinOfTwo ==
  ASSUME NEW a \in Int, NEW b \in Int
  PROVE  Min({a, b}) \in {a, b} /\ Min({a, b}) <= a /\ Min({a, b}) <= b
<1>1. \E x \in {a, b} : \A y \in {a, b} : x <= y
  <2>1. CASE a <= b
    BY <2>1
  <2>2. CASE b <= a
    BY <2>2
  <2>3. QED
    BY <2>1, <2>2
<1>2. QED
  BY <1>1 DEF Min

\* The free failures give no pause, each later one a pause, none above the longest.
LEMMA PauseAfterFact ==
  ASSUME NEW failures \in Nat
  PROVE  /\ PauseAfter(failures) \in 0 .. LongestPause
         /\ PauseAfter(failures) = 0 <=> failures <= FreeFailures
<1>1. {FreeFailures, FirstPause, LongestPause} \subseteq Nat \ {0}
  BY SignInConstants
<1>2. CASE failures <= FreeFailures
  BY <1>1, <1>2 DEF PauseAfter
<1>3. CASE ~(failures <= FreeFailures)
  <2> DEFINE power == 2 ^ (failures - FreeFailures - 1)
             pause == FirstPause * power
  <2>1. failures - FreeFailures - 1 \in Nat
    BY <1>1, <1>3
  <2>2. power \in Nat \ {0}
    BY <2>1, PowersOfTwo
  <2> HIDE DEF power
  <2>3. pause \in Nat \ {0}
    BY <1>1, <2>2
  <2> HIDE DEF pause
  <2>4. /\ Min({pause, LongestPause}) \in {pause, LongestPause}
        /\ Min({pause, LongestPause}) <= LongestPause
    <3>1. pause \in Int /\ LongestPause \in Int
      BY <1>1, <2>3
    <3>2. QED
      BY ONLY <3>1, MinOfTwo
  <2>5. PauseAfter(failures) = Min({pause, LongestPause})
    BY <1>3 DEF PauseAfter, pause, power
  <2>6. QED
    BY <1>1, <1>3, <2>3, <2>4, <2>5
<1>4. QED
  BY <1>2, <1>3

\* A wrong password sets no pause where it counts free, or one of the longest at
\* most from when its attempt began.
LEMMA UntilFact ==
  ASSUME NEW read \in Candidate, NEW at \in Nat
  PROVE  /\ Until(read, at) \in Int
         /\ Until(read, at) = NotSet <=> read.failures < FreeFailures
         /\ Until(read, at) <= at + LongestPause
<1>1. read.failures + 1 \in Nat /\ FreeFailures \in Nat /\ LongestPause \in Nat
  BY SignInConstants DEF Candidate
<1>2. /\ PauseAfter(read.failures + 1) \in 0 .. LongestPause
      /\ PauseAfter(read.failures + 1) = 0 <=> read.failures + 1 <= FreeFailures
  BY <1>1, PauseAfterFact
<1>3. read.failures \in Nat
  BY DEF Candidate
<1>4. QED
  BY <1>1, <1>2, <1>3 DEF Until, NotSet

\* The row with another count and another pause.
With(row, failures, until) == [row EXCEPT !.failures = failures, !.pausedUntil = until]

\* It is a row, with that count and that pause.
LEMMA RowWith ==
  ASSUME NEW row \in Candidate, NEW failures \in Nat, NEW until \in Int
  PROVE  /\ With(row, failures, until) \in Candidate
         /\ With(row, failures, until).failures = failures
         /\ With(row, failures, until).pausedUntil = until
<1> DEFINE new == With(row, failures, until)
<1> DEFINE counted == [row EXCEPT !.failures = failures]
<1>1. counted \in Candidate /\ counted.failures = failures
  BY DEF Candidate
<1>2. new = [counted EXCEPT !.pausedUntil = until]
  BY DEF Candidate, With
<1> HIDE DEF counted, new
<1>3. new \in Candidate /\ new.failures = counted.failures /\ new.pausedUntil = until
  BY <1>1, <1>2 DEF Candidate
<1>4. QED
  BY <1>1, <1>3 DEF new

\* Free counts are attempts, and so no more than the attempts there are.
LEMMA CountingFreeBounds ==
  /\ IsFiniteSet(CountingFree) /\ Cardinality(CountingFree) \in Nat
  /\ Cardinality(Guesses) \in Nat /\ Cardinality(CountingFree) <= Cardinality(Guesses)
<1>1. IsFiniteSet(Guesses) /\ CountingFree \in SUBSET Guesses
  BY SignInConstants DEF CountingFree
<1>2. QED
  BY <1>1, FS_Subset, FS_CardinalityType

\* An attempt answered leaves the others as they were.
LEMMA AnswerLeaves ==
  ASSUME SignInTypeOK, NEW a \in Guesses, Answer(a)
  PROVE  /\ tried' \in [Guesses -> [step: {"free", "verifying"}, read: Candidate, at: Minutes]]
         /\ tried'[a].step = "free"
         /\ \A b \in Guesses \ {a} : tried'[b] = tried[b]
         /\ CountingFree' = CountingFree \ {a}
<1>1. NotTrying \in [step: {"free", "verifying"}, read: Candidate, at: Minutes]
  BY SignInConstants DEF NotTrying, FreshAccount, Candidate, Standings, NotSet, Minutes
<1>2. /\ tried' \in [Guesses -> [step: {"free", "verifying"}, read: Candidate, at: Minutes]]
      /\ tried'[a] = NotTrying
      /\ \A b \in Guesses \ {a} : tried'[b] = tried[b]
  BY <1>1 DEF SignInTypeOK, Answer
<1>3. NotTrying.step = "free"
  BY DEF NotTrying
<1>4. QED
  BY <1>2, <1>3 DEF CountingFree

\* It holds before anyone has tried.
LEMMA SignInInitInvariant == SignInInit => SignInIInv
<1> SUFFICES ASSUME SignInInit
             PROVE  SignInIInv
  OBVIOUS
<1>1. {FreeFailures, LongestPause, LastMinute} \subseteq Nat \ {0}
  BY SignInConstants
<1>2. FreshAccount \in Candidate /\ FreshAccount.failures = 0 /\ FreshAccount.pausedUntil = -1
  BY DEF FreshAccount, Candidate, Standings, NotSet
<1>3. SignInTypeOK
  BY <1>1, <1>2 DEF SignInInit, SignInTypeOK, NotTrying, Minutes
<1>4. CountingFree = {}
  BY DEF SignInInit, CountingFree, NotTrying
<1>5. FreeCountsRunOut
  BY <1>1, <1>2, <1>4, CountingFreeBounds, FS_EmptySet DEF SignInInit, FreeCountsRunOut
<1>6. AttemptsPrecedeThePause /\ PausesEnd
  BY <1>2 DEF SignInInit, AttemptsPrecedeThePause, PausesEnd, IsPaused, NotTrying
<1>7. QED
  BY <1>3, <1>5, <1>6 DEF SignInIInv

\* An attempt that begins read the account with no pause under way.
LEMMA ReadCandidateKeeps ==
  ASSUME SignInIInv, NEW a \in Guesses, ReadCandidate(a)
  PROVE  SignInIInv'
<1> DEFINE new == [step |-> "verifying", read |-> account, at |-> minute]
<1>1. SignInTypeOK /\ ~IsPaused(account, minute) /\ UNCHANGED <<minute, account, pausedSince>>
  BY DEF SignInIInv, ReadCandidate, TurnsAway
<1>2. /\ tried' = [tried EXCEPT ![a] = new]
      /\ new \in [step: {"free", "verifying"}, read: Candidate, at: Minutes]
  BY <1>1 DEF ReadCandidate, SignInTypeOK
<1>3. new.step = "verifying" /\ new.read = account /\ new.at = minute
  OBVIOUS
<1> HIDE DEF new
<1>4. SignInTypeOK'
  BY <1>1, <1>2 DEF SignInTypeOK
<1>5. tried'[a] = new /\ \A b \in Guesses \ {a} : tried'[b] = tried[b]
  BY <1>1, <1>2 DEF SignInTypeOK
<1>6. ~IsPaused(account', minute')
  BY <1>1
<1>7. minute \in Nat /\ account.failures \in Nat /\ FreeFailures \in Nat
  BY <1>1, SignInConstants DEF SignInTypeOK, Candidate, Minutes
<1>8. AttemptsPrecedeThePause' /\ PausesEnd'
  BY <1>1, <1>3, <1>5, <1>6, <1>7 DEF SignInIInv, AttemptsPrecedeThePause, PausesEnd
<1>9. FreeCountsRunOut'
  <2>1. CASE account.failures < FreeFailures
    <3>1. Cardinality(CountingFree') <= Cardinality(Guesses) /\ Cardinality(CountingFree') \in Nat
          /\ Cardinality(Guesses) \in Nat
      <4>1. IsFiniteSet(Guesses) /\ CountingFree' \in SUBSET Guesses
        BY SignInConstants DEF CountingFree
      <4>2. QED
        BY <4>1, FS_Subset, FS_CardinalityType
    <3>2. QED
      BY <1>1, <1>7, <2>1, <3>1 DEF FreeCountsRunOut
  <2>2. CASE ~(account.failures < FreeFailures)
    <3>1. tried[a].step = "free"
      BY DEF ReadCandidate
    <3>2. CountingFree' = CountingFree
      BY <1>3, <1>5, <2>2, <3>1 DEF CountingFree
    <3>3. QED
      BY <1>1, <3>2 DEF SignInIInv, FreeCountsRunOut
  <2>3. QED
    BY <2>1, <2>2
<1>10. QED
  BY <1>4, <1>8, <1>9 DEF SignInIInv

\* A wrong password counts by what its attempt read, and pauses from when it began.
LEMMA RecordFailureKeeps ==
  ASSUME SignInIInv, NEW a \in Guesses, RecordFailure(a)
  PROVE  SignInIInv'
<1> DEFINE until == Until(tried[a].read, tried[a].at)
<1>1. /\ SignInTypeOK /\ minute' = minute /\ minute \in Nat /\ pausedSince \in Minutes
      /\ minute \in Minutes /\ account \in Candidate /\ account.failures \in Nat
      /\ account.pausedUntil \in Int /\ LongestPause \in Nat /\ FreeFailures \in Nat
  BY SignInConstants DEF SignInIInv, SignInTypeOK, RecordFailure, Minutes, Candidate
<1>2. tried[a].read \in Candidate /\ tried[a].at \in Nat /\ tried[a].at <= minute
  BY SignInConstants DEF SignInIInv, SignInTypeOK, RecordFailure, Minutes, AttemptsPrecedeThePause
<1>3. /\ until \in Int
      /\ until = NotSet <=> tried[a].read.failures < FreeFailures
      /\ until <= tried[a].at + LongestPause
  BY <1>2, UntilFact
<1>4. account' = Counted(account, until)
  BY DEF RecordFailure
<1> HIDE DEF until
<1>5. /\ account' \in Candidate /\ account'.failures = account.failures + 1
      /\ account'.pausedUntil = IF until = NotSet THEN account.pausedUntil ELSE until
  <2> DEFINE failures == account.failures + 1
             kept == IF until = NotSet THEN account.pausedUntil ELSE until
  <2>1. failures \in Nat /\ kept \in Int
    BY <1>1, <1>3
  <2>2. account' = With(account, failures, kept)
    BY <1>4 DEF Counted, With
  <2> HIDE DEF failures, kept
  <2>3. account' \in Candidate /\ account'.failures = failures /\ account'.pausedUntil = kept
    <3>1. account \in Candidate
      BY <1>1
    <3>2. QED
      BY <2>1, <2>2, <3>1, RowWith
  <2>4. QED
    BY <2>3 DEF failures, kept
<1>6. /\ tried' \in [Guesses -> [step: {"free", "verifying"}, read: Candidate, at: Minutes]]
      /\ tried'[a].step = "free"
      /\ \A b \in Guesses \ {a} : tried'[b] = tried[b]
      /\ CountingFree' = CountingFree \ {a}
  BY <1>1, AnswerLeaves DEF RecordFailure
<1>7. pausedSince' = IF IsPaused(account', minute) /\ ~IsPaused(account, minute)
                     THEN minute ELSE pausedSince
  BY <1>1 DEF RecordFailure, NotePause
<1>8. SignInTypeOK'
  BY <1>1, <1>5, <1>6, <1>7 DEF SignInTypeOK
<1>9. AttemptsPrecedeThePause'
  BY <1>1, <1>6, <1>7 DEF SignInIInv, AttemptsPrecedeThePause
<1>10. PausesEnd'
  <2>1. tried[a].step = "verifying"
    BY DEF RecordFailure
  <2>2. IsPaused(account, minute) => tried[a].at <= pausedSince /\ account.pausedUntil <= pausedSince + LongestPause
    BY <2>1 DEF SignInIInv, AttemptsPrecedeThePause, PausesEnd
  <2>3. pausedSince \in Nat
    BY <1>1 DEF Minutes
  <2>4. QED
    BY <1>1, <1>2, <1>3, <1>5, <1>7, <2>2, <2>3 DEF PausesEnd, IsPaused
<1>11. FreeCountsRunOut'
  <2>1. CASE tried[a].read.failures < FreeFailures
    <3>1. a \in CountingFree
      BY <2>1 DEF CountingFree, RecordFailure
    <3>2. Cardinality(CountingFree') = Cardinality(CountingFree) - 1
      BY <1>6, <3>1, CountingFreeBounds, FS_RemoveElement
    <3>3. account'.pausedUntil = account.pausedUntil
      BY <1>3, <1>5, <2>1
    <3>4. QED
      BY <1>1, <1>5, <3>2, <3>3, CountingFreeBounds DEF SignInIInv, FreeCountsRunOut
  <2>2. CASE ~(tried[a].read.failures < FreeFailures)
    BY <1>3, <1>5, <2>2 DEF FreeCountsRunOut
  <2>3. QED
    BY <2>1, <2>2
<1>12. QED
  BY <1>8, <1>9, <1>10, <1>11 DEF SignInIInv

\* A right password clears the count, or changes nothing.
LEMMA RightPasswordKeeps ==
  ASSUME SignInIInv, NEW a \in Guesses, RefuseAccount(a) \/ OpenSession(a)
  PROVE  SignInIInv'
<1>1. /\ SignInTypeOK /\ minute' = minute /\ pausedSince \in Minutes
      /\ minute \in Minutes /\ account \in Candidate /\ account.failures \in Nat
      /\ account.pausedUntil \in Int /\ FreeFailures \in Nat \ {0}
  BY SignInConstants DEF SignInIInv, SignInTypeOK, RefuseAccount, OpenSession, Candidate
<1>2. /\ tried' \in [Guesses -> [step: {"free", "verifying"}, read: Candidate, at: Minutes]]
      /\ tried'[a].step = "free"
      /\ \A b \in Guesses \ {a} : tried'[b] = tried[b]
      /\ CountingFree' = CountingFree \ {a}
  BY <1>1, AnswerLeaves DEF RefuseAccount, OpenSession
<1>3. tried[a].step = "verifying"
  BY DEF RefuseAccount, OpenSession
<1>4. /\ Cardinality(CountingFree') \in Nat /\ Cardinality(CountingFree') <= Cardinality(CountingFree)
      /\ Cardinality(CountingFree') < Cardinality(Guesses) /\ Cardinality(Guesses) \in Nat
      /\ Cardinality(CountingFree) \in Nat
  <2>1. IsFiniteSet(CountingFree') /\ CountingFree' \in SUBSET CountingFree
    BY <1>2, CountingFreeBounds, FS_Subset
  <2>2. CountingFree' \in SUBSET (Guesses \ {a}) /\ IsFiniteSet(Guesses) /\ a \in Guesses
    BY <1>2, SignInConstants DEF CountingFree
  <2>3. IsFiniteSet(Guesses \ {a}) /\ Cardinality(Guesses \ {a}) = Cardinality(Guesses) - 1
    BY <2>2, FS_RemoveElement
  <2>4. Cardinality(CountingFree') <= Cardinality(Guesses \ {a})
    BY <2>2, <2>3, FS_Subset
  <2>5. Cardinality(CountingFree') <= Cardinality(CountingFree)
    BY <2>1, CountingFreeBounds, FS_Subset
  <2>6. QED
    BY <2>1, <2>3, <2>4, <2>5, CountingFreeBounds, FS_CardinalityType
<1>5. CASE RefuseAccount(a)
  <2>1. UNCHANGED <<minute, account, pausedSince>>
    BY <1>5 DEF RefuseAccount
  <2>2. SignInTypeOK'
    BY <1>1, <1>2, <2>1 DEF SignInTypeOK
  <2>3. FreeCountsRunOut'
    BY <1>1, <1>4, <2>1 DEF SignInIInv, FreeCountsRunOut
  <2>4. AttemptsPrecedeThePause' /\ PausesEnd'
    BY <1>2, <2>1 DEF SignInIInv, AttemptsPrecedeThePause, PausesEnd
  <2>5. QED
    BY <2>2, <2>3, <2>4 DEF SignInIInv
<1>6. CASE OpenSession(a)
  <2>1. account' = With(account, 0, NotSet)
    BY <1>6 DEF OpenSession, With
  <2>2. account' \in Candidate /\ account'.failures = 0 /\ account'.pausedUntil = -1
    <3>1. account \in Candidate /\ 0 \in Nat /\ NotSet \in Int /\ NotSet = -1
      BY <1>1 DEF NotSet
    <3>2. QED
      BY <2>1, <3>1, RowWith
  <2>3. minute \in Nat
    BY <1>1, SignInConstants DEF Minutes
  <2>4. ~IsPaused(account', minute)
    BY <2>2, <2>3 DEF IsPaused
  <2>5. pausedSince' = pausedSince
    BY <1>1, <1>6, <2>4 DEF OpenSession, NotePause
  <2>6. SignInTypeOK'
    BY <1>1, <1>2, <2>2, <2>5 DEF SignInTypeOK
  <2>7. FreeCountsRunOut'
    BY <1>1, <1>4, <2>2 DEF FreeCountsRunOut
  <2>8. AttemptsPrecedeThePause' /\ PausesEnd'
    BY <1>1, <1>2, <2>4 DEF SignInIInv, AttemptsPrecedeThePause, PausesEnd
  <2>9. QED
    BY <2>6, <2>7, <2>8 DEF SignInIInv
<1>7. QED
  BY <1>5, <1>6

\* A reset clears the count and the pause under every attempt.
LEMMA ResetKeeps ==
  ASSUME SignInIInv, ResetFailures
  PROVE  SignInIInv'
<1>1. /\ SignInTypeOK /\ pausedSince \in Minutes /\ minute \in Nat /\ FreeFailures \in Nat \ {0}
      /\ account \in Candidate /\ UNCHANGED <<minute, tried>> /\ CountingFree' = CountingFree
  BY SignInConstants DEF SignInIInv, SignInTypeOK, ResetFailures, Minutes, CountingFree
<1> DEFINE cleared == With(account, 0, NotSet)
           is == IF cleared.is = "expired" THEN "enabled" ELSE cleared.is
<1>2. cleared \in Candidate /\ cleared.failures = 0 /\ cleared.pausedUntil = -1
  <2>1. 0 \in Nat /\ NotSet \in Int /\ NotSet = -1
    BY DEF NotSet
  <2>2. QED
    BY <1>1, <2>1, RowWith
<1>3. account' = [cleared EXCEPT !.is = is]
  BY <1>1 DEF ResetFailures, With, Candidate
<1> HIDE DEF cleared
<1>4. account' \in Candidate /\ account'.failures = 0 /\ account'.pausedUntil = -1
  BY <1>2, <1>3 DEF Candidate, Standings
<1>5. ~IsPaused(account', minute)
  BY <1>1, <1>4 DEF IsPaused
<1>6. pausedSince' = pausedSince
  BY <1>1, <1>5 DEF ResetFailures, NotePause
<1>7. SignInTypeOK'
  BY <1>1, <1>4, <1>6 DEF SignInTypeOK
<1>8. FreeCountsRunOut'
  BY <1>1, <1>4, CountingFreeBounds DEF FreeCountsRunOut
<1>9. AttemptsPrecedeThePause' /\ PausesEnd'
  BY <1>1, <1>5 DEF SignInIInv, AttemptsPrecedeThePause, PausesEnd
<1>10. QED
  BY <1>7, <1>8, <1>9 DEF SignInIInv

\* Every step keeps the invariant.
LEMMA SignInNextInvariant == SignInIInv /\ [SignInNext]_signInVars => SignInIInv'
<1> SUFFICES ASSUME SignInIInv, [SignInNext]_signInVars
             PROVE  SignInIInv'
  OBVIOUS
<1>1. CASE UNCHANGED signInVars
  <2>1. UNCHANGED <<minute, account, tried, pausedSince>> /\ CountingFree' = CountingFree
    BY <1>1 DEF signInVars, CountingFree
  <2>2. QED
    BY <2>1 DEF SignInIInv, SignInTypeOK, FreeCountsRunOut, AttemptsPrecedeThePause, PausesEnd
<1>2. CASE ChangeStanding
  <2>1. PICK is \in Standings : account' = [account EXCEPT !.is = is]
    BY <1>2 DEF ChangeStanding
  <2>2. /\ account' \in Candidate /\ account'.failures = account.failures
        /\ account'.pausedUntil = account.pausedUntil
    BY <2>1 DEF SignInIInv, SignInTypeOK, Candidate
  <2>3. UNCHANGED <<minute, tried, pausedSince>> /\ CountingFree' = CountingFree
    BY <1>2 DEF ChangeStanding, CountingFree
  <2>4. IsPaused(account', minute) <=> IsPaused(account, minute)
    BY <2>2 DEF IsPaused
  <2>5. QED
    BY <2>2, <2>3, <2>4 DEF SignInIInv, SignInTypeOK, FreeCountsRunOut, AttemptsPrecedeThePause, PausesEnd
<1>3. CASE Wait
  <2>1. minute' = minute + 1 /\ minute' \in Minutes /\ minute \in Nat /\ account.pausedUntil \in Int
    BY <1>3, SignInConstants DEF Wait, SignInIInv, SignInTypeOK, Minutes, Candidate
  <2>2. UNCHANGED <<account, tried, pausedSince>> /\ CountingFree' = CountingFree
    BY <1>3 DEF Wait, CountingFree
  <2>3. IsPaused(account, minute') => IsPaused(account, minute)
    BY <2>1 DEF IsPaused
  <2>4. \A a \in Guesses : tried[a].at \in Nat
    BY DEF SignInIInv, SignInTypeOK, Minutes
  <2>5. QED
    BY <2>1, <2>2, <2>3, <2>4
       DEF SignInIInv, SignInTypeOK, FreeCountsRunOut, AttemptsPrecedeThePause, PausesEnd
<1>4. QED
  BY <1>1, <1>2, <1>3, ReadCandidateKeeps, RecordFailureKeeps, RightPasswordKeeps, ResetKeeps
     DEF SignInNext

\* Every variable keeps its type, whatever is tried at once.
THEOREM SignInTypeCorrect == SignInSpec => []SignInTypeOK
<1>1. SignInIInv => SignInTypeOK
  BY DEF SignInIInv
<1>2. QED
  BY <1>1, SignInInitInvariant, SignInNextInvariant, PTL DEF SignInSpec

\* However many wrong passwords are tried at once, the account pauses before it
\* has counted more than the free ones and one for each attempt, and no pause
\* outlasts the longest counted from when it began.
THEOREM WrongPasswordsAreSlowed == SignInSpec => []GuessingIsSlowed
<1>1. SignInIInv => GuessingIsSlowed
  <2> SUFFICES ASSUME SignInIInv
               PROVE  GuessingIsSlowed
    OBVIOUS
  <2>1. account.failures \in Nat /\ FreeFailures \in Nat
    BY SignInConstants DEF SignInIInv, SignInTypeOK, Candidate
  <2>2. WrongPasswordsPause
    BY <2>1, CountingFreeBounds DEF SignInIInv, FreeCountsRunOut, WrongPasswordsPause
  <2>3. QED
    BY <2>2 DEF SignInIInv, GuessingIsSlowed
<1>2. QED
  BY <1>1, SignInInitInvariant, SignInNextInvariant, PTL DEF SignInSpec

-----------------------------------------------------------------------------
(* The parts side by side (MCParts), for any values of their constants.    *)
(*                                                                         *)
(* The argument: a step of one part leaves every other's variables as they *)
(* are, so a behaviour of the harness is one of each part, and what is     *)
(* proved of a part alone holds in the run that checks them together.      *)

\* Every part takes a step of its own or rests, and the part that runs stays the one.
EveryPartGoesOn ==
  /\ part' = part
  /\ [IdentityNext]_identityVars /\ [BhavcopiesNext]_fileVars /\ [ActionsNext]_actionVars
  /\ [DeliveriesNext]_deliveryVars /\ [ListsNext]_listVars /\ [ClientNext]_clientVars
  /\ [FlowsNext]_flowVars /\ [FeaturesNext]_featureVars /\ [SignInNext]_signInVars
  /\ [SessionsNext]_sessionVars /\ [SavedViewsNext]_savedViewVars

\* A step of the harness is one of the part that runs, and the others rest.
LEMMA PartStep == [PartsNext]_partVars => EveryPartGoesOn
<1> SUFFICES ASSUME [PartsNext]_partVars
             PROVE  EveryPartGoesOn
  OBVIOUS
<1> USE DEF EveryPartGoesOn
<1>0. CASE UNCHANGED partVars
  BY <1>0 DEF partVars, Ingested
<1>1. CASE part = "identity" /\ IdentityNext /\ OthersRest("identity")
  BY <1>1 DEF OthersRest
<1>2. CASE part = "bhavcopies" /\ BhavcopiesNext /\ OthersRest("bhavcopies")
  BY <1>2 DEF OthersRest
<1>3. CASE part = "actions" /\ ActionsNext /\ OthersRest("actions")
  BY <1>3 DEF OthersRest
<1>4. CASE part = "deliveries" /\ DeliveriesNext /\ OthersRest("deliveries")
  BY <1>4 DEF OthersRest
<1>5. CASE part = "lists" /\ ListsNext /\ OthersRest("lists")
  BY <1>5 DEF OthersRest
<1>6. CASE part = "client" /\ ClientNext /\ OthersRest("client")
  BY <1>6 DEF OthersRest
<1>7. CASE part = "flows" /\ FlowsNext /\ OthersRest("flows")
  BY <1>7 DEF OthersRest
<1>8. CASE part = "features" /\ FeaturesNext /\ OthersRest("features")
  BY <1>8 DEF OthersRest
<1>9. CASE part = "sign_in" /\ SignInNext /\ OthersRest("sign_in")
  BY <1>9 DEF OthersRest
<1>10. CASE part = "sessions" /\ SessionsNext /\ OthersRest("sessions")
  BY <1>10 DEF OthersRest
<1>11. CASE part = "saved_views" /\ SavedViewsNext /\ OthersRest("saved_views")
  BY <1>11 DEF OthersRest
<1>12. QED
  BY <1>0, <1>1, <1>2, <1>3, <1>4, <1>5, <1>6, <1>7, <1>8, <1>9, <1>10, <1>11 DEF PartsNext

\* The harness adds nothing to any part: each of its behaviours is one of every part,
\* so that each invariant and action property proved of a part holds in the run.
THEOREM PartsRunAsAlone ==
  PartsSpec => /\ IdentitySpec /\ BhavcopiesSpec /\ ActionsSpec /\ DeliveriesSpec
               /\ ListsSpec /\ ClientSpec /\ FlowsSpec /\ FeaturesSpec
               /\ SignInSpec /\ SessionsSpec /\ SavedViewsSpec
<1>1. PartsInit => /\ IdentityInit /\ BhavcopiesInit /\ ActionsInit /\ DeliveriesInit
                   /\ ListsInit /\ ClientInit /\ FlowsInit /\ FeaturesInit
                   /\ SignInInit /\ SessionsInit /\ SavedViewsInit
  BY DEF PartsInit
<1>2. [PartsNext]_partVars => EveryPartGoesOn
  BY PartStep
<1>3. QED
  BY <1>1, <1>2, PTL DEF PartsSpec, EveryPartGoesOn, IdentitySpec, BhavcopiesSpec, ActionsSpec,
     DeliveriesSpec, ListsSpec, ClientSpec, FlowsSpec, FeaturesSpec, SignInSpec, SessionsSpec,
     SavedViewsSpec

\* For any values of the constants, every variable of every part has its type
\* throughout a behaviour of the harness.
THEOREM PartsTypeCorrect == PartsSpec => []PartsTypeOK
<1>1. PartsInit => part \in Parties
  BY DEF PartsInit
<1>2. part \in Parties /\ [PartsNext]_partVars => (part \in Parties)'
  BY PartStep DEF EveryPartGoesOn
<1>3. /\ part \in Parties
      /\ IdentityTypeOK /\ BhavcopiesTypeOK /\ ActionsTypeOK /\ DeliveriesTypeOK
      /\ ListsTypeOK /\ ClientTypeOK /\ FlowsTypeOK /\ FeaturesTypeOK
      /\ SignInTypeOK /\ SessionsTypeOK /\ SavedViewsTypeOK
      => PartsTypeOK
  BY DEF PartsTypeOK
<1>4. QED
  BY <1>1, <1>2, <1>3, PartsRunAsAlone, IdentityTypeCorrect, FilesTypeCorrect, ActionsTypeCorrect,
     DeliveriesTypeCorrect, ListsTypeCorrect, SourceTypeCorrect, FlowsTypeCorrect,
     FeaturesTypeCorrect, SignInTypeCorrect, SessionsTypeCorrect, ViewsTypeCorrect,
     PTL DEF PartsSpec

\* Whatever the constants are, successions both ways among them, the tables of actions,
\* names and face values are tables of facts throughout the run.
THEOREM TablesKeepTheirFacts == PartsSpec => TablesOfFacts
<1>1. ActionsSpec => ActionFacts!FactsSpec
  BY ActionsAreFacts, PTL
<1>2. QED
  BY <1>1, PartsRunAsAlone, NamesAreFacts, PTL DEF TablesOfFacts
=============================================================================
