----------------------------- MODULE SavedViews -----------------------------
(***************************************************************************)
(* The screens people keep under a name: api/services/saved_screener_      *)
(* views.py, the reading of a screen's address in screener_queries.py, and *)
(* the table, policy and unique index of migration 0025.                   *)
(*                                                                         *)
(* Each change is one statement in a transaction of its own.  It takes its *)
(* row's lock, and where it gives a view a name it waits for whoever is    *)
(* changing or removing a view of that name; two that wait for each other  *)
(* are a deadlock, which Postgres ends by failing one.  An address is the  *)
(* parts it names, each among those the reading tells apart.               *)
(***************************************************************************)
EXTENDS Integers, Sequences, FiniteSets

CONSTANTS Changers,   \* the requests under way at once
          People,     \* the owners
          Views,      \* bound: the ids the table hands out
          ViewNames,  \* pairs <<word, case>>: two that differ in case are one name
          Addresses,  \* what may be asked to be kept
          NoName      \* no name, or no address, in a change

Absent == "absent"

\* An address after its "?".  A gate is absent, off, on its own figure or on
\* another; a criterion and a sort name a figure or something else.
Address == [gate: {Absent, "none", "adtv", "other"}, kind: {Absent, "companies", "all", "other"},
            criteria: Seq({"figure", "flag", "other"}), sort: {Absent, "figure", "other"},
            page: Nat, unknown: BOOLEAN, repeated: BOOLEAN]

ASSUME SavedViewsConstants ==
  /\ IsFiniteSet(Changers) /\ IsFiniteSet(Views)
  /\ NoName \notin ViewNames \union Addresses
  /\ Addresses \subseteq Address
  /\ Absent \notin People

VARIABLES views,      \* each id's row of screener_view
          change      \* each request's statement

savedViewVars == <<views, change>>

NoView == [owner |-> Absent, name |-> NoName, query |-> NoName, shown |-> NoName, kept |-> FALSE]
NoChange == [op |-> "none", owner |-> Absent, view |-> 0, name |-> NoName,
             address |-> NoName, step |-> "free"]

-----------------------------------------------------------------------------
(* A screen, from its address.                                             *)

\* criterion and screen_from: the parts no screen may have refuse it whole.
IsScreen(a) ==
  /\ a.gate # "other" /\ a.sort # "other" /\ a.kind # "other"
  /\ \A i \in DOMAIN a.criteria : a.criteria[i] # "other"

\* screen_from, with the router's defaults: companies past the gate, the most
\* traded first.
Screen(a) ==
  [gate |-> IF a.gate = Absent THEN "default" ELSE a.gate,
   kind |-> IF a.kind = "all" THEN "all" ELSE "companies",
   criteria |-> a.criteria,
   sort |-> IF a.sort = Absent THEN "most_traded" ELSE a.sort,
   page |-> a.page]

\* kept_query refuses a part it does not know, one named twice, or no screen.
MayBeKept(a) == ~a.unknown /\ ~a.repeated /\ IsScreen(a)

\* kept_query: the default kind and the page left out.
KeptQuery(a) == [a EXCEPT !.page = 1, !.kind = IF @ = "all" THEN "all" ELSE Absent]

-----------------------------------------------------------------------------
(* The table.                                                              *)

\* Variant: an index of names as they are written.
SameNameAsWritten(one, other) == one = other

\* uq_screener_view_kept_name is over lower(name).
SameName(one, other) == one[1] = other[1]

\* The row a statement changes: a new one, or the one it names.
WritingView(c) == change[c].step = "writing"
Holds(c, v) == WritingView(c) /\ change[c].view = v
IsHeld(v)   == \E c \in Changers : Holds(c, v)

\* The kept views of the person with the name a statement gives: the index
\* leaves out a removed one.
Rivals(c) ==
  IF change[c].name = NoName THEN {}
  ELSE {v \in Views : /\ v # change[c].view
                      /\ views[v].kept /\ views[v].owner = change[c].owner
                      /\ SameName(views[v].name, change[c].name)}

Waits(c, other) == WritingView(c) /\ \E v \in Rivals(c) : Holds(other, v)

-----------------------------------------------------------------------------
SavedViewsInit ==
  /\ views = [v \in Views |-> NoView]
  /\ change = [c \in Changers |-> NoChange]

FreeChange(c) == change' = [change EXCEPT ![c] = NoChange]

\* A person asks to keep a screen, to change a view or to remove one; the
\* screen is read before anything is written, and an unknown one refused.
AskChange(c) ==
  /\ change[c].step = "free"
  /\ \E owner \in People :
       \/ \E name \in ViewNames, a \in Addresses :
            /\ MayBeKept(a)
            /\ \E v \in Views : /\ views[v].owner = Absent /\ ~IsHeld(v)
                                /\ change' = [change EXCEPT ![c] =
                                     [op |-> "save", owner |-> owner, view |-> v, name |-> name,
                                      address |-> a, step |-> "writing"]]
       \/ \E v \in Views, name \in ViewNames \union {NoName}, a \in Addresses \union {NoName} :
            /\ a # NoName => MayBeKept(a)
            /\ change' = [change EXCEPT ![c] =
                 [op |-> "change", owner |-> owner, view |-> v, name |-> name,
                  address |-> a, step |-> "finding"]]
       \/ \E v \in Views :
            change' = [change EXCEPT ![c] =
              [op |-> "remove", owner |-> owner, view |-> v, name |-> NoName,
               address |-> NoName, step |-> "finding"]]
  /\ UNCHANGED views

\* CHANGE and REMOVE reach a view the person keeps, once no one else holds it;
\* view_not_found otherwise.
FindRow(c) ==
  LET v == change[c].view
  IN  /\ change[c].step = "finding"
      /\ ~IsHeld(v)
      /\ IF views[v].kept /\ views[v].owner = change[c].owner
         THEN change' = [change EXCEPT ![c].step = "writing"]
         ELSE FreeChange(c)
      /\ UNCHANGED views

\* The row as the statement leaves it.
ChangedView(c, row) ==
  LET asked == change[c]
      named == [row EXCEPT !.name = IF asked.name = NoName THEN @ ELSE asked.name]
  IN  IF asked.op = "remove" THEN [row EXCEPT !.kept = FALSE]
      ELSE IF asked.address = NoName THEN named
      ELSE [named EXCEPT !.owner = asked.owner, !.kept = TRUE,
                         !.query = KeptQuery(asked.address), !.shown = Screen(asked.address)]

\* SAVE, CHANGE and REMOVE commit.
Commit(c) ==
  /\ WritingView(c)
  /\ Rivals(c) = {}
  /\ views' = [views EXCEPT ![change[c].view] = ChangedView(c, @)]
  /\ FreeChange(c)

\* UniqueViolation, view_name_taken: a kept view has the name, and no one
\* under way may yet change that.
RefuseName(c) ==
  /\ \E v \in Rivals(c) : ~IsHeld(v)
  /\ WritingView(c)
  /\ FreeChange(c)
  /\ UNCHANGED views

\* Postgres fails one of two that wait for each other: the request ends in an
\* error the service does not name.
BreakDeadlock(c) ==
  /\ \E other \in Changers \ {c} : Waits(c, other) /\ Waits(other, c)
  /\ FreeChange(c)
  /\ UNCHANGED views

SavedViewsNext ==
  \E c \in Changers : \/ AskChange(c) \/ FindRow(c) \/ Commit(c)
                      \/ RefuseName(c) \/ BreakDeadlock(c)

SavedViewsSpec == SavedViewsInit /\ [][SavedViewsNext]_savedViewVars

-----------------------------------------------------------------------------
SavedViewsTypeOK ==
  /\ \A v \in Views :
       /\ views[v].owner \in People \union {Absent}
       /\ views[v].kept => views[v].name \in ViewNames
       /\ views[v].kept \in BOOLEAN
  /\ \A c \in Changers :
       /\ change[c].op \in {"none", "save", "change", "remove"}
       /\ change[c].step \in {"free", "finding", "writing"}

\* The names a person keeps differ in more than their case, whichever requests
\* save, rename, swap and free them at once.
OneKeptViewPerName ==
  \A v, w \in Views :
    views[v].kept /\ views[w].kept /\ v # w /\ views[v].owner = views[w].owner
      => views[v].name[1] # views[w].name[1]

\* A view opens the screen it was saved from, at its first page: what is left
\* out of its query is what the screener would have supplied.
OpensTheScreenSaved ==
  \A v \in Views : views[v].kept =>
    /\ MayBeKept(views[v].query)
    /\ Screen(views[v].query) = [views[v].shown EXCEPT !.page = 1]

\* What a saved view promises.
ViewsKeepTheirScreens == OneKeptViewPerName /\ OpensTheScreenSaved
=============================================================================
