--------------------------- MODULE ServingProofs ---------------------------
(***************************************************************************)
(* Proofs about what the API reads while the pipeline writes: the daily    *)
(* features' publication, the reads of the marts, and the two side by side *)
(* (MCServing).  The argument of each stands before its lemmas.            *)
(***************************************************************************)
EXTENDS MCServing, FiniteSetTheorems, TLAPS

-----------------------------------------------------------------------------
(* FeaturePublication, for any number of runs, readers and attempts, runs  *)
(* that meet among them.                                                   *)
(*                                                                         *)
(* The argument: a run that met no other is the only one under way         *)
(* (LoneAlone), so the table it resolved stays the one the view does not   *)
(* read until it repoints the view itself (OffView), and what it wrote     *)
(* stays in that table; into the table of one that met another, only such  *)
(* a run writes (HoldsOwn).  Readers hold only the table the view reads,   *)
(* whoever met (ReadersHoldView): a view is replaced when nobody holds it. *)

\* A run that met no other is alone under way.
LoneAlone == \A r, q \in Runs : UnderWay(r) /\ UnderWay(q) /\ r \notin met => r = q

Resolved  == {"truncate", "emptying", "store", "materialize", "check", "find", "confirm",
              "count", "attempt", "asked"}
Stored    == Resolved \ {"truncate", "emptying", "store"}
Passed    == Stored \ {"materialize", "check"}
Counted   == {"attempt", "asked"}

\* The table a run that met no other resolved is not the one readers see.
OffView == \A r \in Runs \ met : pc[r] \in Resolved => target[r] # view

\* What a run stored is still there, or what another stored that it met; where it
\* met none, sound once the checks have passed, and as it was counted.
HoldsOwn ==
  \A r \in Runs :
    /\ pc[r] \in Stored => \/ tables[target[r]].by = r
                           \/ r \in met /\ tables[target[r]].by \in met
    /\ r \notin met /\ pc[r] \in Passed => tables[target[r]].sound = TRUE
    /\ r \notin met /\ pc[r] \in Counted => counted[r] = tables[target[r]]

\* Whoever holds a table through the view holds the one it reads.
ReadersHoldView == \A p \in Readers : reading[p] # None => reading[p] = view

IInv == TypeOK /\ LoneAlone /\ OffView /\ HoldsOwn /\ ReadersHoldView /\ PublishesOwnAlone

-----------------------------------------------------------------------------
(* What a step of a run comes to.                                          *)

\* The run's progress alone changes.
Moves(r, step) ==
  Goto(r, step) /\ UNCHANGED <<data, status, target, counted, attempts, met, readVars>>

\* The run's last step is over, recorded or not.
Leaves(r) ==
  /\ Leave(r)
  /\ status' = status \/ status' = [status EXCEPT ![r] = "finished"]
  /\ UNCHANGED <<data, met, readVars>>

\* One more attempt is to be made.
Retries(r) ==
  pc[r] = "asked" /\ attempts[r] + 1 # Attempts /\ Again(r) /\ UNCHANGED <<data, met, readVars>>

\* The moves of a run under way, each with the step it is made at.
Onward(r) ==
  \/ pc[r] = "truncate" /\ Moves(r, "emptying")
  \/ pc[r] = "emptying" /\ Moves(r, "store")
  \/ pc[r] = "check" /\ tables[Unpublished].sound /\ Moves(r, "find")
  \/ pc[r] = "find" /\ Moves(r, "confirm")
  \/ pc[r] = "confirm" /\ Moves(r, "count")
  \/ pc[r] = "attempt" /\ Moves(r, "asked")

LEMMA RunKinds ==
  ASSUME NEW r \in Runs, RunNext(r)
  PROVE  \/ Start(r) /\ ~UnderWay(r)
         \/ pc[r] = "waiting" /\ (Moves(r, "ended") \/ Moves(r, "cleared"))
         \/ Resolve(r) \/ Store(r) \/ Materialize(r) \/ Count(r) \/ Repoint(r)
         \/ Onward(r) \/ Retries(r)
         \/ UnderWay(r) /\ Leaves(r)
<1>1. CASE Release(r) \/ Begin(r) \/ BeginNext(r)
  BY <1>1 DEF Release, Begin, BeginNext, UnderWay
<1>2. CASE RefuseUnlessReady(r)
  BY <1>2 DEF RefuseUnlessReady, Moves
<1>3. CASE AskToEmpty(r) \/ Truncate(r) \/ Ask(r)
  BY <1>3 DEF AskToEmpty, Truncate, Ask, Moves, Onward
<1>4. CASE Check(r) \/ FindComputation(r) \/ ConfirmTable(r)
  BY <1>4 DEF Check, FindComputation, ConfirmTable, GoOn, End, Moves, Leaves, Onward, UnderWay
<1>5. CASE TimeOut(r)
  BY <1>5 DEF TimeOut, End, Leaves, Retries, UnderWay
<1>6. CASE Finish(r) \/ Stop(r)
  BY <1>6 DEF Finish, Stop, End, Leaves, UnderWay
<1>7. QED
  BY <1>1, <1>2, <1>3, <1>4, <1>5, <1>6 DEF RunNext, RunStep

-----------------------------------------------------------------------------

\* Of two tables, the one the view does not read is the other.
LEMMA UnpublishedIsOther ==
  ASSUME view \in Tables
  PROVE  /\ Unpublished \in Tables /\ Unpublished # view
         /\ \A t \in Tables : t # view => t = Unpublished
<1>1. \E t \in Tables : t # view
  BY DEF Tables
<1>2. Unpublished \in Tables /\ Unpublished # view
  BY <1>1 DEF Unpublished
<1>3. QED
  BY <1>2 DEF Tables

\* The steps at which a run has no table.
Tableless == {"waiting", "cleared", "resolve", "ended"}

\* What a step of a run has to keep for every variable to keep its type.
LEMMA RunsType ==
  ASSUME TypeOK, UNCHANGED readVars,
         tables' \in [Tables -> Computation], view' \in Tables, releases' \in Seq(ReleaseRecord),
         event' \in [run: Runs \union {None}, table: Tables \union {None}],
         pc' \in [Runs -> Steps], status' \in [Runs -> {"none", "unfinished", "finished"}],
         target' \in [Runs -> Tables \union {None}], counted' \in [Runs -> Computation],
         attempts' \in [Runs -> 0 .. Attempts - 1], met' \subseteq Runs,
         \A q \in Runs : pc'[q] \notin Tableless => target'[q] \in Tables
  PROVE  TypeOK'
  BY DEF TypeOK, readVars, Tableless

\* Going to a step keeps the types the steps have to do with.
LEMMA GotoType ==
  ASSUME TypeOK, NEW r \in Runs, NEW step \in Steps, Goto(r, step),
         step \in Tableless \/ target[r] \in Tables
  PROVE  /\ pc' \in [Runs -> Steps]
         /\ \A q \in Runs : pc'[q] \notin Tableless => target[q] \in Tables
<1>1. pc \in [Runs -> Steps] /\ pc' = [pc EXCEPT ![r] = step]
  BY DEF TypeOK, Goto
<1>2. QED
  BY <1>1 DEF TypeOK, Tableless

\* A run's steps keep the types.
LEMMA RunNextType ==
  ASSUME TypeOK, NEW r \in Runs, RunNext(r)
  PROVE  TypeOK'
<1> USE ConstantsAssumption
<1>1. view \in Tables /\ Unpublished \in Tables
  BY UnpublishedIsOther DEF TypeOK
<1>2. /\ tables \in [Tables -> Computation] /\ releases \in Seq(ReleaseRecord)
      /\ event \in [run: Runs \union {None}, table: Tables \union {None}]
      /\ status \in [Runs -> {"none", "unfinished", "finished"}]
      /\ target \in [Runs -> Tables \union {None}] /\ counted \in [Runs -> Computation]
      /\ attempts \in [Runs -> 0 .. Attempts - 1] /\ met \subseteq Runs
      /\ pc \in [Runs -> Steps]
      /\ \A q \in Runs : pc[q] \notin Tableless => target[q] \in Tables
  BY DEF TypeOK, Tableless
<1>3. /\ {"ended", "cleared", "resolve", "truncate", "emptying", "store", "materialize", "check", "find",
          "confirm", "count", "attempt", "asked", "published"} \subseteq Steps
      /\ Tableless \subseteq Steps
  BY DEF Steps, Tableless
<1>4. ASSUME NEW step \in Steps, Moves(r, step), step \in Tableless \/ target[r] \in Tables
      PROVE  TypeOK'
  <2>1. pc' \in [Runs -> Steps] /\ (\A q \in Runs : pc'[q] \notin Tableless => target[q] \in Tables)
    BY <1>4, GotoType DEF Moves
  <2>2. UNCHANGED <<tables, view, releases, event, status, target, counted, attempts, met, readVars>>
    BY <1>4 DEF Moves, data
  <2>3. QED
    BY <1>1, <1>2, <2>1, <2>2, RunsType
<1>5. CASE Start(r)
  <2>1. pc' \in [Runs -> Steps] /\ (\A q \in Runs : pc'[q] \notin Tableless => target[q] \in Tables)
    BY <1>3, <1>5, GotoType DEF Start, Tableless
  <2>2. status' \in [Runs -> {"none", "unfinished", "finished"}] /\ met' \subseteq Runs
    BY <1>2, <1>5 DEF Start
  <2>3. UNCHANGED <<tables, view, releases, event, target, counted, attempts, readVars>>
    BY <1>5 DEF Start, data
  <2>4. QED
    BY <1>1, <1>2, <2>1, <2>2, <2>3, RunsType
<1>6. CASE pc[r] = "waiting" /\ (Moves(r, "ended") \/ Moves(r, "cleared"))
  BY <1>3, <1>4, <1>6 DEF Tableless
<1>7. CASE Resolve(r)
  <2>1. target' \in [Runs -> Tables \union {None}] /\ pc' \in [Runs -> Steps]
    BY <1>1, <1>2, <1>3, <1>7 DEF Resolve, Goto
  <2>2. \A q \in Runs : pc'[q] \notin Tableless => target'[q] \in Tables
    BY <1>1, <1>2, <1>7 DEF Resolve, Goto
  <2>3. UNCHANGED <<tables, view, releases, event, status, counted, attempts, met, readVars>>
    BY <1>7 DEF Resolve, data
  <2>4. QED
    BY <1>1, <1>2, <2>1, <2>2, <2>3, RunsType
<1>8. CASE Onward(r)
  <2>1. target[r] \in Tables
    BY <1>2, <1>8 DEF Onward, Tableless
  <2>2. QED
    BY <1>3, <1>4, <1>8, <2>1 DEF Onward
<1>9. CASE Store(r)
  <2>1. PICK sound \in BOOLEAN : tables' = [tables EXCEPT ![target[r]] = [by |-> r, sound |-> sound]]
    BY <1>9 DEF Store
  <2>2. [by |-> r, sound |-> sound] \in Computation
    BY DEF Computation
  <2>3. tables' \in [Tables -> Computation]
    BY <1>2, <2>1, <2>2
  <2>4. target[r] \in Tables
    BY <1>2, <1>9 DEF Store, Tableless
  <2>5. pc' \in [Runs -> Steps] /\ (\A q \in Runs : pc'[q] \notin Tableless => target[q] \in Tables)
    BY <1>3, <1>9, <2>4, GotoType DEF Store
  <2>6. UNCHANGED <<view, releases, event, status, target, counted, attempts, met, readVars>>
    BY <1>9 DEF Store
  <2>7. QED
    BY <1>1, <1>2, <2>3, <2>5, <2>6, RunsType
<1>10. CASE Materialize(r)
  <2>1. target[r] \in Tables
    BY <1>2, <1>10 DEF Materialize, Tableless
  <2>2. pc' \in [Runs -> Steps] /\ (\A q \in Runs : pc'[q] \notin Tableless => target[q] \in Tables)
    BY <1>3, <1>10, <2>1, GotoType DEF Materialize
  <2>3. event' \in [run: Runs \union {None}, table: Tables \union {None}]
    BY <1>10, <2>1 DEF Materialize
  <2>4. UNCHANGED <<tables, view, releases, status, target, counted, attempts, met, readVars>>
    BY <1>10 DEF Materialize
  <2>5. QED
    BY <1>1, <1>2, <2>2, <2>3, <2>4, RunsType
<1>11. CASE Count(r)
  <2>1. target[r] \in Tables
    BY <1>2, <1>11 DEF Count, Tableless
  <2>2. pc' \in [Runs -> Steps] /\ (\A q \in Runs : pc'[q] \notin Tableless => target[q] \in Tables)
    BY <1>3, <1>11, <2>1, GotoType DEF Count
  <2>3. counted' \in [Runs -> Computation]
    BY <1>2, <1>11, <2>1 DEF Count
  <2>4. UNCHANGED <<tables, view, releases, event, status, target, attempts, met, readVars>>
    BY <1>11 DEF Count, data
  <2>5. QED
    BY <1>1, <1>2, <2>2, <2>3, <2>4, RunsType
<1>12. CASE Repoint(r)
  <2>1. target[r] \in Tables
    BY <1>2, <1>12 DEF Repoint, Tableless
  <2>2. pc' \in [Runs -> Steps] /\ (\A q \in Runs : pc'[q] \notin Tableless => target[q] \in Tables)
    BY <1>3, <1>12, <2>1, GotoType DEF Repoint
  <2>3. [table |-> target[r], run |-> r, counted |-> counted[r]] \in ReleaseRecord
    BY <1>2, <2>1 DEF ReleaseRecord
  <2>4. releases' \in Seq(ReleaseRecord) /\ view' \in Tables
    BY <1>2, <1>12, <2>1, <2>3 DEF Repoint
  <2>5. UNCHANGED <<tables, event, status, target, counted, attempts, met, readVars>>
    BY <1>12 DEF Repoint
  <2>6. QED
    BY <1>2, <2>2, <2>4, <2>5, RunsType
<1>13. CASE Retries(r)
  <2>1. target[r] \in Tables
    BY <1>2, <1>13 DEF Retries, Tableless
  <2>2. pc' \in [Runs -> Steps] /\ (\A q \in Runs : pc'[q] \notin Tableless => target[q] \in Tables)
    BY <1>3, <1>13, <2>1, GotoType DEF Retries, Again
  <2>3. attempts' \in [Runs -> 0 .. Attempts - 1]
    BY <1>2, <1>13 DEF Retries, Again
  <2>4. UNCHANGED <<tables, view, releases, event, status, target, counted, met, readVars>>
    BY <1>13 DEF Retries, Again, data
  <2>5. QED
    BY <1>1, <1>2, <2>2, <2>3, <2>4, RunsType
<1>14. CASE Leaves(r)
  <2>1. Before \in Computation /\ 0 \in 0 .. Attempts - 1
    BY DEF Before, Computation
  <2>2. /\ pc' = [pc EXCEPT ![r] = "ended"] /\ target' = [target EXCEPT ![r] = None]
        /\ counted' = [counted EXCEPT ![r] = Before] /\ attempts' = [attempts EXCEPT ![r] = 0]
    BY <1>14 DEF Leaves, Leave, Goto
  <2>3. /\ pc' \in [Runs -> Steps] /\ target' \in [Runs -> Tables \union {None}]
        /\ counted' \in [Runs -> Computation] /\ attempts' \in [Runs -> 0 .. Attempts - 1]
    BY <1>2, <1>3, <2>1, <2>2
  <2>4. \A q \in Runs : pc'[q] \notin Tableless => target'[q] \in Tables
    BY <1>2, <2>2 DEF Tableless
  <2>5. status' \in [Runs -> {"none", "unfinished", "finished"}]
    BY <1>2, <1>14 DEF Leaves
  <2>6. UNCHANGED <<tables, view, releases, event, met, readVars>>
    BY <1>14 DEF Leaves, data
  <2>7. QED
    BY <1>1, <1>2, <2>3, <2>4, <2>5, <2>6, RunsType
<1>15. QED
  BY <1>5, <1>6, <1>7, <1>8, <1>9, <1>10, <1>11, <1>12, <1>13, <1>14, RunKinds

\* A reader's steps keep the types.
LEMMA ReaderNextType ==
  ASSUME TypeOK, NEW p \in Readers, ReaderNext(p)
  PROVE  TypeOK'
<1> USE ConstantsAssumption
<1> DEFINE Typed ==
      /\ stage' \in [Readers -> {"idle", "released", "opened", "answered"}]
      /\ reading' \in [Readers -> Tables \union {None}]
      /\ released' \in [Readers -> Nat] /\ figures' \in [Readers -> Computation]
      /\ \A q \in Readers : reading'[q] # None <=> stage'[q] \in {"opened", "answered"}
<1>1. /\ stage \in [Readers -> {"idle", "released", "opened", "answered"}]
      /\ reading \in [Readers -> Tables \union {None}]
      /\ released \in [Readers -> Nat] /\ figures \in [Readers -> Computation]
      /\ \A q \in Readers : reading[q] # None <=> stage[q] \in {"opened", "answered"}
      /\ view \in Tables /\ view # None /\ tables \in [Tables -> Computation]
  BY DEF TypeOK
<1>2. Len(releases) \in Nat /\ Before \in Computation
  BY DEF TypeOK, Before, Computation
<1>3. ASSUME ReadRelease(p) PROVE Typed
  BY <1>1, <1>2, <1>3 DEF ReadRelease
<1>4. ASSUME OpenView(p) PROVE Typed
  BY <1>1, <1>4 DEF OpenView
<1>5. ASSUME ReadFigures(p) PROVE Typed
  <2>1. reading[p] \in Tables
    BY <1>1, <1>5 DEF ReadFigures
  <2>2. QED
    BY <1>1, <1>5, <2>1 DEF ReadFigures
<1>6. ASSUME EndTransaction(p) PROVE Typed
  BY <1>1, <1>2, <1>6 DEF EndTransaction
<1>7. Typed
  BY <1>3, <1>4, <1>5, <1>6 DEF ReaderNext
<1>8. UNCHANGED <<data, runVars>>
  BY DEF ReaderNext, ReadRelease, OpenView, ReadFigures, EndTransaction
<1>9. QED
  BY <1>7, <1>8 DEF TypeOK, data, runVars

\* The first state is typed.
LEMMA InitType == Init => TypeOK
  BY ConstantsAssumption DEF Init, TypeOK, Tables, Before, Computation, Steps

\* Every variable keeps its type and no attempt beyond PUBLISH_ATTEMPTS is made,
\* however many runs meet.
THEOREM TypeCorrect == Spec => []TypeOK
<1>1. TypeOK /\ UNCHANGED vars => TypeOK'
  BY DEF TypeOK, vars, data, runVars, readVars
<1>2. TypeOK /\ [Next]_vars => TypeOK'
  BY <1>1, RunNextType, ReaderNextType DEF Next
<1>3. QED
  BY <1>2, InitType, PTL DEF Spec

-----------------------------------------------------------------------------

\* A run that starts finds others under way, and then all of them have met, or is
\* alone.
LEMMA StartKeeps ==
  ASSUME IInv, NEW r \in Runs, Start(r), ~UnderWay(r), TypeOK'
  PROVE  IInv'
<1> DEFINE others == {q \in Runs : UnderWay(q)}
<1>1. /\ UNCHANGED <<tables, view, releases, target, counted, reading>>
      /\ met' = IF others = {} THEN met ELSE met \union others \union {r}
      /\ pc' = [pc EXCEPT ![r] = "resolve"] /\ pc \in [Runs -> Steps]
  BY DEF Start, Goto, data, readVars, IInv, TypeOK
<1> HIDE DEF others
<1>2. met \subseteq met' /\ \A q \in Runs \ {r} : pc'[q] = pc[q]
  BY <1>1
<1>3. pc'[r] = "resolve" /\ pc'[r] \notin Resolved
  BY <1>1 DEF Resolved
<1>4. LoneAlone'
  <2>1. CASE others = {}
    <3>1. \A q \in Runs : UnderWay(q)' => q = r
      BY <1>2, <2>1 DEF others, UnderWay
    <3>2. QED
      BY <3>1 DEF LoneAlone
  <2>2. CASE others # {}
    <3>1. \A q \in Runs : UnderWay(q)' => q \in met'
      BY <1>1, <1>2, <2>2 DEF others, UnderWay
    <3>2. QED
      BY <3>1 DEF LoneAlone
  <2>3. QED
    BY <2>1, <2>2
<1>5. OffView'
  BY <1>1, <1>2, <1>3 DEF IInv, OffView
<1>6. HoldsOwn'
  <2>1. \A q \in Runs : pc'[q] \in Stored => q # r /\ pc[q] \in Stored
    BY <1>2, <1>3 DEF Stored
  <2>2. ASSUME NEW q \in Runs, pc'[q] \in Stored
        PROVE  \/ tables[target[q]].by = q
               \/ q \in met' /\ tables[target[q]].by \in met'
    BY <1>2, <2>1, <2>2 DEF IInv, HoldsOwn
  <2>3. \A q \in Runs : pc'[q] \in Passed \union Counted => pc'[q] \in Stored /\ pc'[q] = pc[q]
    BY <1>2, <1>3 DEF Passed, Counted, Stored, Resolved
  <2>4. QED
    BY <1>1, <1>2, <2>2, <2>3 DEF IInv, HoldsOwn
<1>7. ReadersHoldView' /\ PublishesOwnAlone'
  BY <1>1, <1>2 DEF IInv, ReadersHoldView, PublishesOwnAlone
<1>8. QED
  BY <1>4, <1>5, <1>6, <1>7 DEF IInv

\* A run under way keeps the invariant by what it does to its own part of it: one
\* that met no other is alone, and of those that met, nothing is left to keep but
\* whose a table's rows are.
LEMMA OwnPartKeeps ==
  ASSUME IInv, NEW r \in Runs, UnderWay(r), TypeOK', met' = met,
         NEW step \in Steps \ {"waiting", "cleared"}, Goto(r, step),
         \A q \in Runs \ {r} : target'[q] = target[q],
         \A t \in Tables : tables'[t] = tables[t] \/ tables'[t].by = r,
         ReadersHoldView', PublishesOwnAlone',
         r \notin met /\ step \in Resolved => target'[r] # view',
         step \in Stored => \/ tables'[target'[r]].by = r
                            \/ r \in met /\ tables'[target'[r]].by \in met,
         r \notin met /\ step \in Passed => tables'[target'[r]].sound = TRUE,
         r \notin met /\ step \in Counted => counted'[r] = tables'[target'[r]]
  PROVE  IInv'
<1>1. /\ pc' = [pc EXCEPT ![r] = step] /\ pc \in [Runs -> Steps]
      /\ \A q \in Runs : pc[q] \notin Tableless => target[q] \in Tables
  BY DEF Goto, IInv, TypeOK, Tableless
<1>2. pc'[r] = step /\ \A q \in Runs \ {r} : pc'[q] = pc[q]
  BY <1>1
<1>3. LoneAlone'
  BY <1>2 DEF IInv, LoneAlone, UnderWay
<1>4. \A q \in Runs \ {r} : UnderWay(q) => q \in met /\ r \in met
  BY DEF IInv, LoneAlone
<1>5. \A q \in Runs : pc'[q] \in Resolved => UnderWay(q)'
  BY DEF Resolved, UnderWay
<1>6. \A q \in Runs \ {r} : pc'[q] \in Resolved => q \in met /\ r \in met
  BY <1>2, <1>4, <1>5 DEF UnderWay
<1>7. OffView'
  BY <1>2, <1>6 DEF OffView
<1>8. HoldsOwn'
  <2>1. Stored \union Passed \union Counted \subseteq Resolved
    BY DEF Stored, Passed, Counted, Resolved
  <2>2. ASSUME NEW q \in Runs \ {r}, pc'[q] \in Stored
        PROVE  \/ tables'[target'[q]].by = q
               \/ q \in met /\ tables'[target'[q]].by \in met
    <3>1. q \in met /\ r \in met /\ target'[q] = target[q] /\ pc[q] \in Stored
      BY <1>2, <1>6, <2>1, <2>2
    <3>2. target[q] \in Tables
      BY <1>1, <3>1 DEF Stored, Resolved, Tableless
    <3>3. \/ tables[target[q]].by = q
          \/ q \in met /\ tables[target[q]].by \in met
      BY <3>1 DEF IInv, HoldsOwn
    <3>4. QED
      BY <3>1, <3>2, <3>3
  <2>3. QED
    BY <1>2, <1>6, <2>1, <2>2 DEF HoldsOwn
<1>9. QED
  BY <1>3, <1>7, <1>8 DEF IInv

\* A run's steps keep the invariant.
LEMMA RunNextKeeps ==
  ASSUME IInv, NEW r \in Runs, RunNext(r)
  PROVE  IInv'
<1>1. TypeOK'
  BY RunNextType DEF IInv
<1>2. /\ view \in Tables /\ pc[r] \in Steps /\ target[r] \in Tables \union {None}
      /\ tables \in [Tables -> Computation]
      /\ pc[r] \notin Tableless => target[r] \in Tables
      /\ r \notin met /\ pc[r] \in Resolved => target[r] # view
      /\ pc[r] \in Stored => \/ tables[target[r]].by = r
                             \/ r \in met /\ tables[target[r]].by \in met
      /\ r \notin met /\ pc[r] \in Passed => tables[target[r]].sound = TRUE
      /\ r \notin met /\ pc[r] \in Counted => counted[r] = tables[target[r]]
      /\ ReadersHoldView /\ PublishesOwnAlone
  BY DEF IInv, TypeOK, OffView, HoldsOwn, Tableless
<1>3. Unpublished \in Tables /\ Unpublished # view /\ (\A t \in Tables : t # view => t = Unpublished)
  BY <1>2, UnpublishedIsOther
<1>4. ASSUME UnderWay(r), NEW step \in Steps \ {"waiting", "cleared"}, Goto(r, step),
             UNCHANGED <<tables, view, releases, met, reading>>,
             \A q \in Runs \ {r} : target'[q] = target[q],
             r \notin met /\ step \in Resolved => target'[r] # view,
             step \in Stored => \/ tables[target'[r]].by = r
                                \/ r \in met /\ tables[target'[r]].by \in met,
             r \notin met /\ step \in Passed => tables[target'[r]].sound = TRUE,
             r \notin met /\ step \in Counted => counted'[r] = tables[target'[r]]
      PROVE  IInv'
  <2>1. ReadersHoldView' /\ PublishesOwnAlone'
    BY <1>2, <1>4 DEF ReadersHoldView, PublishesOwnAlone
  <2>2. QED
    BY <1>1, <1>4, <2>1, OwnPartKeeps
<1>5. CASE Start(r) /\ ~UnderWay(r)
  BY <1>1, <1>5, StartKeeps
<1>6. CASE pc[r] = "waiting" /\ (Moves(r, "ended") \/ Moves(r, "cleared"))
  <2>1. /\ UNCHANGED <<tables, view, releases, met, reading, target, counted>>
        /\ pc \in [Runs -> Steps] /\ \A q \in Runs \ {r} : pc'[q] = pc[q]
        /\ ~UnderWay(r)' /\ pc'[r] \notin Resolved \union Stored \union Passed \union Counted
    BY <1>6 DEF Moves, Goto, data, readVars, IInv, TypeOK, UnderWay, Resolved, Stored, Passed, Counted
  <2>2. LoneAlone'
    BY <2>1 DEF IInv, LoneAlone, UnderWay
  <2>3. OffView' /\ HoldsOwn'
    BY <2>1 DEF IInv, OffView, HoldsOwn
  <2>4. ReadersHoldView' /\ PublishesOwnAlone'
    BY <2>1 DEF IInv, ReadersHoldView, PublishesOwnAlone
  <2>5. QED
    BY <1>1, <2>2, <2>3, <2>4 DEF IInv
<1>7. CASE Resolve(r)
  <2>1. /\ UnderWay(r) /\ target' = [target EXCEPT ![r] = Unpublished]
        /\ Goto(r, "truncate") /\ UNCHANGED <<tables, view, releases, met, reading>>
        /\ "truncate" \in Steps \ {"waiting", "cleared"}
        /\ "truncate" \notin Stored \union Passed \union Counted
    BY <1>7 DEF Resolve, UnderWay, data, readVars, Steps, Stored, Passed, Counted, Resolved
  <2>2. target'[r] = Unpublished /\ \A q \in Runs \ {r} : target'[q] = target[q]
    BY <2>1 DEF IInv, TypeOK
  <2>3. QED
    BY <1>3, <1>4, <2>1, <2>2
<1>8. CASE Onward(r)
  <2>1. /\ UnderWay(r) /\ pc[r] \in Resolved /\ pc[r] \notin Tableless
        /\ UNCHANGED <<tables, view, releases, met, reading, target, counted>>
    BY <1>8 DEF Onward, Moves, UnderWay, data, readVars, Resolved, Tableless
  <2>2. CASE Moves(r, "emptying") \/ Moves(r, "store")
    <3>1. /\ {"emptying", "store"} \subseteq Steps \ {"waiting", "cleared"}
          /\ {"emptying", "store"} \intersect (Stored \union Passed \union Counted) = {}
      BY DEF Steps, Stored, Passed, Counted, Resolved
    <3>2. QED
      BY <1>2, <1>4, <2>1, <2>2, <3>1 DEF Moves
  <2>3. CASE pc[r] = "check"
    <3>1. "find" \in Steps \ {"waiting", "cleared"} /\ "find" \notin Counted /\ pc[r] \in Stored
      BY <2>3 DEF Steps, Stored, Counted, Resolved
    <3>2. r \notin met => target[r] = Unpublished
      BY <1>2, <1>3, <2>1
    <3>3. tables[Unpublished].sound = TRUE
      BY <1>2, <1>3, <1>8, <2>3 DEF Onward, Computation
    <3>4. Moves(r, "find")
      BY <1>8, <2>3 DEF Onward
    <3>5. QED
      BY <1>2, <1>4, <2>1, <3>1, <3>2, <3>3, <3>4 DEF Moves
  <2>4. CASE /\ pc[r] \in {"find", "confirm"}
             /\ Moves(r, "confirm") \/ Moves(r, "count")
    <3>1. /\ {"confirm", "count"} \subseteq Steps \ {"waiting", "cleared"}
          /\ {"confirm", "count"} \intersect Counted = {}
          /\ pc[r] \in Stored /\ pc[r] \in Passed
      BY <2>4 DEF Steps, Stored, Passed, Counted, Resolved
    <3>2. QED
      BY <1>2, <1>4, <2>1, <2>4, <3>1 DEF Moves
  <2>5. CASE pc[r] = "attempt" /\ Moves(r, "asked")
    <3>1. /\ "asked" \in Steps \ {"waiting", "cleared"}
          /\ pc[r] \in Stored /\ pc[r] \in Passed /\ pc[r] \in Counted
      BY <2>5 DEF Steps, Stored, Passed, Counted, Resolved
    <3>2. QED
      BY <1>2, <1>4, <2>1, <2>5, <3>1 DEF Moves
  <2>6. \/ Moves(r, "emptying") \/ Moves(r, "store")
        \/ pc[r] = "check"
        \/ pc[r] \in {"find", "confirm"} /\ (Moves(r, "confirm") \/ Moves(r, "count"))
        \/ pc[r] = "attempt" /\ Moves(r, "asked")
    BY <1>8 DEF Onward
  <2>7. QED
    BY <2>2, <2>3, <2>4, <2>5, <2>6
<1>9. CASE Store(r)
  <2>1. PICK sound \in BOOLEAN : tables' = [tables EXCEPT ![target[r]] = [by |-> r, sound |-> sound]]
    BY <1>9 DEF Store
  <2>2. /\ UnderWay(r) /\ pc[r] \in Resolved /\ pc[r] \notin Tableless
        /\ Goto(r, "materialize") /\ "materialize" \in Steps \ {"waiting", "cleared"}
        /\ "materialize" \notin Passed \union Counted
        /\ UNCHANGED <<view, releases, target, met, reading>>
    BY <1>9 DEF Store, UnderWay, readVars, Steps, Stored, Passed, Counted, Resolved, Tableless
  <2>3. tables'[target[r]].by = r /\ \A t \in Tables : tables'[t] = tables[t] \/ tables'[t].by = r
    BY <1>2, <2>1, <2>2
  <2>4. ReadersHoldView' /\ PublishesOwnAlone'
    BY <1>2, <2>2 DEF ReadersHoldView, PublishesOwnAlone
  <2>5. QED
    BY <1>1, <1>2, <2>2, <2>3, <2>4, OwnPartKeeps
<1>10. CASE Materialize(r)
  <2>1. /\ UnderWay(r) /\ pc[r] \in Resolved /\ pc[r] \in Stored
        /\ UNCHANGED <<tables, view, releases, met, reading, target>>
        /\ Goto(r, "check") /\ "check" \in Steps \ {"waiting", "cleared"}
        /\ "check" \notin Passed \union Counted
    BY <1>10 DEF Materialize, UnderWay, readVars, Steps, Stored, Passed, Counted, Resolved
  <2>2. QED
    BY <1>2, <1>4, <2>1
<1>11. CASE Count(r) \/ Retries(r)
  <2>1. /\ UnderWay(r) /\ pc[r] \in Resolved /\ pc[r] \in Stored /\ pc[r] \in Passed
        /\ pc[r] \notin Tableless
        /\ UNCHANGED <<tables, view, releases, met, reading, target>>
        /\ Goto(r, "attempt") /\ "attempt" \in Steps \ {"waiting", "cleared"}
    BY <1>11 DEF Count, Retries, Again, UnderWay, data, readVars, Steps, Stored, Passed, Resolved,
       Tableless
  <2>2. r \notin met => counted'[r] = tables[target[r]]
    <3>1. CASE Count(r)
      BY <1>2, <3>1 DEF Count, IInv, TypeOK
    <3>2. CASE Retries(r)
      BY <1>2, <3>2 DEF Retries, Again, Counted
    <3>3. QED
      BY <1>11, <3>1, <3>2
  <2>3. QED
    BY <1>2, <1>4, <2>1, <2>2
<1>12. CASE Repoint(r)
  <2>1. /\ UnderWay(r) /\ pc[r] \in Stored /\ pc[r] \in Counted /\ pc[r] \notin Tableless
        /\ Goto(r, "published") /\ "published" \in Steps \ {"waiting", "cleared"}
        /\ "published" \notin Resolved \union Stored \union Passed \union Counted
        /\ UNCHANGED <<tables, target, met>>
    BY <1>12 DEF Repoint, UnderWay, Steps, Stored, Passed, Counted, Resolved, Tableless
  <2>2. r \notin met => counted[r].by = r
    BY <1>2, <2>1
  <2>3. PublishesOwnAlone'
    <3> DEFINE release == [table |-> target[r], run |-> r, counted |-> counted[r]]
    <3>1. releases' = Append(releases, release) /\ releases \in Seq(ReleaseRecord)
      BY <1>12 DEF Repoint, IInv, TypeOK
    <3>2. release.run = r /\ release.counted = counted[r]
      OBVIOUS
    <3>3. release \in ReleaseRecord
      BY <1>2, <2>1 DEF ReleaseRecord, IInv, TypeOK
    <3> HIDE DEF release
    <3>4. \A i \in DOMAIN releases' : releases'[i] = release \/ (i \in DOMAIN releases /\ releases'[i] = releases[i])
      BY <3>1, <3>3
    <3>5. QED
      BY <1>2, <2>1, <2>2, <3>2, <3>4 DEF PublishesOwnAlone
  <2>4. ReadersHoldView'
    BY <1>12 DEF Repoint, ViewHeld, ReadersHoldView, readVars
  <2>5. QED
    BY <1>1, <2>1, <2>3, <2>4, OwnPartKeeps
<1>13. CASE UnderWay(r) /\ Leaves(r)
  <2>1. /\ UNCHANGED <<tables, view, releases, met, reading>>
        /\ Goto(r, "ended") /\ "ended" \in Steps \ {"waiting", "cleared"}
        /\ "ended" \notin Resolved \union Stored \union Passed \union Counted
        /\ \A q \in Runs \ {r} : target'[q] = target[q]
    BY <1>13 DEF Leaves, Leave, data, readVars, Steps, Stored, Passed, Counted, Resolved, IInv, TypeOK
  <2>2. QED
    BY <1>4, <1>13, <2>1
<1>14. QED
  BY <1>5, <1>6, <1>7, <1>8, <1>9, <1>10, <1>11, <1>12, <1>13, RunKinds

\* The readers' steps keep the invariant: a reader takes the table the view
\* reads at that moment.
LEMMA ReaderNextKeeps ==
  ASSUME IInv, NEW p \in Readers, ReaderNext(p)
  PROVE  IInv'
<1>1. TypeOK'
  BY ReaderNextType DEF IInv
<1>2. UNCHANGED <<data, runVars>>
  BY DEF ReaderNext, ReadRelease, OpenView, ReadFigures, EndTransaction
<1>3. LoneAlone' /\ OffView' /\ HoldsOwn' /\ PublishesOwnAlone'
  BY <1>2 DEF IInv, data, runVars, LoneAlone, UnderWay, OffView, HoldsOwn, PublishesOwnAlone
<1>4. ReadersHoldView'
  <2>1. reading \in [Readers -> Tables \union {None}] /\ view' = view
    BY <1>2 DEF IInv, TypeOK, data
  <2>2. \A q \in Readers : reading'[q] \in {reading[q], view, None}
    BY <2>1 DEF ReaderNext, ReadRelease, OpenView, ReadFigures, EndTransaction
  <2>3. QED
    BY <2>1, <2>2 DEF IInv, ReadersHoldView
<1>5. QED
  BY <1>1, <1>3, <1>4 DEF IInv

LEMMA InitInvariant == Init => IInv
  BY InitType DEF Init, IInv, LoneAlone, UnderWay, OffView, HoldsOwn, ReadersHoldView, PublishesOwnAlone,
     Resolved, Stored, Passed, Counted

LEMMA NextInvariant == IInv /\ [Next]_vars => IInv'
<1> SUFFICES ASSUME IInv, [Next]_vars
             PROVE  IInv'
  OBVIOUS
<1>1. CASE UNCHANGED vars
  <2>1. TypeOK'
    BY <1>1 DEF IInv, TypeOK, vars, data, runVars, readVars
  <2>2. QED
    BY <1>1, <2>1 DEF IInv, LoneAlone, UnderWay, OffView, HoldsOwn, ReadersHoldView, PublishesOwnAlone,
       vars, data, runVars, readVars
<1>2. CASE Next
  BY <1>2, RunNextKeeps, ReaderNextKeeps DEF Next
<1>3. QED
  BY <1>1, <1>2

LEMMA Invariance == Spec => []IInv
BY InitInvariant, NextInvariant, PTL DEF Spec

\* No table that a run empties or fills is one readers see or hold, so no reader waits
\* for a write, whatever the number of runs and readers, but where the run met another.
THEOREM ReadersNeverWaitForAWrite == Spec => []NoReaderWaitsForAWrite
<1>1. ASSUME IInv, NEW r \in Runs \ met, pc[r] \in {"truncate", "emptying", "store"}
      PROVE  target[r] # view /\ \A p \in Readers : reading[p] # target[r]
  <2>1. target[r] # view /\ target[r] # None
    BY <1>1, ConstantsAssumption DEF IInv, OffView, Resolved, TypeOK
  <2>2. \A p \in Readers : reading[p] # target[r]
    BY <1>1, <2>1 DEF IInv, ReadersHoldView
  <2>3. QED
    BY <2>1, <2>2
<1>2. IInv => NoReaderWaitsForAWrite
  BY <1>1 DEF NoReaderWaitsForAWrite
<1>3. QED
  BY <1>2, Invariance, PTL

\* Every release of a run that met no other counted and showed that run's own
\* computation, whatever the others did before and after it.
THEOREM PublishesOnlyItsOwn == Spec => []PublishesOwnAlone
<1>1. IInv => PublishesOwnAlone
  BY DEF IInv
<1>2. QED
  BY <1>1, Invariance, PTL

-----------------------------------------------------------------------------
(* What readers are promised.                                              *)

\* The first state is the first one promised.
LEMMA InitPublished == Init => Published!Init
<1> SUFFICES ASSUME Init
             PROVE  Published!Init
  OBVIOUS
<1>1. tables[view] = [by |-> None, sound |-> TRUE]
  BY DEF Init, Before, Tables
<1>2. releases = <<>> /\ DOMAIN releases = {} /\ met = {}
  BY DEF Init
<1>3. [i \in DOMAIN releases |-> releases[i].run] = <<>>
  BY <1>2
<1>4. QED
  BY <1>1, <1>2, <1>3 DEF Published!Init

\* A run's commit shows its own sound computation, or what a run that met it left.
LEMMA RepointPublished ==
  ASSUME IInv, NEW r \in Runs, Repoint(r)
  PROVE  Published!Publish(r) \/ Published!Disturb(r)
<1>1. /\ pc[r] \in Stored /\ pc[r] \in Passed /\ pc[r] \notin Tableless
      /\ view' = target[r] /\ UNCHANGED <<tables, met>>
  BY DEF Repoint, Stored, Passed, Resolved, Tableless
<1>2. target[r] \in Tables /\ tables[target[r]] \in Computation
  BY <1>1 DEF IInv, TypeOK, Tableless
<1> DEFINE release == [table |-> target[r], run |-> r, counted |-> counted[r]]
<1>3. releases \in Seq(ReleaseRecord) /\ releases' = Append(releases, release) /\ release.run = r
  BY DEF Repoint, IInv, TypeOK
<1> HIDE DEF release
<1>4. [i \in DOMAIN releases' |-> releases'[i].run] = Append([i \in DOMAIN releases |-> releases[i].run], r)
  BY <1>3
<1>5. tables[target[r]] = [by |-> tables[target[r]].by, sound |-> tables[target[r]].sound]
      /\ tables[target[r]].sound \in BOOLEAN
  BY <1>2 DEF Computation
<1>6. CASE r \notin met
  <2>1. tables[target[r]].by = r /\ tables[target[r]].sound = TRUE
    BY <1>1, <1>6 DEF IInv, HoldsOwn
  <2>2. tables'[view'] = [by |-> r, sound |-> TRUE]
    BY <1>1, <1>5, <2>1
  <2>3. QED
    BY <1>1, <1>4, <2>2 DEF Published!Publish
<1>7. CASE r \in met
  <2>1. tables[target[r]].by \in met
    BY <1>1, <1>7 DEF IInv, HoldsOwn
  <2>2. tables'[view'] \in [by: met, sound: BOOLEAN]
    BY <1>1, <1>5, <2>1
  <2>3. QED
    BY <1>1, <1>4, <1>7, <2>2 DEF Published!Disturb
<1>8. QED
  BY <1>6, <1>7

\* What a run stores is out of readers' sight, or the run met another.
LEMMA StorePublished ==
  ASSUME IInv, NEW r \in Runs, Store(r)
  PROVE  \/ tables'[view'] = tables[view] /\ UNCHANGED <<releases, met>>
         \/ Published!Disturb(r)
<1>1. PICK sound \in BOOLEAN : tables' = [tables EXCEPT ![target[r]] = [by |-> r, sound |-> sound]]
  BY DEF Store
<1>2. /\ UNCHANGED <<view, releases, met>> /\ view \in Tables /\ pc[r] \in Resolved
      /\ tables \in [Tables -> Computation]
  BY DEF Store, IInv, TypeOK, Resolved
<1>3. CASE target[r] # view
  BY <1>1, <1>2, <1>3
<1>4. CASE target[r] = view
  <2>1. r \in met
    BY <1>2, <1>4 DEF IInv, OffView
  <2>2. tables'[view'] = [by |-> r, sound |-> sound]
    BY <1>1, <1>2, <1>4
  <2>3. tables'[view'] \in [by: met, sound: BOOLEAN]
    BY <2>1, <2>2
  <2>4. QED
    BY <1>2, <2>1, <2>3 DEF Published!Disturb
<1>5. QED
  BY <1>3, <1>4

\* Every other step of a run leaves what readers see alone, and starting one may add to
\* those that met.
LEMMA OthersShowNothing ==
  ASSUME TypeOK, NEW r \in Runs, RunNext(r), ~Repoint(r), ~Store(r)
  PROVE  /\ UNCHANGED <<tables, view, releases, readVars>>
         /\ met' = met \/ \E more \in SUBSET Runs : met' = met \union more
<1>1. CASE Start(r)
  <2>1. met' = met \/ met' = met \union ({q \in Runs : UnderWay(q)} \union {r})
    BY <1>1 DEF Start
  <2>2. {q \in Runs : UnderWay(q)} \union {r} \in SUBSET Runs
    OBVIOUS
  <2>3. QED
    BY <1>1, <2>1, <2>2 DEF Start, data
<1>2. CASE Moves(r, "ended") \/ Moves(r, "cleared") \/ Onward(r)
  BY <1>2 DEF Moves, Onward, data
<1>3. CASE Resolve(r) \/ Materialize(r) \/ Count(r) \/ Retries(r) \/ Leaves(r)
  BY <1>3 DEF Resolve, Materialize, Count, Retries, Again, Leaves, data
<1>4. QED
  BY <1>1, <1>2, <1>3, RunKinds

\* A step shows readers what the promise allows, or nothing new.
LEMMA NextPublished ==
  IInv /\ [Next]_vars => [Published!Next]_(Published!pubVars)
<1> SUFFICES ASSUME IInv, [Next]_vars
             PROVE  [Published!Next]_(Published!pubVars)
  OBVIOUS
<1>1. ASSUME NEW r \in Runs, Repoint(r)
      PROVE  Published!Next
  BY <1>1, RepointPublished DEF Published!Next
<1>2. ASSUME NEW r \in Runs, Store(r)
      PROVE  Published!Next \/ UNCHANGED Published!pubVars
  BY <1>2, StorePublished DEF Published!Next, Published!pubVars
<1>3. ASSUME NEW r \in Runs, RunNext(r), ~Repoint(r), ~Store(r)
      PROVE  Published!Next \/ UNCHANGED Published!pubVars
  <2>1. /\ UNCHANGED <<tables, view, releases>>
        /\ met' = met \/ \E more \in SUBSET Runs : met' = met \union more
    BY <1>3, OthersShowNothing DEF IInv
  <2>2. QED
    BY <2>1 DEF Published!Next, Published!Meet, Published!pubVars
<1>4. ASSUME NEW p \in Readers, ReaderNext(p)
      PROVE  UNCHANGED Published!pubVars
  BY <1>4 DEF ReaderNext, ReadRelease, OpenView, ReadFigures, EndTransaction, data, runVars,
     Published!pubVars
<1>5. CASE UNCHANGED vars
  BY <1>5 DEF vars, data, runVars, Published!pubVars
<1>6. QED
  BY <1>1, <1>2, <1>3, <1>4, <1>5 DEF Next

\* Publication implements what readers are promised: they see one sound
\* computation at a time, that of the run that published last, and only where runs
\* met is it disturbed, by one of them and with what one of them computed.
THEOREM ImplementsPublished == Spec => Implements
BY InitPublished, NextPublished, Invariance, PTL DEF Spec, Implements

-----------------------------------------------------------------------------
(* Readers and the newest release.                                         *)

\* The newest release is of what the view shows, or that is of a run that met
\* another; no reader has read more of the releases than there are, and nobody was
\* given figures of before the one read.
ShownIsNewest ==
  /\ releases # <<>> => \/ releases[Len(releases)].run = tables[view].by
                        \/ tables[view].by \in met
  /\ \A p \in Readers : released[p] <= Len(releases)
  /\ FiguresNotOlderThanRelease

\* A step that leaves the releases and the readers alone, and what the view shows but
\* where runs met.
LEMMA QuietKeepsNewest ==
  ASSUME ShownIsNewest, UNCHANGED <<releases, readVars>>, met \subseteq met',
         tables'[view'] = tables[view] \/ tables'[view'].by \in met'
  PROVE  ShownIsNewest'
  BY DEF ShownIsNewest, FiguresNotOlderThanRelease, readVars

\* A run's step keeps the newest release the one shown: only its commit adds to
\* them, and shows the table it wrote with it.
LEMMA RunKeepsNewest ==
  ASSUME IInv, ShownIsNewest, NEW r \in Runs, RunNext(r)
  PROVE  ShownIsNewest'
<1>1. CASE Store(r)
  <2>1. UNCHANGED <<releases, readVars, met>>
    BY <1>1 DEF Store
  <2>2. tables'[view'] = tables[view] \/ tables'[view'].by \in met
    BY <1>1, StorePublished DEF Published!Disturb
  <2>3. QED
    BY <2>1, <2>2, QuietKeepsNewest
<1>2. CASE Repoint(r)
  <2> DEFINE release == [table |-> target[r], run |-> r, counted |-> counted[r]]
  <2>1. /\ releases \in Seq(ReleaseRecord) /\ releases' = Append(releases, release)
        /\ release.run = r /\ view' = target[r] /\ UNCHANGED <<tables, readVars, met>>
    BY <1>2 DEF Repoint, IInv, TypeOK
  <2>2. tables[target[r]].by = r \/ tables[target[r]].by \in met
    BY <1>2 DEF IInv, HoldsOwn, Repoint, Stored, Resolved
  <2> HIDE DEF release
  <2>3. /\ Len(releases) \in Nat /\ Len(releases') = Len(releases) + 1
        /\ releases'[Len(releases')] = release
        /\ \A i \in 1 .. Len(releases) : releases'[i] = releases[i]
    BY <2>1
  <2>4. /\ released \in [Readers -> Nat] /\ UNCHANGED <<stage, released, figures>>
    BY <2>1 DEF IInv, TypeOK, readVars
  <2>5. ASSUME NEW p \in Readers, stage[p] = "answered", released[p] > 0, figures[p].by \notin met
        PROVE  \E i \in released[p] .. Len(releases') : releases'[i].run = figures[p].by
    <3>1. PICK i \in released[p] .. Len(releases) : releases[i].run = figures[p].by
      BY <2>5 DEF ShownIsNewest, FiguresNotOlderThanRelease
    <3>2. i \in 1 .. Len(releases) /\ i \in released[p] .. Len(releases')
      BY <2>3, <2>4, <2>5, <3>1
    <3>3. QED
      BY <2>3, <3>1, <3>2
  <2>6. FiguresNotOlderThanRelease'
    BY <2>1, <2>4, <2>5 DEF FiguresNotOlderThanRelease
  <2>7. releases'[Len(releases')].run = tables'[view'].by \/ tables'[view'].by \in met'
    BY <2>1, <2>2, <2>3
  <2>8. \A p \in Readers : released'[p] <= Len(releases')
    BY <2>3, <2>4 DEF ShownIsNewest
  <2>9. QED
    BY <2>6, <2>7, <2>8 DEF ShownIsNewest
<1>3. CASE ~Store(r) /\ ~Repoint(r)
  <2>1. UNCHANGED <<tables, view, releases, readVars>> /\ met \subseteq met'
    BY <1>3, OthersShowNothing DEF IInv
  <2>2. QED
    BY <2>1, QuietKeepsNewest
<1>4. QED
  BY <1>1, <1>2, <1>3

\* A reader is given what the view shows, which is the newest release's or of a run
\* that met another, and has read none newer.
LEMMA ReaderKeepsNewest ==
  ASSUME IInv, ShownIsNewest, NEW p \in Readers, ReaderNext(p)
  PROVE  ShownIsNewest'
<1>1. /\ UNCHANGED <<tables, view, releases, met>>
      /\ stage \in [Readers -> {"idle", "released", "opened", "answered"}]
      /\ released \in [Readers -> Nat] /\ figures \in [Readers -> Computation]
      /\ Len(releases) \in Nat /\ releases \in Seq(ReleaseRecord)
  BY DEF ReaderNext, ReadRelease, OpenView, ReadFigures, EndTransaction, IInv, TypeOK, data, runVars
<1>2. \A q \in Readers : released'[q] \in Nat /\ released'[q] <= Len(releases)
  BY <1>1 DEF ShownIsNewest, ReaderNext, ReadRelease, OpenView, ReadFigures, EndTransaction
<1>3. ASSUME NEW q \in Readers, stage'[q] = "answered", released'[q] > 0
      PROVE  \/ \E i \in released'[q] .. Len(releases) : releases[i].run = figures'[q].by
             \/ figures'[q].by \in met
  <2>1. CASE stage[q] = "answered" /\ released'[q] = released[q] /\ figures'[q] = figures[q]
    BY <1>3, <2>1 DEF ShownIsNewest, FiguresNotOlderThanRelease
  <2>2. CASE ReadFigures(p) /\ q = p
    <3>1. reading[p] = view
      BY <2>2 DEF IInv, ReadersHoldView, TypeOK, ReadFigures
    <3>2. figures'[q] = tables[view]
      BY <1>1, <2>2, <3>1 DEF ReadFigures
    <3>3. Len(releases) \in released'[q] .. Len(releases) /\ releases # <<>>
      BY <1>1, <1>2, <1>3
    <3>4. QED
      BY <3>2, <3>3 DEF ShownIsNewest
  <2>3. QED
    BY <1>1, <1>3, <2>1, <2>2 DEF ReaderNext, ReadRelease, OpenView, ReadFigures, EndTransaction
<1>4. QED
  BY <1>1, <1>2, <1>3 DEF ShownIsNewest, FiguresNotOlderThanRelease

\* Every step keeps it.
LEMMA NextNewest == IInv /\ ShownIsNewest /\ [Next]_vars => ShownIsNewest'
<1> SUFFICES ASSUME IInv, ShownIsNewest, [Next]_vars
             PROVE  ShownIsNewest'
  OBVIOUS
<1>1. CASE UNCHANGED vars
  BY <1>1, QuietKeepsNewest DEF vars, data, runVars
<1>2. CASE Next
  BY <1>2, RunKeepsNewest, ReaderKeepsNewest DEF Next
<1>3. QED
  BY <1>1, <1>2

\* Nothing is released and nothing read at first.
LEMMA InitNewest == Init => ShownIsNewest
  BY DEF Init, ShownIsNewest, FiguresNotOlderThanRelease

\* A reader of the newest release and then of the figures is never given figures
\* older than that release, whatever is published between the two statements,
\* unless they are of a run that met another.
THEOREM FiguresAreNotOlder == Spec => []FiguresNotOlderThanRelease
<1>1. ShownIsNewest => FiguresNotOlderThanRelease
  BY DEF ShownIsNewest
<1>2. QED
  BY <1>1, InitNewest, NextNewest, Invariance, PTL DEF Spec

-----------------------------------------------------------------------------
(* Market reads, for any visitors and any marts.                           *)
(*                                                                         *)
(* The argument: a read waits at its first try alone (Tries), so no third  *)
(* begins.  Every statement finds its marts standing, a drop leaves alone  *)
(* what a transaction has read, only a dropped mart is built again, and    *)
(* the second try keeps nothing of the first (ReadsOneBuild).              *)

VisitSteps == {"free", "reading", "waiting", "answered", "updating"}

Builds == [mart: Marts, build: 0..Rebuilds]

VisitType == [read: Reads \union {<<>>}, next: Nat \ {0}, try: 0..2, step: VisitSteps,
              seen: SUBSET Builds]

\* A read, with its shape: the statements are a sequence, of which it is at one.
VisitTypeOK ==
  /\ absent \subseteq Marts
  /\ built \in [Marts -> 0..Rebuilds]
  /\ visit \in [Visitors -> VisitType]
  /\ \A r \in Visitors : visit[r].next <= Len(visit[r].read) \/ visit[r].next = 1

\* A read waits at its first try, and reads at its first or second.
Tries ==
  \A r \in Visitors : /\ visit[r].step = "waiting" => visit[r].try = 1
                      /\ visit[r].step = "reading" => visit[r].try # 0

ReadsIInv == VisitTypeOK /\ Tries /\ ReadsOneBuild

-----------------------------------------------------------------------------

\* The marts each statement needs.
Statements ==
  {{}, {"mart_trading_days"}, {"mart_sources"}, {"mart_instruments"}, {"mart_adjusted_prices"},
   {"mart_corporate_actions"}, {"mart_listings"}, {"mart_daily_features", "mart_market_breadth"},
   {"mart_instruments", "mart_listings"}, {"mart_instruments", "mart_primary_venue"},
   MovedMost, ScreenStatement, RestStatement, DayStatement, SeriesStatement}

LEMMA ReadsAreSequences ==
  \A read \in Reads \union {<<>>} : read \in Seq(Statements) /\ Len(read) \in Nat
<1>1. MarketDay \in Seq(Statements)
  BY DEF MarketDay, Statements
<1>2. MarketSummary \in Seq(Statements)
  <2>1. <<{"mart_daily_features", "mart_market_breadth"}, {"mart_sources"}, MovedMost, MovedMost>>
          \in Seq(Statements)
    BY DEF Statements
  <2>2. QED
    BY <1>1, <2>1 DEF MarketSummary
<1>3. RunScreen \in Seq(Statements)
  <2>1. <<ScreenStatement, RestStatement>> \in Seq(Statements)
    BY DEF Statements
  <2>2. QED
    BY <1>1, <2>1 DEF RunScreen
<1>4. KeyFigures \in Seq(Statements)
  BY DEF KeyFigures, Statements
<1>5. PriceHistory \in Seq(Statements)
  BY DEF PriceHistory, Statements
<1>6. ActionsOfInstrument \in Seq(Statements) /\ SearchInstruments \in Seq(Statements)
  BY DEF ActionsOfInstrument, SearchInstruments, Statements
<1>7. InstrumentFound \in Seq(Statements) /\ <<>> \in Seq(Statements)
  BY DEF InstrumentFound, Statements
<1>8. \A read \in Reads \union {<<>>} : read \in Seq(Statements)
  BY <1>1, <1>2, <1>3, <1>4, <1>5, <1>6, <1>7 DEF Reads
<1>9. QED
  BY <1>8

LEMMA ReadsInitInvariant == MarketReadsInit => ReadsIInv
BY MarketReadsConstants DEF MarketReadsInit, ReadsIInv, VisitTypeOK, VisitType, Tries, ReadsOneBuild,
   NotReading, VisitSteps

\* What an answer is put together from is of one build each, and stands while it is.
OneBuildEach(seen) == \A one, other \in seen : one.mart = other.mart => one = other

Stands(seen) == \A one \in seen : one.mart \notin absent /\ built[one.mart] = one.build

\* What stands is of one build.
LEMMA StandsIsOneBuild ==
  ASSUME NEW seen \in SUBSET Builds, Stands(seen)
  PROVE  OneBuildEach(seen)
<1>1. \A one \in seen : one = [mart |-> one.mart, build |-> one.build]
  BY DEF Builds
<1>2. QED
  BY <1>1 DEF Stands, OneBuildEach

\* What the next statement finds stands.
LEMMA FoundStands ==
  ASSUME VisitTypeOK, NEW r \in Visitors, Needs(r) \intersect absent = {}
  PROVE  Found(r) \in SUBSET Builds /\ Stands(Found(r))
BY DEF Found, Needs, Builds, Stands, VisitTypeOK

\* A step of one visitor's read leaves every other's as it is.
LEMMA VisitorStep ==
  ASSUME ReadsIInv, NEW r \in Visitors, AskRead(r) \/ ReadStep(r)
  PROVE  ReadsIInv'
<1>1. VisitTypeOK /\ Tries /\ ReadsOneBuild
  BY DEF ReadsIInv
<1>2. PICK v : visit' = [visit EXCEPT ![r] = v] /\ absent' = absent /\ built' = built
  BY DEF AskRead, ReadStep, RunStatement, FindMissing, RunOnceMore
<1>3. visit'[r] = v /\ \A o \in Visitors \ {r} : visit'[o] = visit[o]
  BY <1>1, <1>2 DEF VisitTypeOK
<1> DEFINE Sound ==
      /\ v \in VisitType
      /\ v.next <= Len(v.read) \/ v.next = 1
      /\ v.step = "waiting" => v.try = 1
      /\ v.step = "reading" => v.try # 0
      /\ v.step = "reading" => Stands(v.seen)
      /\ v.step = "answered" => OneBuildEach(v.seen)
<1>5. Sound => ReadsIInv'
  <2> SUFFICES ASSUME Sound
               PROVE  ReadsIInv'
    OBVIOUS
  <2>1. VisitTypeOK'
    BY <1>1, <1>2, <1>3 DEF VisitTypeOK
  <2>2. Tries'
    BY <1>1, <1>3 DEF Tries
  <2>3. v.step = "reading" => OneBuildEach(v.seen)
    BY StandsIsOneBuild DEF VisitType
  <2>4. ReadsOneBuild'
    BY <1>1, <1>2, <1>3, <2>3 DEF ReadsOneBuild, OneBuildEach, Stands
  <2>5. QED
    BY <2>1, <2>2, <2>4 DEF ReadsIInv
<1>6. /\ visit[r].read \in Reads \union {<<>>} /\ visit[r].next \in Nat \ {0}
      /\ visit[r].try \in 0..2 /\ visit[r].step \in VisitSteps /\ visit[r].seen \in SUBSET Builds
      /\ visit[r] = [read |-> visit[r].read, next |-> visit[r].next, try |-> visit[r].try,
                     step |-> visit[r].step, seen |-> visit[r].seen]
      /\ Len(visit[r].read) \in Nat
      /\ visit[r].next <= Len(visit[r].read) \/ visit[r].next = 1
      /\ visit[r].step = "reading" => visit[r].try # 0 /\ Stands(visit[r].seen)
  BY <1>1, ReadsAreSequences DEF VisitTypeOK, VisitType, Tries, ReadsOneBuild, Stands
<1>7. CASE AskRead(r)
  <2>1. PICK read \in Reads :
          visit' = [visit EXCEPT ![r] = [NotReading EXCEPT !.read = read, !.try = 1, !.step = "reading"]]
    BY <1>7 DEF AskRead
  <2>2. v = [read |-> read, next |-> 1, try |-> 1, step |-> "reading", seen |-> {}]
    BY <1>1, <1>3, <2>1 DEF VisitTypeOK, NotReading
  <2>3. v \in VisitType /\ Stands(v.seen)
    BY <2>2 DEF VisitType, VisitSteps, Stands
  <2>4. QED
    BY <2>2, <2>3, <1>5
<1>8. CASE RunStatement(r)
  <2>1. visit[r].step = "reading" /\ Needs(r) \intersect absent = {}
    BY <1>8 DEF RunStatement
  <2> DEFINE seen == visit[r].seen \union Found(r)
  <2>2. seen \in SUBSET Builds /\ Stands(seen)
    BY <1>1, <1>6, <2>1, FoundStands DEF Stands
  <2>3. OneBuildEach(seen)
    BY <2>2, StandsIsOneBuild
  <2>4. CASE visit' = [visit EXCEPT ![r].step = "answered", ![r].seen = @ \union Found(r)]
    <3>1. v = [visit[r] EXCEPT !.step = "answered", !.seen = seen]
      BY <1>1, <1>3, <2>4 DEF VisitTypeOK
    <3>2. v = [read |-> visit[r].read, next |-> visit[r].next, try |-> visit[r].try,
               step |-> "answered", seen |-> seen]
      BY <1>6, <3>1
    <3> HIDE DEF seen
    <3>3. v \in VisitType
      BY <1>6, <2>2, <3>2 DEF VisitType, VisitSteps
    <3>4. QED
      BY <1>5, <1>6, <2>3, <3>2, <3>3
  <2>5. CASE MoreToAsk(visit[r]) /\ visit' = [visit EXCEPT ![r].next = @ + 1, ![r].seen = @ \union Found(r)]
    <3>1. v = [visit[r] EXCEPT !.next = @ + 1, !.seen = seen]
      BY <1>1, <1>3, <2>5 DEF VisitTypeOK
    <3>2. v = [read |-> visit[r].read, next |-> visit[r].next + 1, try |-> visit[r].try,
               step |-> "reading", seen |-> seen]
      BY <1>6, <2>1, <3>1
    <3> HIDE DEF seen
    <3>3. v.next <= Len(v.read)
      BY <1>6, <2>5, <3>2 DEF MoreToAsk
    <3>4. v \in VisitType
      BY <1>6, <2>2, <3>2 DEF VisitType, VisitSteps
    <3>5. QED
      BY <1>5, <1>6, <2>1, <2>2, <3>2, <3>3, <3>4
  <2>6. QED
    BY <1>8, <2>4, <2>5 DEF RunStatement
<1>9. CASE FindMissing(r)
  <2>1. v = AfterMissing(visit[r])
    BY <1>1, <1>3, <1>9 DEF FindMissing, VisitTypeOK
  <2>2. PICK step \in {"waiting", "updating"} :
          /\ v = [read |-> visit[r].read, next |-> visit[r].next, try |-> visit[r].try, step |-> step,
                  seen |-> visit[r].seen]
          /\ step = "waiting" => visit[r].try = 1
    BY <1>6, <2>1 DEF AfterMissing
  <2>3. v \in VisitType
    BY <1>6, <2>2 DEF VisitType, VisitSteps
  <2>4. QED
    BY <1>5, <1>6, <2>2, <2>3
<1>10. CASE RunOnceMore(r)
  <2>1. visit[r].step = "waiting" /\ v = Retried(visit[r])
    BY <1>1, <1>3, <1>10 DEF RunOnceMore, VisitTypeOK
  <2>2. visit[r].try = 1
    BY <1>1, <2>1 DEF Tries
  <2>3. v = [read |-> visit[r].read, next |-> 1, try |-> 2, step |-> "reading", seen |-> {}]
    <3>1. v = [visit[r] EXCEPT !.next = 1, !.try = 2, !.step = "reading", !.seen = {}]
      BY <2>1, <2>2 DEF Retried
    <3>2. QED
      BY <1>6, <3>1
  <2>4. v \in VisitType /\ Stands(v.seen)
    BY <1>6, <2>3 DEF VisitType, VisitSteps, Stands
  <2>5. QED
    BY <1>5, <2>3, <2>4
<1>11. QED
  BY <1>7, <1>8, <1>9, <1>10 DEF ReadStep

\* A drop leaves alone what is held, and only an absent mart is built again.
LEMMA RebuildStep ==
  ASSUME ReadsIInv, DropMarts \/ BuildMart
  PROVE  ReadsIInv'
<1>1. /\ VisitTypeOK /\ Tries /\ ReadsOneBuild /\ visit' = visit
      /\ built \in [Marts -> 0..Rebuilds] /\ absent \subseteq Marts
  BY DEF ReadsIInv, VisitTypeOK, DropMarts, BuildMart
<1>2. absent' \subseteq Marts /\ built' \in [Marts -> 0..Rebuilds]
  <2>1. CASE DropMarts
    BY <1>1, <2>1 DEF DropMarts
  <2>2. CASE BuildMart
    <3>1. PICK mart \in absent : built[mart] < Rebuilds /\ built' = [built EXCEPT ![mart] = @ + 1]
                               /\ absent' = absent \ {mart}
      BY <2>2 DEF BuildMart
    <3>2. built[mart] + 1 \in 0..Rebuilds
      BY <1>1, <3>1, MarketReadsConstants
    <3>3. QED
      BY <1>1, <3>1, <3>2
  <2>3. QED
    BY <2>1, <2>2
<1>3. ASSUME NEW r \in Visitors, visit[r].step = "reading", NEW one \in visit[r].seen
      PROVE  one.mart \notin absent' /\ built'[one.mart] = one.build
  <2>1. one.mart \notin absent /\ built[one.mart] = one.build
    BY <1>1, <1>3 DEF ReadsOneBuild
  <2>2. one.mart \in Held(r)
    BY <1>3 DEF Held
  <2>3. CASE DropMarts
    BY <2>1, <2>2, <2>3 DEF DropMarts
  <2>4. CASE BuildMart
    BY <1>1, <2>1, <2>4 DEF BuildMart
  <2>5. QED
    BY <2>3, <2>4
<1>4. ReadsOneBuild'
  BY <1>1, <1>3 DEF ReadsOneBuild
<1>5. VisitTypeOK' /\ Tries'
  BY <1>1, <1>2 DEF VisitTypeOK, Tries
<1>6. QED
  BY <1>4, <1>5 DEF ReadsIInv

LEMMA ReadsNextInvariant == ReadsIInv /\ [MarketReadsNext]_marketVars => ReadsIInv'
<1> SUFFICES ASSUME ReadsIInv, [MarketReadsNext]_marketVars
             PROVE  ReadsIInv'
  OBVIOUS
<1>1. ASSUME NEW r \in Visitors, AskRead(r) \/ ReadStep(r)
      PROVE  ReadsIInv'
  BY <1>1, VisitorStep
<1>2. CASE UNCHANGED marketVars
  BY <1>2 DEF marketVars, ReadsIInv, VisitTypeOK, Tries, ReadsOneBuild
<1>3. QED
  BY <1>1, <1>2, RebuildStep DEF MarketReadsNext

LEMMA ReadsInductive == MarketReadsSpec => []ReadsIInv
BY ReadsInitInvariant, ReadsNextInvariant, PTL DEF MarketReadsSpec

\* Whatever dbt drops and builds, a read is at a statement of its own and at its
\* second try at most (read_marts).
THEOREM ReadsTypeCorrect == MarketReadsSpec => []MarketReadsTypeOK
<1>1. ReadsIInv => MarketReadsTypeOK
  <2> SUFFICES ASSUME ReadsIInv
               PROVE  MarketReadsTypeOK
    OBVIOUS
  <2>1. \A r \in Visitors : Len(visit[r].read) \in Nat
    BY ReadsAreSequences DEF ReadsIInv, VisitTypeOK
  <2>2. QED
    BY <2>1 DEF ReadsIInv, VisitTypeOK, VisitType, VisitSteps, Builds, MarketReadsTypeOK
<1>2. QED
  BY <1>1, ReadsInductive, PTL

\* No answer is put together from two builds of one mart, whatever dbt drops and
\* builds while it is read and however the second try comes about (read_once,
\* read_marts).
THEOREM ReadsAreOfOneBuild == MarketReadsSpec => []ReadsOneBuild
<1>1. ReadsIInv => ReadsOneBuild
  BY DEF ReadsIInv
<1>2. QED
  BY <1>1, ReadsInductive, PTL

-----------------------------------------------------------------------------
(* The two side by side.                                                   *)

\* A step of the publication leaves the reads of the marts alone, and theirs the
\* publication: the harness that checks them in one run adds nothing to either, and
\* keeps the fairness of both, so whatever is proved of one holds in it.
THEOREM ServingRunsBoth == ServingSpec => Spec /\ MarketReadsSpec
<1>1. ServingInit => Init /\ MarketReadsInit
  BY DEF ServingInit
<1>2. [ServingNext]_servingVars => [Next]_vars /\ [MarketReadsNext]_marketVars
  <2> SUFFICES ASSUME [ServingNext]_servingVars
               PROVE  [Next]_vars /\ [MarketReadsNext]_marketVars
    OBVIOUS
  <2>1. CASE UNCHANGED servingVars
    BY <2>1 DEF servingVars
  <2>2. CASE part = "market_reads" /\ MarketReadsNext /\ UNCHANGED <<vars, part>>
    BY <2>2
  <2>3. CASE /\ \/ \E r \in Runs : RunNext(r)
                \/ \E p \in Readers : ReaderNext(p)
             /\ UNCHANGED marketVars
    BY <2>3 DEF Next
  <2>4. QED
    BY <2>1, <2>2, <2>3 DEF ServingNext
<1>3. QED
  BY <1>1, <1>2, PTL DEF ServingSpec, Spec, MarketReadsSpec
=============================================================================
