------------------------- MODULE FeaturePublication -------------------------
(***************************************************************************)
(* The daily features' two tables and the view over one of them: the runs  *)
(* that compute, check and publish (pipelines/assets/features, checks/     *)
(* features.py, feature_publication.py), how a run is started (flows.py,   *)
(* infra/dagster/dagster.yaml) and the API's transactions reading through  *)
(* the view.                                                               *)
(*                                                                         *)
(* A run's steps execute in processes of their own, each with one database *)
(* connection whose transaction ends with the step.  Locks are those of    *)
(* Postgres: whoever reads the view holds it and then its table until      *)
(* their transaction ends, a truncate needs its table to itself, and a     *)
(* view is replaced once nobody holds it; whoever arrives while a truncate *)
(* or a replacement waits, waits behind it.  Of a computation the model    *)
(* keeps whose it is and whether it is sound.                              *)
(*                                                                         *)
(* Runs may meet: a command line records its run after it has looked for   *)
(* others, and a bootstrap's second run begins without another look        *)
(* (BeginNext).  What is promised of a run that met no other is kept apart *)
(* from what is left of it when two meet, by the history variable met.     *)
(***************************************************************************)
EXTENDS Integers, Sequences

CONSTANTS Runs,        \* the runs of the flows, each computing once
          Scheduled,   \* those the queue releases; the rest start from a command line
          Readers,     \* the API's transactions
          After,       \* the run of a bootstrap's first window, of that of its second
          Attempts,    \* PUBLISH_ATTEMPTS
          None         \* no run and no table

Tables == {"daily_features_a", "daily_features_b"}

ASSUME ConstantsAssumption ==
  /\ Scheduled \subseteq Runs
  /\ Attempts \in Nat \ {0}
  /\ After \in [Runs -> Runs \union {None}]
  /\ \A r \in Scheduled : After[r] = None
  /\ None \notin Runs \union Tables

Computation == [by: Runs \union {None}, sound: BOOLEAN]

VARIABLES tables,      \* the computation each table holds
          view,        \* the table mart_daily_features reads
          releases,    \* feature_release
          event,       \* the latest materialization of daily_features
          pc, status,  \* each run's step, and what Dagster records of the run
          target,      \* the table the run resolved
          counted,     \* the computation publish counted
          attempts,    \* its attempts to publish
          met,         \* history: the runs under way while another was
          stage,       \* where each reader is in its transaction
          reading,     \* the table it holds through the view
          released,    \* the release it read, as its place in releases
          figures      \* the computation it read

data    == <<tables, view, releases, event>>
runVars == <<pc, status, target, counted, attempts, met>>
readVars == <<stage, reading, released, figures>>
vars    == <<data, runVars, readVars>>

\* The migration makes the stored rows the first table, under the view.
Before == [by |-> None, sound |-> TRUE]

Init ==
  /\ tables = [t \in Tables |-> Before]
  /\ view = "daily_features_a"
  /\ releases = <<>>
  /\ event = [run |-> None, table |-> None]
  /\ pc = [r \in Runs |-> "waiting"]
  /\ status = [r \in Runs |-> "none"]
  /\ target = [r \in Runs |-> None]
  /\ counted = [r \in Runs |-> Before]
  /\ attempts = [r \in Runs |-> 0]
  /\ met = {}
  /\ stage = [p \in Readers |-> "idle"]
  /\ reading = [p \in Readers |-> None]
  /\ released = [p \in Readers |-> 0]
  /\ figures = [p \in Readers |-> Before]

-----------------------------------------------------------------------------
(* Locks.                                                                  *)

Unpublished == CHOOSE t \in Tables : t # view

\* Who has emptied the table in a transaction still open, and who has asked for
\* it besides.
Writing(t) == {r \in Runs : pc[r] = "store" /\ target[r] = t}

Taking(t) == {r \in Runs : pc[r] \in {"emptying", "store"} /\ target[r] = t}

\* Who counted the table in a transaction still open.
Counting(t) == {r \in Runs : pc[r] \in {"attempt", "asked"} /\ target[r] = t}

ReadersOf(t) == {p \in Readers : stage[p] = "answered" /\ reading[p] = t}

ViewHeld == \E p \in Readers : reading[p] # None

Goto(r, step) == pc' = [pc EXCEPT ![r] = step]

\* What a run knew is gone with its last step; Dagster records the run as over.
Leave(r) ==
  /\ Goto(r, "ended")
  /\ target' = [target EXCEPT ![r] = None]
  /\ counted' = [counted EXCEPT ![r] = Before]
  /\ attempts' = [attempts EXCEPT ![r] = 0]

End(r) == Leave(r) /\ status' = [status EXCEPT ![r] = "finished"]

GoOn(r, step) == Goto(r, step) /\ UNCHANGED <<status, target, counted, attempts>>

Unfinished(r) == status[r] = "unfinished"

-----------------------------------------------------------------------------
(* Starting a run.                                                         *)

\* Under way, whatever Dagster records of it.
UnderWay(r) == pc[r] \notin {"waiting", "cleared", "ended"}

\* Dagster records the run, which may find others under way.
Start(r) ==
  /\ Goto(r, "resolve")
  /\ status' = [status EXCEPT ![r] = "unfinished"]
  /\ LET others == {q \in Runs : UnderWay(q)} IN
       met' = IF others = {} THEN met ELSE met \union others \union {r}
  /\ UNCHANGED <<data, target, counted, attempts, readVars>>

\* The queue releases a run once no other is in progress.
Release(r) ==
  /\ r \in Scheduled /\ pc[r] = "waiting"
  /\ \A q \in Runs : ~Unfinished(q)
  /\ Start(r)

\* refuse_unless_ready looks for a run in progress; the run begins later.
RefuseUnlessReady(r) ==
  /\ r \notin Scheduled /\ After[r] = None /\ pc[r] = "waiting"
  /\ Goto(r, IF \E q \in Runs : Unfinished(q) THEN "ended" ELSE "cleared")
  /\ UNCHANGED <<data, status, target, counted, attempts, met, readVars>>

Begin(r) == pc[r] = "cleared" /\ Start(r)

\* The bootstrap's second window, once its first has returned: nothing is looked for
\* again, and another run may have begun since the first ended.
BeginNext(r) ==
  /\ pc[r] = "waiting" /\ After[r] # None
  /\ pc[After[r]] = "ended" /\ status[After[r]] = "finished"
  /\ Start(r)

-----------------------------------------------------------------------------
(* Computing and checking.                                                 *)

\* daily_features: the table is resolved before the computation is written.
Resolve(r) ==
  /\ pc[r] = "resolve"
  /\ target' = [target EXCEPT ![r] = Unpublished]
  /\ Goto(r, "truncate")
  /\ UNCHANGED <<data, status, counted, attempts, met, readVars>>

\* The table's lock is asked for, with no timeout; whoever reads the table from now
\* on waits behind it.
AskToEmpty(r) ==
  /\ pc[r] = "truncate"
  /\ Goto(r, "emptying")
  /\ UNCHANGED <<data, status, target, counted, attempts, met, readVars>>

Truncate(r) ==
  /\ pc[r] = "emptying"
  /\ LET t == target[r] IN Writing(t) = {} /\ Counting(t) = {} /\ ReadersOf(t) = {}
  /\ Goto(r, "store")
  /\ UNCHANGED <<data, status, target, counted, attempts, met, readVars>>

\* The rows are stored and the transaction commits.
Store(r) ==
  /\ pc[r] = "store"
  /\ \E sound \in BOOLEAN :
       tables' = [tables EXCEPT ![target[r]] = [by |-> r, sound |-> sound]]
  /\ Goto(r, "materialize")
  /\ UNCHANGED <<view, releases, event, status, target, counted, attempts, met, readVars>>

\* Dagster records the step's result once it has returned.
Materialize(r) ==
  /\ pc[r] = "materialize"
  /\ event' = [run |-> r, table |-> target[r]]
  /\ Goto(r, "check")
  /\ UNCHANGED <<tables, view, releases, status, target, counted, attempts, met, readVars>>

\* Variant: checks that do not block the publication.
CheckWithoutBlocking(r) ==
  /\ pc[r] = "check" /\ Taking(Unpublished) = {}
  /\ Goto(r, "find")
  /\ UNCHANGED <<data, status, target, counted, attempts, met, readVars>>

\* daily_feature_ranges, over the table readers do not see now: a rule broken
\* stops the run before its publication.
Check(r) ==
  /\ pc[r] = "check"
  /\ Taking(Unpublished) = {}
  /\ IF tables[Unpublished].sound THEN GoOn(r, "find") ELSE End(r)
  /\ UNCHANGED <<data, met, readVars>>

-----------------------------------------------------------------------------
(* daily_feature_publication and publish.                                  *)

FindComputation(r) ==
  /\ pc[r] = "find"
  /\ IF event.run = r THEN GoOn(r, "confirm") ELSE End(r)
  /\ UNCHANGED <<data, met, readVars>>

ConfirmTable(r) ==
  /\ pc[r] = "confirm"
  /\ IF target[r] = Unpublished THEN GoOn(r, "count") ELSE End(r)
  /\ UNCHANGED <<data, met, readVars>>

\* Variant: the rows are counted through the view.
CountPublished(r) ==
  /\ pc[r] = "count"
  /\ counted' = [counted EXCEPT ![r] = tables[view]]
  /\ Goto(r, "attempt")
  /\ UNCHANGED <<data, status, target, attempts, met, readVars>>

Count(r) ==
  /\ pc[r] = "count"
  /\ Taking(target[r]) = {}
  /\ counted' = [counted EXCEPT ![r] = tables[target[r]]]
  /\ Goto(r, "attempt")
  /\ UNCHANGED <<data, status, target, attempts, met, readVars>>

\* Variant: the release is recorded before the view is repointed.
AskRecording(r) ==
  /\ pc[r] = "attempt"
  /\ releases' = Append(releases, [table |-> target[r], run |-> r, counted |-> counted[r]])
  /\ Goto(r, "asked")
  /\ UNCHANGED <<tables, view, event, status, target, counted, attempts, met, readVars>>

\* The view's lock is asked for; readers arriving from now on wait behind it.
Ask(r) ==
  /\ pc[r] = "attempt"
  /\ Goto(r, "asked")
  /\ UNCHANGED <<data, status, target, counted, attempts, met, readVars>>

\* Variant: the view is repointed under its readers.
RepointUnderReaders(r) ==
  /\ pc[r] = "asked"
  /\ view' = target[r]
  /\ releases' = Append(releases, [table |-> target[r], run |-> r, counted |-> counted[r]])
  /\ Goto(r, "published")
  /\ UNCHANGED <<tables, event, status, target, counted, attempts, met, readVars>>

\* The view is pointed at the table and the release recorded, in one commit.
Repoint(r) ==
  /\ pc[r] = "asked" /\ ~ViewHeld
  /\ view' = target[r]
  /\ releases' = Append(releases, [table |-> target[r], run |-> r, counted |-> counted[r]])
  /\ Goto(r, "published")
  /\ UNCHANGED <<tables, event, status, target, counted, attempts, met, readVars>>

Again(r) ==
  /\ attempts' = [attempts EXCEPT ![r] = @ + 1]
  /\ Goto(r, "attempt")
  /\ UNCHANGED <<status, target, counted>>

\* Variants of an attempt giving up: one attempt too many, and no lock timeout at
\* all.
TimeOutOnceMore(r) ==
  /\ pc[r] = "asked" /\ ViewHeld
  /\ \/ attempts[r] = Attempts /\ End(r)
     \/ attempts[r] # Attempts /\ Again(r)
  /\ UNCHANGED <<data, met, readVars>>

WaitForReaders(r) == pc[r] = "asked" /\ ViewHeld /\ UNCHANGED vars

\* LOCK_TIMEOUT passes with the view still held; the last attempt's passing
\* is refused.
TimeOut(r) ==
  /\ pc[r] = "asked" /\ ViewHeld
  /\ \/ attempts[r] + 1 = Attempts /\ End(r)
     \/ attempts[r] + 1 # Attempts /\ Again(r)
  /\ UNCHANGED <<data, met, readVars>>

Finish(r) ==
  /\ pc[r] = "published"
  /\ End(r)
  /\ UNCHANGED <<data, met, readVars>>

\* A step fails, or its process is killed and Dagster still counts the run as
\* under way; the step's transaction is undone.
Stop(r) ==
  /\ UnderWay(r)
  /\ End(r) \/ (Leave(r) /\ UNCHANGED status)
  /\ UNCHANGED <<data, met, readVars>>

-----------------------------------------------------------------------------
(* The API's transactions, each reading the newest release and then figures. *)

ReadRelease(p) ==
  /\ stage[p] = "idle"
  /\ stage' = [stage EXCEPT ![p] = "released"]
  /\ released' = [released EXCEPT ![p] = Len(releases)]
  /\ UNCHANGED <<data, runVars, reading, figures>>

\* Reading the figures takes the view, then the table behind it.
OpenView(p) ==
  /\ stage[p] = "released"
  /\ \A r \in Runs : pc[r] # "asked"
  /\ stage' = [stage EXCEPT ![p] = "opened"]
  /\ reading' = [reading EXCEPT ![p] = view]
  /\ UNCHANGED <<data, runVars, released, figures>>

ReadFigures(p) ==
  /\ stage[p] = "opened"
  /\ Taking(reading[p]) = {}
  /\ stage' = [stage EXCEPT ![p] = "answered"]
  /\ figures' = [figures EXCEPT ![p] = tables[reading[p]]]
  /\ UNCHANGED <<data, runVars, reading, released>>

EndTransaction(p) ==
  /\ stage[p] = "answered"
  /\ stage' = [stage EXCEPT ![p] = "idle"]
  /\ reading' = [reading EXCEPT ![p] = None]
  /\ released' = [released EXCEPT ![p] = 0]
  /\ figures' = [figures EXCEPT ![p] = Before]
  /\ UNCHANGED <<data, runVars>>

-----------------------------------------------------------------------------

RunStep(r) ==
  \/ Resolve(r) \/ AskToEmpty(r) \/ Truncate(r) \/ Store(r) \/ Materialize(r) \/ Check(r)
  \/ FindComputation(r) \/ ConfirmTable(r) \/ Count(r) \/ Ask(r)
  \/ Repoint(r) \/ TimeOut(r) \/ Finish(r)

RunNext(r) ==
  Release(r) \/ RefuseUnlessReady(r) \/ Begin(r) \/ BeginNext(r) \/ RunStep(r) \/ Stop(r)

ReaderNext(p) == ReadRelease(p) \/ OpenView(p) \/ ReadFigures(p) \/ EndTransaction(p)

Next == (\E r \in Runs : RunNext(r)) \/ (\E p \in Readers : ReaderNext(p))

\* A process goes on with its step while it lives, and a statement waiting for
\* a lock is given it; nothing says when a reader ends its transaction.
Fairness ==
  /\ \A r \in Runs : WF_vars(RunStep(r))
  /\ \A p \in Readers : WF_vars(OpenView(p)) /\ WF_vars(ReadFigures(p))

Spec == Init /\ [][Next]_vars /\ Fairness

-----------------------------------------------------------------------------
(* Properties.                                                             *)

Steps == {"waiting", "cleared", "resolve", "truncate", "emptying", "store", "materialize",
          "check", "find", "confirm", "count", "attempt", "asked", "published", "ended"}

ReleaseRecord == [table: Tables, run: Runs, counted: Computation]

\* Every variable has its type, an attempt is one of those allowed, a run past
\* resolving has a table, and a reader holds one exactly once it has opened the view.
TypeOK ==
  /\ tables \in [Tables -> Computation]
  /\ view \in Tables
  /\ releases \in Seq(ReleaseRecord)
  /\ event \in [run: Runs \union {None}, table: Tables \union {None}]
  /\ pc \in [Runs -> Steps]
  /\ status \in [Runs -> {"none", "unfinished", "finished"}]
  /\ target \in [Runs -> Tables \union {None}]
  /\ counted \in [Runs -> Computation]
  /\ attempts \in [Runs -> 0 .. Attempts - 1]
  /\ met \subseteq Runs
  /\ stage \in [Readers -> {"idle", "released", "opened", "answered"}]
  /\ reading \in [Readers -> Tables \union {None}]
  /\ released \in [Readers -> Nat]
  /\ figures \in [Readers -> Computation]
  /\ \A r \in Runs : pc[r] \notin {"waiting", "cleared", "resolve", "ended"}
                       => target[r] \in Tables
  /\ \A p \in Readers : reading[p] # None <=> stage[p] \in {"opened", "answered"}

\* "no reader waits for a write": the table a run is about to empty or is filling is
\* not the one the view reads, nor one any reader holds or is about to, unless
\* the run met another.
NoReaderWaitsForAWrite ==
  \A r \in Runs \ met : pc[r] \in {"truncate", "emptying", "store"} =>
    target[r] # view /\ \A p \in Readers : reading[p] # target[r]

\* A run puts before readers its own computation, found sound, in one step,
\* and nothing else changes what readers see, also when steps fail or their
\* processes are killed; and where runs meet, only they disturb it, and only with
\* what they computed (PublishedFeatures).
Published == INSTANCE PublishedFeatures WITH
  First <- None, shown <- tables[view],
  log <- [i \in DOMAIN releases |-> releases[i].run]

Implements == Published!Init /\ [][Published!Next]_(Published!pubVars)

\* "The newest release is the computation the daily features view reads": a
\* reader that reads the release and then figures is given the figures of that
\* release or of one published since, never older ones, unless they are those of
\* a run that met another.
FiguresNotOlderThanRelease ==
  \A p \in Readers : stage[p] = "answered" /\ released[p] > 0 =>
    \/ \E i \in released[p] .. Len(releases) : releases[i].run = figures[p].by
    \/ figures[p].by \in met

\* Readers holding the view keep nobody waiting for good: an attempt of a run gives up
\* and so, after PUBLISH_ATTEMPTS, does the run, and a reader waiting behind a publish is
\* answered, even while other readers never let the view go.  Only where runs met can
\* one wait for good, to empty the table the view reads by then, and readers behind it.
EveryoneGoesOn ==
  /\ \A r \in Runs : pc[r] = "resolve" ~> pc[r] = "ended" \/ r \in met
  /\ \A p \in Readers : stage[p] = "released" ~>
       \/ stage[p] = "answered"
       \/ \E r \in met : pc[r] = "emptying" /\ target[r] = view

\* What a release counted and showed is its own run's, unless the run met another.
PublishesOwnAlone ==
  \A i \in DOMAIN releases :
    releases[i].run \notin met => releases[i].counted.by = releases[i].run

\* "A run publishes only the computation it wrote itself", whoever else is under way.
PublishesOwn == \A i \in DOMAIN releases : releases[i].counted.by = releases[i].run

=============================================================================
