# TLA+ specifications of bitemporal

Specifications of the parts of this repository whose correctness depends on the order in which
things happen, with the TLC configurations that check them on small instances and TLAPS proofs of
what holds for every instance. Paths below are relative to the repository's root; `pipelines/x`
stands for `pipelines/src/pipelines/x` and `api/x` for `api/src/api/x`.

- [The system](#the-system): its parts, their state, how they interact, what makes each correct
- [Modules](#modules): which models what, and how its state and actions correspond to the code
- [Runs](#runs): what each shows, its bounds and why they are enough
- [Fairness](#fairness)
- [What is proved](#what-is-proved), from which assumptions, along which argument
- [Where code and text disagree](#where-code-and-text-disagree)
- [Not modelled](#not-modelled)
- [Plan](#plan)

To parse, check and prove, in this directory:

    tlasany Accounts.tla
    tlc -workers 2 -config MCAccounts.cfg MCAccounts
    tlapm AccountsProofs.tla

`PROJECT.json` lists the components, the runs, the definitions with the source lines each stands
for, a plausible defect of the code every property catches (the definitions the modules introduce
as "Variant"), and the hazards at the lines where they bite.

## The system

bitemporal reads the daily files two exchanges (NSE and BSE) publish, keeps every fact with the date
it was known on, derives identity, adjusted prices and daily features from them, and serves the
result to people who sign in. Three programs share one Postgres database: the **pipelines** (Python
under Dagster, with dbt), the **engine** (C++ called from the pipelines), and the **API** (FastAPI)
with a **web** application in front of it.

    venues --files--> download cache --> bars, delivery, actions, names (append-only facts)
                                              |                |
                                          verdicts      identity, adjustment (dbt marts)
                                              |                |
                                              +--> feature derivation --engine, parallel_for-->
                                                   daily_features_a | _b --publish--> view
                                                                                      |
    people --cookie--> sessions --> accounts, roles, limits, audit      API reads <---+

They interact through the database: rows, row and table locks, row-level policies, one trigger, one
advisory lock. Inside the pipelines, Dagster starts each step in a process of its own and keeps the
record of runs and of what each step materialized; nothing else is shared between processes but the
files of the cache.

| Part | State | Operations | What is hard | What makes it correct |
|---|---|---|---|---|
| Accounts, roles, audit, session limits (`api/services/user_management.py`, `session_limit_settings.py`, `first_admin_setup.py`, `audit.py`, migrations 0019-0022) | `app_user`, `app_setting`, `audit_event`; policies and a trigger on them | add a person, change role or state, reset a password, change the limits, create the first admin | requests interleaving between statements under READ COMMITTED; an actor losing the role midway; updates that reach no row and raise nothing | every change recorded in its own commit; an enabled admin remains; the first admin is the first; a disabled person's sessions end |
| Sign-in and sessions (`sign_in.py`, `sessions.py`, `passwords.py`) | `app_session`, failure counts, hashes | sign in, rehash, sign out, replace a password, end a session at a request | a password checked in one transaction and used in a later one; failures counted at once; clocks | no password checked earlier undoes a later reset; pauses hold; no request is served past a limit |
| Daily feature publication (`pipelines/feature_publication.py`, `assets/features/`, `checks/features.py`) | two tables, the view over one of them, `feature_release`, Dagster's events | compute into the table not shown, check it, repoint the view | readers holding the view's lock; steps killed anywhere; two runs | readers see one sound computation at a time, the newest release's, and never wait for a write |
| Flows and the run queue (`pipelines/flows.py`, `jobs.py`, `schedules.py`, `infra/dagster/dagster.yaml`) | the status Dagster keeps of a run | start by schedule, start from a command line, refuse when one is in progress | look and record are apart, and a bootstrap's second window begins without another look; a killed run stays in progress | a run alone publishes its own; a clean exit has read every day |
| parallel_for (`engine/src/parallel.cpp`) | two relaxed atomics, a mutex, the pool | share out indices, catch, join, raise again | claims racing, exceptions on helpers, a thread that cannot be started | each index once; the outcome tells what happened; it ends |
| Engine figures (`engine/src/features.cpp`, `venues.cpp`, `indicators/`) | none | rolling indicators, primary venue, designated bars | windows at their edges, gaps | equal to their definitions |
| Facts, recheck, history (`pipelines/facts.py`, `history.py`, `assets/ingestion/bhavcopy.py`, `delivery.py`) | `price_daily`, `delivery_daily` and other append-only tables keyed by as-of date | store a day, store a correction, read as of a date, name instruments | corrections noticed on one date; days read in any order; kills between the writes; both venues' runs writing at once | what stood on a date can be read as of it; a change noticed is stored; a figure belongs to one instrument; a name does not depend on the order of reading |
| Download cache and source clients (`pipelines/sources/`) | first copies, dated versions, validators | fetch, ask again with validators, retry, throttle | a crash between holding a file and its validators; a page in place of a file | a file the venue says is current is the one held |
| Trading-day verdicts (`checks/completeness.py`, `assets/ingestion/completeness.py`) | `trading_day` | judge the days that changed, restate where venues disagree | one venue before the other; dates already taken | every stored day has a verdict, drawn on the bars standing |
| Corporate actions and adjustment (`assets/ingestion/corporate_actions.py`, `adjustment.py`) | announcements as known on dates, handled or not | read by year, restate, withdraw, derive factors | an answer cut short read as a withdrawal; restatements out of order | nothing withdrawn that the venue still announces; factors follow what is known |
| Identity (`identity.py`, `assets/ingestion/identity.py`) | instruments, listings, successions | observe, derive listings and successions, retire | two processes inserting at once; chains of ISINs | a link leads on to an ISIN that began to trade; no deadlock |
| Feature derivation (`feature_derivation.py`, `feature_inputs.py`) | none of its own | gather, call the engine, store in batches | a large write in one transaction | the rows are the engine's |
| Parsers, dbt models, migrations | files and SQL | read, rebuild, migrate | formats; a rebuild under readers | what the files say |
| Market reads (`api/services/market_reads.py`, `trading_days.py`, `key_figures.py`) | none | read the release and figures, wait once for a mart being rebuilt | a table dropped and built again under a reader | no answer from two builds of one mart |
| Saved views and watchlists (`saved_screener_views.py`, migrations 0025, 0026) | rows kept and marked removed | save, rename, remove | two saves under one name | one view a name |
| Screener queries (`screener_queries.py`, `screener_criteria.py`) | none | read an address, build a query | what an address leaves out | an address read back is the screen it was made from |
| Web application | the cookie | show pages | | |

## Modules

One module per component, holding its state, one action per statement, step or handler, and its
properties; an `MC` module where TLC needs a definition or a symmetry set. `Accounts`, `ParallelFor`
and `TradingDays` have a module of proofs each; the proofs of the others share one by part of the
program: `ServingProofs`, `IngestionProofs`, `DerivationProofs`, `PartsProofs`. `NaturalFacts` has the
facts about numbers they rest on. There are two abstract specifications: `PublishedFeatures`, which
`FeaturePublication` implements, and `Facts`, which three tables do. No module uses a RECURSIVE
operator; what recurses is a recursive function.

Eleven components share no variable and call nothing of one another, though their code meets in the
database: what one takes from another is a constant of it (the listings identity has derived by
stage, the days a venue has priced). `SmallListings` assumes of those constants what the theorems
that need more than their component's own assumption ask for. Their modules are checked in one
harness, `MCParts`, which lets a behaviour run one of them while the others rest in their initial
state; the states then add up instead of multiplying. `MCServing` does the same for the publication
of the daily features and the reads of other marts, under the fairness of both. That neither harness
adds anything is proved: a behaviour of it is one of every part (`PartsRunAsAlone`,
`ServingRunsBoth`). `MCIdentity` has the one world of `Identity` whose derivation depends on the order
of days.

### Accounts (with `MCAccounts`, `AccountsProofs`)

One request is one element of `Requests`; it arrives once, goes through the statements of its
handler and ends. Each statement is a step. READ COMMITTED is modelled as Postgres does it: a
statement sees what is committed at its moment (`users`, `sessions`, `limits`, `audit`) with its own
transaction's writes over it (`RowSeen`); an update takes its row's lock (`lock`) and keeps it until
`Commit` or `Rollback`. The policies of migrations 0019 to 0022 are `Reaches` and `IsAdmin`, the
trigger `app_user_guard` is `Guard`, and a row a policy hides is left alone without an error
(`UpdateUser`), as the code does not look at row counts.

| Code | Actions |
|---|---|
| `sessions.session_holder`, the dependency `admin` | `EndAtRequest`, `Serve`, `TurnAway`, `MayAdminister` |
| `user_management.change_account` | `AskChangeAccount`, `ReadPerson`, `RecordRole`, `ChangeRole`, `RecordState`, `ChangeState`, `EndSessions`, `Finish`, `CommitAnswered` |
| `user_management.reset_password`, two transactions | `AskResetPassword`, `ReadPerson`, `Reset`, `EndSessions`, `RecordChange`, `Finish`, `CommitAnswered` |
| `user_management.add_person` | `AskAddPerson`, `Add`, `RecordChange`, `Finish` |
| `create_first_admin` in the database, `first_admin_setup.py` | `SetUp`, `RecordChange`, `Finish` |
| `session_limit_settings.change_session_limits` | `AskChangeLimits`, `ReadLimits`, `RecordChange`, `ChangeLimits`, `Finish` |
| `sign_in.py` | `SignIn`, `Rehash`, `Finish` |
| `sessions.py` sign-out and password change | `StartSignOut`, `SignOut`, `AskReplacePassword`, `NewPassword`, `Finish` |

Abstracted: a password is whose it is (chosen by the holder or issued by an admin) and whether its
hash is outdated; time is left out, so a session may be past a limit, a sign-in paused or a temporary
password past its day at any request; what a reset clears of the failed sign-ins is in `SignIn`. The
reason a session ended for is the later one where two requests end it: `END` and `SIGN_OUT` write by id
alone. `Finish` is the answer's own reading of the person, a statement before the commit
(`CommitAnswered`). A display name changes nowhere and is left out. The session
a request acts for, its standing and its ending are read in one step, being one transaction that
takes no lock before its last statement.

### PublishedFeatures, FeaturePublication (with `MCServing`, `ServingProofs`)

`PublishedFeatures` promises readers one whole computation at a time, replaced in one step by a
run's own sound one; where runs meet, only they disturb it, and with what one of them computed.
`FeaturePublication` is the mechanism: `tables` and `view` are the two tables
and what `mart_daily_features` reads, `releases` is `feature_release`, `event` the latest
materialization Dagster holds, `status` what Dagster records of a run, and `reading` the locks of
the API's transactions. The mapping shows `tables[view]` as the computation readers see.

| Code | Actions |
|---|---|
| the run queue (`dagster.yaml`) | `Release` |
| `flows.refuse_unless_ready` and the start from a command line | `RefuseUnlessReady`, `Begin` |
| the bootstrap's second window (`flows.py:343-346`) | `BeginNext` |
| `assets/features/daily.py`, `feature_publication.unpublished_table` | `Resolve`, `AskToEmpty`, `Truncate`, `Store`, `Materialize` |
| `checks/features.py`, blocking | `Check` |
| `assets/features/publication.py`, `feature_publication.publish` | `FindComputation`, `ConfirmTable`, `Count`, `Ask`, `Repoint`, `TimeOut`, `Finish` |
| a step that fails or is killed | `Stop` |
| a transaction of the API (`trading_days.py` and what reads after it) | `ReadRelease`, `OpenView`, `ReadFigures`, `EndTransaction` |

A lock asked for queues the readers that arrive after it, as in Postgres: `OpenView` waits while a
run has asked to replace the view (and gives up after `LOCK_TIMEOUT`), `ReadFigures` while one has
asked to empty the table (which has no timeout). Of a computation the model keeps whose it is and
whether the range checks pass it.

Runs may overlap: a command line looks for runs before its own is recorded, and the second window of
a bootstrap begins without a look, when Dagster may have released a sync since the first ended.
Nothing in the model keeps them apart. `After` says which run is that of a bootstrap's second window,
and the history variable `met`, which no guard reads, keeps the runs that were under way while another
was. What the code promises holds of the others; what is left where runs meet is said in each
property, and `publication_overlap` shows what is not.

### ParallelFor (with `ParallelForProofs`)

Every access of the shared counter and flag, every call of `work` and the catch block is a step.
Both atomics are relaxed, so a load of `stopped` may miss another thread's store, never the
thread's own. Any call may raise and any thread may not be had.

| Code (`parallel.cpp`) | Actions |
|---|---|
| one thread to use | `CallAlone` |
| the pool grows, and the caller joins in | `Spawn`, `Join`, `SpawnFails` |
| `drain` | `LoadStopped`, `Claim`, `Call`, `Catch` |
| the pool joined, the exception raised again | `Return` |

`size_t` is taken as unbounded: the counter ends below `count + threads * chunk`.

### TradingDays (with `MCTradingDays`, `TradingDaysProofs`)

A trading day as it becomes known. `published` is what the venue put up and corrected, `first`,
`versions` and `validators` are the files of the cache, `bars` is `price_daily` keyed by instrument
and as-of date, `verdicts` is `trading_day`. A run starts one process a venue, each going through
its days and killed between any two writes, and then judges.

| Code | Actions and operators |
|---|---|
| the calendar, the venues (outside) | `NextDay`, `Publish` |
| a run of the flows; `bhavcopy.py` for a venue, `history.latest_days_held` | `StartRun`, `StartVenue`, `GoOn`, `LatestDaysHeld` |
| `cache.py`, `revalidation.recheck`, the sources' `fetch` | `Fetch`, `Recheck`, `LeaveHeld`, `HoldValidators`, `HeldBy`, `Latest` |
| `bhavcopy.store`, `corrected_bars`, `facts._append` | `Store`, `BarsOf`, `Corrected`, `Appended` |
| a day that is not published, served or readable | `PassOver` |
| `assets/ingestion/completeness.py`, `checks/completeness.py`, `history.py` | `Judge`, `RecordVerdicts`, `Awaiting`, `Changed`, `Disagreeing`, `Judged` |
| a process killed, the run over without a verdict | `Kill`, `EndRun` |

Abstracted: a bar is one value, any two of which are too far apart to agree across venues; files are
in the current format; a day is not measured against the length of its neighbours, which takes
`MINIMUM_NEIGHBOURS` (ten) of them; the bootstrap is the sync whose every recheck is in vain; a
process is killed between writes, never within one; a first request is answered with the file or not
at all.

### Facts

What a table of facts promises, and how it is written. `AppendFacts` is `facts._append`: a commit adds
versions dated the day it is made, at most one of a key, and changes none (`on conflict do nothing`).
`KnownOn` is what the models of dbt's staging layer select as of a date. `PastIsFixed`: what was known
on a date that is over is never known otherwise. `OneVersionEach`: one version of a key is known on a
date, so `distinct on` has nothing to choose.

`CorporateActions` and `SecurityLists` implement it, with the keys of their tables (`ActionFacts`,
`NameFacts`, `FaceValueFacts`). `price_daily` and `delivery_daily` do not: a day read late is stored
for the day it became knowable, which is over. Their promise is weaker, and is stated where their
copies are: `KnownAsOf` of `TradingDays`, `FiguresKnownAsOf` of `Deliveries`. Nor does `trading_day`: a
day's first verdict is dated the day itself. `VerdictsKnownAsOf` of `TradingDays` says that a verdict
once known on a date stays so.

### Identity (with `MCIdentity`, `DerivationProofs`)

Identity derived again from every stored bar after each ingestion. `bars` and `held` are the
venue's bars and days, stored in any order (`StoreDay`) and corrected (`CorrectDay`); `listings` and
`successions` are the two tables. Nothing in the derivation compares two venues, so a behaviour
follows one.

| Code | Actions and operators |
|---|---|
| `history.read_stretches` (a window query) | `Opens`, `DaysFrom`, `Stretch`, `ReadStretches` |
| `identity.derive_listings`, `close_listings`, `mark_supersessions` | `AbsorbUntickered`, `CloseListing`, `MarkSupersessions`, `DeriveListings` |
| `derive_successions`, `persist_identity` | `DeriveSuccessions`, `Upserted`, `Linked` |
| `retire_listings` | `Stale`, `Vanished`, `RefuseIdentity` |
| `assets/ingestion/identity.py` | `DeriveIdentity` |
| `checks/identity.py` | `OrphanedBars`, `StretchesOverlap`, `SupersededAlone` |

### Bhavcopies (with `IngestionProofs`)

From both venues' daily files to bars and names, each venue's run over days of its own choosing. A
line of a file is its ISIN, its code, its trades, and whether it is a second line, an equity line and
readable. A day commits by itself, corrected files' bars and instruments with it, and names are
written when the last day is read; a run may be killed, or end in an exception, anywhere before.
`hold_instrument_writes` is `HoldsTurn`; the two locks that would deadlock without it, on
`instrument_master` for new instruments and on a chunk of `price_daily` for its foreign key, are
`WaitsFor`. `namedAt` is a history variable, the latest day each run that came to its end read of an
instrument.

| Code | Actions and operators |
|---|---|
| `sources/{bse,nse}/bhavcopy.py`, the cache | `ReadFile`, `CopyRead`, `FileAnswers`, `HeldAfter` |
| `sources/{legacy,udiff,bhavcopy}.py`, `identity.resolvable` | `Misread`, `Equity`, `Unresolved`, `EquityLines`, `OrdinaryLine`, `IsinForCode`, `BarsOf`, `DayRefused` |
| `assets/ingestion/bhavcopy.py` | `StartFiles`, `NextToRead`, `PassOverDay`, `TakeTurn`, `Introduce`, `StoreFile`, `NameInstruments` |
| a run killed or ended by an exception | `Interrupt` |

### CorporateActions (with `IngestionProofs`)

Announcements read a range of ex-dates at a time. A text is what its venue's expressions find in it
under a release of the parser (`Wordings`), so a later release may read what an earlier could not.
Between runs the venue announces and withdraws, a release learns, identity derives more, an
instrument stops trading; during a run an answer may be cut short or go past its range.

| Code | Actions and operators |
|---|---|
| `sources/bse/corporate_actions.py`, `sources/nse/corporate_actions.py` | `AskSegment`, `Served`, `ParsePurpose`, `ParseSubject`, `ActionsOfScrips`, `ActionsOfSubjects` |
| `ScripResolver`, `IsinResolver`, `isins_now` | `ResolveScrip`, `ResolveIsin`, `FollowedBy`, `Following`, `Onward`, `IsinNow` |
| `held_actions`, `unanswered`, `replaced_texts`, `fresh_versions`, `persist_actions` | `HeldActions`, `Unanswered`, `ReplacedTexts`, `FreshVersions`, `Withdrawals`, `ActionsWith` |
| the loop of `assets/ingestion/corporate_actions.py` | `StartRanges`, `ReadRange`, `GiveUpRange`, `StopRanges` |

### Deliveries (with `IngestionProofs`)

Delivery figures of one venue: the registered file, NSE's other file in its place, the corrected
files by the date each was noticed, and `delivery_daily`. A row names an instrument by the venue's
identifier, so a figure depends on what identity has derived when it is read and on the bar it is
stored beside.

| Code | Actions and operators |
|---|---|
| the recheck, `sources/{bse,nse}/delivery.py` | `RecheckDelivery`, `FetchDelivery`, `OutcomeFor` |
| `sources/delivery.py`, the resolver | `OwnersOf`, `Resolved`, `FiguresOf` |
| `corrected_delivery`, `persist_delivery` | `Changed`, `Written`, `WithCorrections` |
| the venue (outside), on any date, also twice on one | `PostDelivery` |
| the loop of `assets/ingestion/delivery.py` | `StartDelivery`, `CommitDelivery`, `KillDelivery` |

### SecurityLists (with `IngestionProofs`)

Names and face values from a venue's lists, a part (a status or a board) at a time, while the venue
moves securities between them. `ReadPart` and `WriteLists` are a run of
`assets/ingestion/instrument_names.py`; `Precedes`, `Chosen`, `NamesByIsin` and `FaceValuesByIsin` are
`sources/bse/scrip_list.py` and `sources/nse/equity_list.py`; `PersistNames` and
`PersistFaceValues` are what it stores.

### SourceClient (with `IngestionProofs`)

One call of an adapter after another: the attempts and the throttle of `sources/client.py`
(`Attempt`, `GivenUp`, `Tick`) and, for a venue that wants one, the cookie collected and renewed
(`StartCall`, `Fails`). The venue may fail any request for the moment, let a cookie expire at any time
and release the file meanwhile. Under an expired cookie it refuses, or drops the request unanswered,
which is repeated like a failure of the moment (`Repeatable`).

### Flows (with `IngestionProofs`)

The days a flow reads and what its launcher exits with: `Launch` and `RunScheduled` with
`refuse_unless_ready` (`flows.py`, `jobs.py`, `schedules.py`), a window read day by day
(`ReadFlowDay`, `FailStep`), the checks and the report (`EndWindow`), the next window or the exit
(`NextWindow`, `Exit`), a kill (`KillFlow`), midnight anywhere. Between two windows Dagster has no run
of the flow, so another may begin and go on beside the second (`BeginBeside`, `ReadBeside`,
`EndBeside`). One source stands for them all.

### Features (with `DerivationProofs`)

One instrument's daily feature rows: the venue designated day by day (`engine/src/venues.cpp`:
`TurnMonth`, `Update`, `Designate`), what a row's figures read and when it was known
(`feature_inputs.py`, `feature_derivation.py`, `venue_comparison.py`: `FiguresRead`, `Gap`, `Known`,
`Rows`, `RefusedDay`, `StoreRows`). Between computations bars and delivery figures are read and
corrected, actions become known and days are judged again (`ReadBar`, `CorrectBar`, `ReadDelivery`,
`CorrectDelivery`, `KnowAction`, `JudgeDay`); a succession puts another ISIN's bar in a day's place or
takes one away (`Relink`, of `int_continuous_prices.sql`), and a factor is dropped or applied otherwise
for bars, reviews and reports around it (`Rejudge`, of `int_capital_action_factors.sql`). `undated` is
a history variable: the days changed since a computation by what carries no date of then. A figure is
the set of closes and delivered shares it reads, each in its day's scale, which stands for every
engine column; an action doubles the shares.

### SignIn (with `PartsProofs`)

Attempts at one account at once: each reads the account in a transaction of its own
(`ReadCandidate`), checks the password off the event loop, and writes in a second transaction what
follows from the first reading (`RecordFailure`, `OpenSession`, `RefuseAccount`). A reset clears the
failures and the pause meanwhile (`ResetFailures`). `PauseAfter`,
`Until` and `Counted` are `pause_after` and `record_failed_sign_in`.

### Sessions (with `PartsProofs`)

One session and the requests its cookie makes at once: `ReadSession`, then `ReadStanding`, which reads
the limits and judges by them, then `Serve` or `Refuse`, or `SignOut`, which write by the readings
before. `Ending` is `ending`, `Seen` is the
activity recorded once an `ACTIVITY_INTERVAL`; an admin ends sessions or changes limits meanwhile
(`EndElsewhere`, `ChangeLimits`).

### SavedViews (with `PartsProofs`)

A view's statement takes its row (`FindRow`), waits for whoever changes a view of the name it gives
(`Rivals`, `Waits`), and commits, is refused or is failed by Postgres (`Commit`, `RefuseName`,
`BreakDeadlock`). An address is the parts it names; `Screen`, `MayBeKept` and `KeptQuery` are
`screen_from` and `kept_query`.

### MarketReads (with `MCServing`, `ServingProofs`)

The statements of every read that goes through `read_marts`, each with the marts it needs
(`MarketSummary`, `RunScreen`, `KeyFigures`, ...). dbt is external: it drops marts no transaction has
read and builds them again, or never does (`DropMarts`, `BuildMart`), and counts each mart's builds;
it may build one mart between two statements on others. A read keeps the builds its answer has seen
(`Found`). `FindMissing` and `RunOnceMore` are the wait and the one retry. Its types are proved, not
checked by a run.

## Runs

States are distinct states; times are of two workers.

| Run | Configuration | Result | Shows |
|---|---|---|---|
| `accounts` | 2 people, 2 requests, limits {1, 2} | passes, about a minute | `AccountChangesRecorded`, `FirstAdminIsFirst`, `SessionsEndWithTheChange`, `LastAdminFallsToTwo`, `TypeOK` over every pair of requests interleaved statement by statement, from every installation; 423,000 states |
| `last_admin` | same | violates `AnEnabledAdminRemains` | two requests that each remove the other's admin both pass the guard |
| `limit_updates` | same | violates `LimitChangesRecorded` | a limit left out is written back as it was read |
| `reset_race` | same | violates `ResetPasswordStands` | a rehash overwrites a reset committed meanwhile |
| `publication` | a bootstrap's two windows and a scheduled sync, 2 readers, 2 attempts; 1 visitor, 3 marts, each built again once | passes, 94,000 states, two minutes | `Implements`, `NoReaderWaitsForAWrite`, `FiguresNotOlderThanRelease`, `PublishesOwnAlone`, `NobodyWaitsForGood`, `TypeOK` with runs that meet or not and steps failing and killed anywhere; `ReadsOneBuild` while marts are dropped and built |
| `publication_overlap` | same, 1 reader | violates `PublishesOwn` | one run publishes what the other has written over the table it checked |
| `parallel_for` | 2 helpers and the caller, 7 indices, chunks of up to 2 | passes | `CalledOnce`, `OutcomeIsTrue`, `Terminates`, `TypeOK` |
| `trading_days` | 2 venues, 1 instrument, 2 values, 1 trading day, 3 dates, 3 publications, 3 runs | passes, 734,000 states | `NothingHidden`, `KnownAsOf`, `StoredDaysJudged`, `VenuesAgree`, `TypeOK` |
| `correction_lost` | 1 venue, 2 trading days, 3 dates | violates `ChangesCovered` | a correction noticed on the date of the bar standing is dropped |
| `stale_verdict` | 2 venues, 1 trading day, 2 dates | violates `JudgedAsCorrected` | a correction noticed on the date of the verdict standing is not judged |
| `parts` | the eleven parts of `MCParts`, one to a behaviour | passes, 1,263,000 states, two to three minutes | each part's properties, below, and `PartsTypeOK` |
| `identity_order` | NSE, 3 days, an ISIN listed under a ticker another left | violates `SuccessionsFollowBars` | a succession stored while a day was missing is never removed |

What `parts` shows of each part:

| Part | Property | Says |
|---|---|---|
| Identity | `IdentityPassesItsChecks`, `ReachingBackLosesNothing`, `SuccessionsLeadOn` | days in any order and corrected, a derived identity holds every bar, overlaps nowhere and links what it superseded; only a corrected day can make `retire_listings` refuse; a succession leads from an ISIN that trades no more to one that began to trade that day |
| Bhavcopies | `BothVenuesWriteSafely` | neither venue's run blocks the other for good; an instrument is named by its latest stored day once a run that read that day has come to its end, whichever run ended last |
| CorporateActions | `AnswerStands`, `WithdrawnTextsReplaced`, `EveryVersionIsNews` | a range taken stands as answered, held with the terms answered and no more; a commit withdraws a text only for another action of its day; a version is stored only where not all that stood of its action, under any ISIN, said the same |
| Deliveries | `FiguresKnownAsOf`, `OneOwnerOfAFigure` | what was known of a day on each date can be read as of it, after lost and repeated runs; a figure counts for one instrument |
| SecurityLists | `NamesHealByAWholeReading` | whatever was read torn before, a whole reading leaves the names the venue gives |
| CorporateActions, SecurityLists | `TablesOfFacts` | the tables of actions, names and face values implement `Facts` |
| SourceClient | `ExpiryCostsNoDay` | an expired cookie by itself never costs a day |
| Flows | `CleanExitReadEverything` | exit 0 only if every day promised, and released at the start, was read |
| Features | `ChangedRowsAreDated`, `PrimaryVenueAsDefined` | a row that changed says so by its date, unless what changed it has no date of then; the venue held day by day is the documented one |
| SignIn | `GuessingIsSlowed` | guesses at once still lead to a pause, and every pause ends |
| Sessions | `LimitsHoldAsUsed` | no request is served past a limit, none idled out while in use |
| SavedViews | `ViewsKeepTheirScreens` | one kept view a name, and each opens the screen it was saved from |

Most of these promise less than they might, because the code does:

- `IdentityPassesItsChecks` is of an instrument with one scrip code to a ticker (`OneCodeATicker`): a
  correction that gives another code leaves the stretch under the code of before.
- `SuccessionsLeadOn` is of an instrument the venue knows by one scrip code (any, at NSE): with two, a
  stretch under one code may be taken over while the other trades on.
- `BothVenuesWriteSafely` says nothing of a name whose latest day only runs read that were ended before
  they named, a day of scrip codes read, or a corrected file alone brought: `read_names` has no such
  day, and the name stays until a later run reads one.
- `AnswerStands` is of a range every ISIN of whose answer is its own ISIN of now, which links both ways
  can deny. An action whose key a run of the same date wrote keeps that version until the next date.
  And an action answered may stand with its terms under its own ISIN while the row `held_actions` holds
  is an older one, under a greater ISIN: that is the case the next point is about.
- `EveryVersionIsNews` allows a version that repeats the last one stored where a row under another of
  the action's ISINs still stands with other terms. `held_actions` keeps, of two rows that are one
  action now, the one under the greater ISIN; where that is the predecessor's, an action stored again
  under the successor is compared with the older terms for good. That goes against "an action stored
  with the same terms is not new information" (`assets/ingestion/corporate_actions.py:309-311`). Two
  rows stored with the same terms before identity links their ISINs are no breach: they were of two
  actions when they were stored.
- `WithdrawnTextsReplaced` allows the other action to be one an earlier run of the same date withdrew:
  its key has a version of that date, and the next date's run stores it.
- `FiguresKnownAsOf` leaves out days first read from NSE's other file: a correction already in the
  registered file when that is first held is noticed by nothing. It leaves out an instrument listed
  under two identifiers, of which the file's first line is stored. And it leaves out a figure whose
  key has an earlier publication's (`Forestalled`): a second correction noticed on one date, or one
  noticed on the trade date, is held in the cache and dropped by the table, for good unless the venue
  corrects again. `correction_lost` shows that of bars, by the same insert.
- `ChangedRowsAreDated` leaves a row its older date where something on its day or before changed that
  carries no date of then: a bar, a delivery figure or a verdict *first read* since the last
  computation (they carry the day they describe), a bar a succession drew in or took away, a factor
  judged otherwise. What is corrected, stated or restated dates every row it changes.
- `NamesHealByAWholeReading` leaves out an instrument whose version of the same date a torn reading
  had stored before: it stands until the next date's reading.

### Bounds and why they are enough

**Accounts.** Every rule relates one request to at most one other: the lost updates, the trigger
that reads committed rows and the two setups all need two transactions. Two people are the least
with an admin to act and another to be acted on, and both admins at once. Two values of a limit
tell a change from none. `OneFieldPatches` asks for one field at a time and for one change of both
fields, which runs the two records and two updates in one transaction. People and requests are
interchangeable: no definition singles one out. Requests are one-shot, so each behaviour is bounded
without cutting any; `Init` starts from every settled installation, and so stands for whatever went
before.

**FeaturePublication.** The first window's run, the second's and one that may begin before, between or
beside them: two runs that overlap from either cause, and one alone before or after. There are two
tables, so a further run meets nothing these do not; two readers are the least that can hold the view
in turn without a gap. Two attempts have one that is retried and one that is last. A run computes
once, so the state space is finite without a cut.

**ParallelFor.** Seven indices in chunks of two give four chunks, more than there are threads, and a
last one cut short. `pool` is any subset of the helpers, so one run covers one, two and three
threads, and the path without a pool.

**TradingDays.** Two values are enough to differ. Three publications give a file, its correction and
either a second correction or the other venue's file; three runs over three dates give the
evening's first read, a recheck on the same date, one on the next, and the one after a kill.
`RecheckedDays` is the code's 2; with one trading day every day held is in the window, and
`correction_lost` has two. Several trading days multiply the states without a new meeting of two
steps, since days meet only in the window, whose edge the one-venue run crosses. `Publications`,
`Syncs` and `LastDay` are guards of `Publish`, `StartRun` and `NextDay`.

**The parts.** Each bound is the least at which the case a property is about occurs, found by the
defect the property has to catch. *Identity*: four days with two ISINs and two names of each venue
(one of BSE's a code in a ticker's place) hold a renaming, a stretch folded into the next, a
supersession and a gap; `SETTLED_AFTER` and `SUCCESSION_WINDOW` are 1 so that days fall on both
sides of them. *Bhavcopies*: two days, one of them of scrip codes alone, each opening a chunk, two
runs of BSE and one of NSE, a corrected file. *CorporateActions*: two collection dates, two changes
between runs, one range and an action outside it, a text either release reads differently, one
succession. *Deliveries*: one day read on three dates with two corrections, the second back to the
first content, and identity before and after it split an identifier. *SecurityLists*: two parts,
three moments, three dates. *SourceClient*: two attempts and three calls. *Flows*: `RECENT` 1 of
three days, two flows. *Features*: months and windows of one day, three facts, two computations, so
that every two facts and a computation meet in each order; one bar that another ISIN may bring.
*SignIn*: two guesses at once, one free failure, pauses of 1 and 2 in three minutes. *Sessions*: two
requests, idle limits of 2 and 3 over an activity interval of 2, maxima of 4 and 5 in six minutes,
one intervention. *SavedViews*: one person, two views, three names of two words, two requests. The
constants that cut behaviours short are marked "bound" where they are declared.

**MarketReads.** One visitor, since a read looks at nothing another read leaves; three marts, one read
by the first statements, one by most and one alone, each dropped and built again once.

The states of `parts`, each part alone: identity 42,000, Bhavcopies 49,000, CorporateActions 53,000,
Deliveries 15,000, SecurityLists 11,000, SourceClient 500, Flows 109,000, Features 571,000, SignIn
154,000, Sessions 53,000, SavedViews 206,000.

Deadlock is checked in the other runs; a module that may stop says where with a step of its own
(`AllDone`, `Ended`, `Over`). `parts` and `identity_order` do not check it: their behaviours end where
a bound is reached. Nor do `publication` and `publication_overlap`, for the system really may stop: a
run that met another can wait to empty the table a reader keeps, and the readers behind it.

## Fairness

`FeaturePublication`: a process goes on with its step while it lives (`WF` on each run's `RunStep`)
and a statement waiting for a lock is given it once it is free (`WF` on each `OpenView` and
`ReadFigures`). Nothing is assumed of when a run is started, a step is killed, a reader arrives or a
reader ends its transaction: a run that meets no other ends and every reader is answered
(`EveryoneGoesOn`, in `NobodyWaitsForGood`) with readers that keep the view for good, because an
attempt gives up after `LOCK_TIMEOUT` and the run after `PUBLISH_ATTEMPTS`. A truncate has no lock
timeout: where runs met, one can wait for good to empty the table the view reads by then, and the
readers behind it; the property says so and leaves them out.

`ParallelFor`: each thread goes on while it can (`WF` on each `Drain`, on starting the pool and on
returning), `work` returning or raising in the end; the operating system schedules every thread, and
a thread the pool cannot have raises in the caller.

`MarketReads`: the event loop gets round to every read under way (`WF` on each `ReadStep`). Nothing is
assumed of dbt, which may leave a mart absent for good: a second try that finds it so answers that the
figures are being updated.

`Accounts`, `TradingDays` and the parts of `MCParts` state no liveness: a request may be cut off and
a process killed at any step, and the repository promises no next run.

## What is proved

Every theorem rests on its component's assumption about its constants, which TLC evaluates in every
run (files and lines are finite in number, dates are natural numbers, a part lists a code once); a
theorem that needs more says so as a hypothesis of its own, and `MCParts` assumes those hypotheses
(`SmallListings`), so that TLC finds them true of the instances it checks. Of the passing runs'
safety properties all are theorems, for every value of the constants. Beside a type invariant each
component has an inductive invariant: a conjunction of named parts, each of which is what the next
needs.

### AccountsProofs

`TypeCorrect`: `Spec => []TypeOK`, for any number of people, requests and limits. `TypeOK` is
inductive as it stands, because it carries `JobInOrder`: a request at a statement is one that has that
statement and what it needs in hand.

`LastAdminFalls`, `ChangesAreRecorded`, `FirstAdminAlone` and `SessionsEndWithIt` are the four
properties of the run `accounts`. What a commit does follows from what its transaction has in hand,
so the invariant says it of every request under way (`UnderWay`): it has written nothing before its
statement (`Bare`); it writes the row of its subject alone (`Writes`); the record of a change is
there before the change (`Records`), and each difference between the row written and the row
committed is one recorded (`Changes`); the sessions seen running at the change are among those the
commit ends or are over (`EndsSessions`); a setup has `app_user` to itself (`SetsUpAlone`).
`Settling` says what is committed. `RecordAction`, `UpdateUser`, `Commit` and `Rollback` each have a
lemma; every action is one of these with its own label. A step of one request leaves the others'
parts alone (`Untouched`), and what it commits can disturb only `Changes` of another, where that
other's row lock excludes it: the interleaving is in that one lemma. The last admin is the
exception, as it must be: no lock covers another person's row, and what is inductive is that the row
the guard saw fell to another request. `Removals` holds the subjects' removals on record: one request
can file two of them, of one subject, which count once.

### ServingProofs

`FeaturePublication`: every theorem is for any runs, readers and attempts, and for runs that meet as
much as for those alone. The inductive invariant adds to `TypeOK`: `LoneAlone` (a run that met no other
is alone under way), `OffView` (the table such a run resolved and has not published is not the view's),
`HoldsOwn` (from its write to its publication that table holds the run's own computation, sound once
checked and as counted; that of a run that met another, one of theirs), `ReadersHoldView` (a reader
holds only the table the view reads) and `PublishesOwnAlone`. Neither `NoReaderWaitsForAWrite` nor
`PublishesOwnAlone` is inductive alone: that the table counted is the one written follows only from
nobody else having been under way since. `ImplementsPublished` has the initial state map to the
initial state and every step to `Publish` (for `Repoint` of a run alone), `Meet` (for a start),
`Disturb` (for a write or `Repoint` of a run that met another) or a stutter. `FiguresAreNotOlder` adds
`ShownIsNewest`: the newest release is of what the view shows, or runs that met left it otherwise.

`MarketReads`: `ReadsTypeCorrect`, and `ReadsAreOfOneBuild`: of no mart has an answer seen two builds.
The invariant is the type with the shape of a read, `Tries` (a read waits at its first try alone) and
`ReadsOneBuild`; within a try a mart read is not dropped, and the second keeps nothing of the first
because it begins at its first statement. Two marts of one answer may be of different rebuilds: dbt
builds them one by one, and nothing in the repository says otherwise.

`ServingRunsBoth`: a behaviour of `MCServing` is one of each, with its fairness.

### ParallelForProofs

`TypeCorrect`, `CallsEachOnce` and `TellsTheTruth`, for any count, any number of threads and any
chunk. The invariant adds: `OwnModes` (who may be where), `Disjoint` (no two threads' remaining
chunks meet), `Ahead` (nothing at or past `next` has been called, nor what is left of a chunk),
`Behind` (while no call has raised, what is before `next` has been called or lies in a chunk under
way), `Kept` (the exception kept was raised, and a raise is kept or on its way to be) and
`LeavesRightly` (a thread leaves because the counter is past the count or a call raised).

### TradingDaysProofs

All of this is for any venues, days, corrections and runs, wherever a process is killed.

`NothingIsHidden`: the invariant `IInv` has the types of what the cache and the processes hold,
`CopyInOrder` (validators and copies are of something published, and the validators identify the
content of the latest copy or a publication before it) and `ProcessInOrder` (a process between a copy
and its validators was answered with the content it now holds, and a process notices changes no
earlier than any version held). Dates only grow, so a version held on a date is the latest: that is
what makes the copy just written the one read back.

`DaysTypeCorrect`, `WhatStoodIsKnown`, `EveryStoredDayIsJudged` and `VenuesAreAtOne` are of the bars
and the verdicts. What a day is stored with is a recursion over the dates (`BarsOf`), one step a copy.
A recursion cannot be unfolded by the prover, so what holds of its result is carried along it: were
there a step where it failed, there would be a least one, and one application of `Appended` (lemma
`CopyAppended`) shows that step does not. What is carried is that a bar is dated by the copy it came
from (`BarsInOrder`), that the first copy's bars stand, and that a later copy's either stand or found
their key taken. `JInv` adds that a process is at a day of its run (`RunInOrder`), that a day past
`stored` is stored whole, and that a verdict is drawn on the bars as they stood when it was
(`VerdictsInOrder`); both properties of the verdicts then follow from what `Judge` takes to await one.

`VerdictsStayKnown`: a verdict known on a date that is over is known so for good. A run that judges
stores a first verdict for the day itself, when nothing was known of it, and every later one for
today.

### PartsProofs

`SavedViews`: `ViewsTypeCorrect` and `ViewsAreKept`, for any people, names, addresses and requests.
The invariant adds `OneWriter` (no two statements write one row), `WritersHaveTheirRow` (the row a
statement found to be its person's still is), `AskedIsRead` and `KeptRowsAreWhole`. Without
`OneWriter` a rename could commit over a row another request had just removed. That a kept query
opens its screen is a lemma over every address.

`Sessions`: `SessionsTypeCorrect` and `LimitsHold`, for any requests at once, any limits and any
interventions. The invariant adds `ActivityIsUse` (the recorded activity lags the session's use by at
most `Slack`, the greater of the activity interval less one and the longest request), `CallsAreRecent`
and `ReadsAreOfUse`. Activity is written by the reading a request began with and so can go back, but
by no more than a request takes; a constant bound on that is why the third conjunct of
`ReadsAreOfUse` is needed.

`SignIn`: `SignInTypeCorrect` and `WrongPasswordsAreSlowed`, for any attempts at once and any pauses.
An unpaused account has counted the failures of attempts that read fewer than the free ones, and no
attempt counts twice, so `FreeCountsRunOut` bounds the count and the attempts that may still add to it
together. `AttemptsPrecedeThePause`: an attempt that may still pause the account began before the
pause under way. A pause doubles with each failure up to a longest one: that a power of two is a
natural number is taken from the cardinality of a power set (`PowersOfTwo`).

The harness `MCParts`: `PartsRunAsAlone`, whatever the constants, a behaviour of the harness is one of
each of the eleven parts, so that what is proved of a part alone holds in the run; `PartsTypeCorrect`
puts the eleven type theorems together, and `TablesKeepTheirFacts` the refinements of `Facts`.

### IngestionProofs

`SourceClient`: `SourceTypeCorrect` and `ExpiryAloneCostsNoDay`, for any number of attempts, interval
and calls. The invariant adds `RenewedIsFresh` (a file asked for under a renewed cookie is asked for
under one the venue honours, unless it expired since), `RunningHasNoResult`, `NothingIsIdle` and
`ExpiresAgainOnceRenewed`. The property alone is not inductive: that a second refusal needs a second
expiry follows only from the cookie having been fresh.

`Flows`: `FlowsTypeCorrect` and `CleanExitsReadEverything`, for any dates and widths of the windows.
`KeepsItsPromise` is the invariant: the windows ask for all a flow promised on the date it started,
and while it is clean each such day that was released by then is read, left in this window, or in a
window to come (`ToCome`). Midnight only adds days to a window, and a flow beside it only days read.

`Bhavcopies`: `FilesTypeCorrect` and `FilesWriteSafely`, for any files and any finite number of days.
Runs end anywhere and corrected files bring bars of their own. That only one run holds the turn is not
enough: the name that stands once a run has named is that of the latest stored day because of
`NamedByLatest` (of the bars of an instrument that outrank all others, one a finished run read is the
one it is named by) with `NamedAreStored`, `NamesOfBars` and `NamesBeforeBars`.

`SecurityLists`: `ListsTypeCorrect` and `WholeReadingsHealNames`, for any lists, however they move.
`OneAVersion`: an instrument has at most one version of a date, so the latest of them is one. That a
face value stored is positive needs that one row of an instrument precedes all others (`ChosenIsOwn`:
the least part, of its rows those under a code held, of these the least code), which is where a part
must list a code once.

`Deliveries`: `DeliveriesTypeCorrect`, and `FiguresHaveOneOwner` where every identifier is that of one
instrument among those with a bar on the day (`OneOwnerEach`); `FiguresAreKnownAsOf` without a
hypothesis. `OneOwnerEach` is of what the venue lists on a day and restricts nothing of how listings
are derived, which differ from reading to reading: without it a file states one quantity of two
instruments. `FInv` says every figure stored is as a copy held
states it (`RowKnown`) and that the copies are in the order of their dates (`CopiesInOrder`); `Kept`
says that what stands of a figure up to the date it was stored on is what the file known on that date
states. The corrections stored after a killed run are another recursion over dates, carried the way
`BarsOf` is (`StepRight`).

`CorporateActions`: `ActionsTypeCorrect`, `AnswersStand`, `StoredVersionsAreNews` and
`WithdrawnTextsAreReplaced`, whatever the successions are. With a cycle the ISIN a walk ends at depends
on where it began, so one action has two current ISINs; nothing in the repository rules a cycle out,
and nothing says what should become of one. The properties therefore speak of actions whose ISIN is
its own of now, and two lemmas say when all are: the ISIN of now is where a walk of as many steps as
there are ISINs ends (`WalkIs`, by `RecursionExists`), and where the links form no cycle (`NoCycles`:
each ISIN has a place before those that follow it) each step goes to a later place, so nothing follows
the last (`IsinNowStays`, `ReadUnderNow`). Of the versions under one ISIN of now that of the greatest
ISIN is the one held, and what a commit adds dates from today, no earlier than anything stored
(`ActionsIInv`). So whatever the commit stored or withdrew is what stands of it (`StandsAfter`), a text
replaced or an action answered for no more falls (`ReplacedFalls`, `FallsForOne`), and what was left
unwritten stood already. Of what stands of an action one version is held (`OneIsHeld`), so an action
all of whose rows say what the answer says is not stored again.

`Facts`: `FactsStayKnown`, of the abstract table, from one version to a key and date (`Sealed`) and
dates no later than today. `ActionsAreFacts` and `NamesAreFacts` are the refinements, step by step: a
commit of a range or of a reading is `AppendFacts`, the date's turn is `NextDate`, every other step
stutters. What a commit adds must be one version to a key, which for the names is `GivenOnce`, and for
the actions `WrittenOnce`: an answer states an action once, and of an action at once stored again and
withdrawn, as links both ways allow, the insert keeps one. `ActionsStayKnown`: that the past stays as
it was only takes that a commit dates what it adds today. `NamesStayKnown` is the same of names and
face values.

### DerivationProofs

`Identity`: `IdentityTypeCorrect`; `ReachingBackNeverRefuses`, days in any order never make
`retire_listings` refuse; `ReachingBackPasses`, and an identity derived from them passes the blocking
checks, both for any lines the venue gives. After corrections, `DerivedIdentityPasses` and
`ListingsFollowBars` (the listings stored are a function of the bars, whatever the order) are proved
where an instrument has one scrip code under a ticker (`OneCodeATicker`). The hypothesis is needed:
`Upserted` keeps the scrip code of the row it finds, so a correction that gives a stretch another code
leaves the row under the code of before, and TLC finds the checks failing. The invariant is
`FollowBars` (once derived, the rows are those the bars derive) with `BarsHeld`, `StillHaveTheirBar`
(before a correction, each row still has the bar it began with) and `NamedAsLines`.

The successions of `Identity`, which `isins_now` follows to their end: `SuccessionsLeadOnward` (each
leads from an ISIN that trades no more to one that began to trade that day) and
`DerivedLinksNeverCycle` (so those of one derivation form no cycle) where the venue knows an
instrument by one scrip code (`OneCodeAnIsin`; NSE knows it by none), and `StoredLinksNeverCycle`
(nor do those stored, which no derivation retires) where of two ISINs of one identifier the files name
one only after the other has gone (`OneAfterAnother`). Only the last stretch of a line is taken over
(`TakenIsLast`), so with one line to an instrument its last day of trading orders it before the one
that follows. A link stored may be of days read before others arrived; it still leads from a line
filed before the day it changed to one filed on it (`LinksFiled`), which the files order. Both
hypotheses are needed, and TLC shows each cycle: with two codes to an instrument, two ISINs that swap
two codes follow each other in one derivation; with tickers that change hands between ISINs that trade
side by side, a link derived while days were missing stands beside one the other way round. `NoCycles`,
which `IsinNowStays` and `ReadUnderNow` assume of the links they are given, is what
`StoredLinksNeverCycle` concludes of those one venue's identity stores.

`Features`: `FeaturesTypeCorrect`; `PrimaryVenueIsDocumented`: the venue `PrimaryVenueState` holds
day by day is the documented one, for any months, windows and bars. `PassInOrder` says of a pass under
way that its state is that of the month it stands in and that what it has come by is held rightly; its
turnover is a sum by recursion, and two sums are equal where they are of the same days.
`RowsAreDatedByTheirChange`: a row computed again with other contents is dated by what was learned
since the computation before, or something changed on its day or earlier that has no date of then. It
rests on `RowsStand`: where nothing a day's row reads was learned or changed since the computation, the
row is the one the computation would write now; that in turn on lemmas that a figure reads only closes,
deliveries, splits and verdicts up to its day
(`DocumentedReadsBack`, `FiguresReadBack`, `LaterActionsMoveAll`, `RowReadsBack`).

### NaturalFacts

What several of these need of numbers: that a set of them has a least, and a finite one a greatest;
that the image of a finite set is finite; `RecursionExists`, that the values a recursion from one step
to the next takes exist up to any number; and `CarriedAlong`, that what holds at the start of one and
is kept by a step of it holds all along. The library has the last two as induction theorems over an
operator, which the installed provers cannot instantiate; here they are by the least number the
recursion does not reach, or fails at.

### Only model-checked

- Liveness (`NobodyWaitsForGood`, `Terminates`), which needs fairness and ENABLED.
- The properties the runs of the next section violate, which are false.

### Proved, but in no run

`DerivedLinksEnd`, `StoredLinksEnd`, `PastIsFixed` and `OneVersionEach` of each table of facts, and
`VerdictsKnownAsOf` are theorems that no configuration lists. TLC found each to hold before it was
proved, on the bounds of the component's run (`MCParts`, `MCTradingDays`),
under a definition that names it.

## Where code and text disagree

Each is a run that ends in a counterexample, against a sentence of the repository; `PROJECT.json`
quotes them with their lines.

1. **The last admin** (`last_admin`). Migration 0019 says the API's role never leaves the
   installation without an enabled admin. The trigger looks for another enabled admin among committed
   rows and locks none, so two requests that each disable, or demote, the other's admin both commit.
   One request alone never does it (`LastAdminFallsToTwo`, which counts requests, not records: one
   patch may file a demotion and a disabling).
2. **Session limits** (`limit_updates`). A change of one limit writes both, the other as it was read.
   A change committed in between is put back and no record names it.
3. **A reset under a rehash** (`reset_race`). A sign-in with an outdated hash writes the hash of the
   password it checked before its transaction began. Over a reset committed meanwhile it puts the old
   password back with a change still due, and the temporary one opens nothing.
4. **Two flows at once** (`publication_overlap`). Command lines look for a run before their own is
   recorded, so two of them, or one and the queue, can start together; and a bootstrap looks once for
   both its windows, so a sync released between them overlaps the second. A run then publishes rows
   another wrote, against "a run publishes only the computation it wrote itself"
   (`assets/features/publication.py:4`). In the same overlap a run may empty the table the view has
   been pointed at, and readers wait for it, against "no reader waits for a write"
   (`feature_publication.py:5`): the properties of `publication` except the runs that met.
5. **A correction lost** (`correction_lost`). Bars are keyed by the date a change is noticed on and
   inserted `on conflict do nothing`. A second change on one date finds its key taken; the copy held
   is the new one, so no later run sees a change to store.
6. **A verdict gone stale** (`stale_verdict`). A day awaits a verdict when a bar is newer than the
   verdict standing. A correction noticed on that verdict's date is not, and the day is not judged
   again.
7. **Identity and the order of days** (`identity_order`). The asset says the derivation is indifferent
   to the order a backfill filled the days in. Successions are inserted and updated, never removed:
   one derived while a day was missing outlives the day that disproves it. Listings are retired, and
   `IdentityPassesItsChecks` holds of them in any order.

## Not modelled

- **Adjustment factors** (`adjustment.py`): what kind of action a text is, and the terms it reads, are
  `CorporateActions`; the factors derived from them are arithmetic over one action at a time.
- **Figures**: floating-point indicators, covered by the engine's golden and property tests; and what
  dbt's models and the screener's query select, the counts that name the strictest criterion among
  them.
- **Conversions without state**: columns, dates and numbers of the parsers, the array bindings.
- **The web application**, which holds no state of its own beyond the cookie.
- **Watchlists**: migration 0026 has the tables, and no code uses them yet.
- **Migrating**, and a database behind its migrations, which every program refuses (`Ready`).
- **The fixture builder** and other scripts, which are run by hand.
- **Inside a write of the cache**: a process killed while it writes a file, which is the file system's.
- **Clocks across components**: `SignIn` and `Sessions` have their own minutes, `Accounts` takes every
  outcome a clock could give.
- **An answer cut by more than one action, and a code listed for two instruments at once**: in
  `CorporateActions` one row is missing from an answer at most, and of two listings of a code that
  overlap the later is taken, where the code takes either.
- **A record without its change**: where an actor is demoted between record and update, the policy hides
  the row and the update reaches none. `AccountChangesRecorded` is of changes without a record only.
- **Calendars**: the days a venue trades are given; a run asleep for longer than a sync's window
  (`jobs.py`) reads nothing of the days before it, which no flow promises to.
- **A day's length against its neighbours'**, which takes `MINIMUM_NEIGHBOURS` (ten) days.
- **A screen's explanation**: `rest_statement` is a statement of the same transaction, so it sees the
  same marts, but under READ COMMITTED it may see features published after the first statement's;
  `MarketReads` tells builds of a mart apart, not publications.

## Plan

Built: every module above, in the order of their sections, each aimed at the hazards `PROJECT.json`
lists; each with its types and its safety properties proved, but for what "Only model-checked" names.

What would come next, most important first:

1. **Composition of `Identity` with `Bhavcopies` and `CorporateActions`**, over the successions and
   listings they share, which are constants of the latter today: `StoredLinksNeverCycle` is of one
   venue, and `NoCycles` of both venues' links together.
2. **Sessions as a refinement of `Accounts`**, giving its choices about time their clock.
3. **`adjustment.factor_schedule`** and the rolling extremes of the engine, as functions against their
   definitions over bounded inputs.
