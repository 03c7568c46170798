--------------------------------- MODULE Flows ---------------------------------
(***************************************************************************)
(* Which days a flow reads and what it reports: the windows of a bootstrap, *)
(* a sync and a scheduled sync (flows.py, jobs.py, schedules.py), and what  *)
(* the launcher exits with.  One source stands for them all; a day is read, *)
(* unpublished or failed, a step can fail on any day, and the process can   *)
(* be killed.  Between its two windows a bootstrap has no run that Dagster  *)
(* knows of, and another flow may begin and read beside it.  What a run     *)
(* publishes is FeaturePublication's subject.                              *)
(***************************************************************************)
EXTENDS Integers, Sequences, FiniteSets

CONSTANTS FirstToday,       \* the date a behaviour begins on
          LastToday,        \* a bound: the date it ends on
          RecentDays,       \* RECENT
          SyncDays,         \* SYNC_DAYS
          MaxFlows          \* a bound: the flows in a behaviour

ASSUME FlowsAssumption ==
  /\ {FirstToday, LastToday, RecentDays, SyncDays, MaxFlows} \subseteq Nat
  /\ 0 < SyncDays /\ RecentDays < FirstToday /\ FirstToday <= LastToday

Calendar  == 1 .. LastToday     \* INGESTION_DAYS, up to the last date
Kinds     == {"bootstrap", "sync", "range", "scheduled"}
NoWindows == <<>>

\* The runs Dagster may record as not finished: that of the flow followed, that of
\* a flow begun beside it, and one whose process was killed.
Recorded  == {"flow", "beside", "killed"}

VARIABLES today,
          releasedDays,    \* days whose file the venue has released
          readDays,        \* days with a succeeded attempt
          migrated,        \* whether the database is at the latest migration
          unfinished,      \* the runs Dagster records as not finished
          dbtSession,      \* whether a dbt session of a killed run still builds
          flow,            \* the flow in progress
          lastExit,        \* how the launcher's last flow ended
          flowsLeft

flowVars == <<today, releasedDays, readDays, migrated, unfinished, dbtSession,
              flow, lastExit, flowsLeft>>

NoFlow == [kind |-> "none", windows |-> NoWindows, rest |-> {}, clean |-> TRUE,
           on |-> 0, asked |-> {}, had |-> {}]

FlowsTypeOK ==
  /\ today \in Calendar /\ readDays \subseteq releasedDays /\ releasedDays \subseteq 1 .. today
  /\ {migrated, dbtSession} \subseteq BOOLEAN /\ unfinished \subseteq Recorded
  /\ flow.kind \in Kinds \union {"none"} /\ flow.rest \subseteq 1 .. today
  /\ flow.rest # {} => "flow" \in unfinished
  /\ lastExit.code \in 0 .. 2
  /\ flowsLeft \in 0 .. MaxFlows

-----------------------------------------------------------------------------
(* The windows.                                                            *)

\* A variant: the earlier years end the day before the recent ones' start.
BootstrapWindowsApart(day) ==
  <<[first |-> day - RecentDays + 1, last |-> day], [first |-> 1, last |-> day - RecentDays - 1]>>

BootstrapWindows(day) ==
  LET split == day - RecentDays
  IN  <<[first |-> split + 1, last |-> day], [first |-> 1, last |-> split]>>

SyncWindow(day) == [first |-> day - SyncDays + 1, last |-> day]

\* calendar_days, within the partitions there are.
DaysOf(window) == {d \in 1 .. today: window.first <= d /\ d <= window.last}

\* main: the arguments, and what they ask for.  A scheduled sync ends on its day.
Started(kind, windows) ==
  [kind |-> kind, windows |-> Tail(windows), rest |-> DaysOf(Head(windows)), clean |-> TRUE,
   on |-> today, had |-> releasedDays,
   asked |-> UNION {DaysOf(windows[i]): i \in DOMAIN windows}]

Launches ==
  {Started("bootstrap", BootstrapWindows(today)), Started("sync", <<SyncWindow(today)>>)}
    \union {Started("range", <<[first |-> d, last |-> d]>>): d \in 1 .. today}

\* refuse_unless_ready.
Ready == migrated /\ unfinished = {} /\ ~dbtSession

Exited(x, code) == lastExit' = [flow |-> x, code |-> code]

Launch ==
  /\ flow = NoFlow /\ flowsLeft > 0
  /\ \E x \in Launches:
       IF Ready THEN flow' = x /\ unfinished' = {"flow"} /\ UNCHANGED lastExit
       ELSE Exited([x EXCEPT !.rest = {}], 2) /\ UNCHANGED <<flow, unfinished>>
  /\ flowsLeft' = flowsLeft - 1
  /\ UNCHANGED <<today, releasedDays, readDays, migrated, dbtSession>>

\* The daemon releases a scheduled run once no flow is in progress.
RunScheduled ==
  /\ flow = NoFlow /\ unfinished = {} /\ flowsLeft > 0
  /\ flow' = Started("scheduled", <<SyncWindow(today)>>)
  /\ unfinished' = {"flow"} /\ flowsLeft' = flowsLeft - 1
  /\ UNCHANGED <<today, releasedDays, readDays, migrated, dbtSession, lastExit>>

-----------------------------------------------------------------------------
(* A run over one window: run_window.                                      *)

\* A day already read is read from what is held; another as the venue answers.
Outcomes(d) ==
  IF d \in readDays THEN {"succeeded"}
  ELSE {"failed"} \union (IF d \in releasedDays THEN {"succeeded"} ELSE {"not_published"})

ReadFlowDay ==
  /\ flow.rest # {}
  /\ LET d == CHOOSE e \in flow.rest: \A f \in flow.rest: e <= f
     IN  \E outcome \in Outcomes(d):
           /\ readDays' = IF outcome = "succeeded" THEN readDays \union {d} ELSE readDays
           \* FAILED_ATTEMPTS between the run's start and its end, and the failed counts.
           /\ flow' = [flow EXCEPT !.rest = @ \ {d}, !.clean = @ /\ outcome # "failed"]
  /\ UNCHANGED <<today, releasedDays, migrated, unfinished, dbtSession, lastExit, flowsLeft>>

\* A step fails: its asset and those after it are not materialized.
FailStep ==
  /\ flow.rest # {}
  /\ flow' = [flow EXCEPT !.rest = {}, !.clean = FALSE]
  /\ UNCHANGED <<today, releasedDays, readDays, migrated, unfinished, dbtSession,
                 lastExit, flowsLeft>>

\* main: 0 where every window's report is clean.
ExitCode(x) == IF x.clean THEN 0 ELSE 1

\* The run ends with its checks.  A check that fails at error severity leaves the
\* report unclean, one that warns does not.
EndWindow ==
  /\ "flow" \in unfinished /\ flow.rest = {}
  /\ \E checks \in {"passed", "warned", "failed"}:
       flow' = [flow EXCEPT !.clean = @ /\ checks # "failed"]
  /\ unfinished' = unfinished \ {"flow"}
  /\ UNCHANGED <<today, releasedDays, readDays, migrated, dbtSession, lastExit, flowsLeft>>

\* A flow whose run has ended: the launcher holds its report.
Reported == flow # NoFlow /\ "flow" \notin unfinished

\* The run over the next window begins at once, whatever runs by now.
NextWindow ==
  /\ Reported /\ flow.windows # NoWindows
  /\ flow' = [flow EXCEPT !.rest = DaysOf(Head(flow.windows)), !.windows = Tail(flow.windows)]
  /\ unfinished' = unfinished \union {"flow"}
  /\ UNCHANGED <<today, releasedDays, readDays, migrated, dbtSession, lastExit, flowsLeft>>

\* The last report is in: the launcher exits.
Exit ==
  /\ Reported /\ flow.windows = NoWindows
  /\ flow' = NoFlow
  /\ IF flow.kind = "scheduled" THEN UNCHANGED lastExit ELSE Exited(flow, ExitCode(flow))
  /\ UNCHANGED <<today, releasedDays, readDays, migrated, unfinished, dbtSession, flowsLeft>>

\* What a killed process leaves: Dagster still records its run as started, and a
\* dbt build it launched may go on.
Killed(run) ==
  /\ unfinished' = IF run \in unfinished THEN (unfinished \ {run}) \union {"killed"} ELSE unfinished
  /\ dbtSession' \in BOOLEAN

KillFlow ==
  /\ flow # NoFlow
  /\ flow' = NoFlow /\ Killed("flow")
  /\ UNCHANGED <<today, releasedDays, readDays, migrated, lastExit, flowsLeft>>

\* Between two windows nothing runs, so another command line or the daemon may begin
\* a flow, whose run then goes on beside the next window and ends or is killed.
BeginBeside ==
  /\ Reported /\ unfinished = {} /\ flowsLeft > 0
  /\ unfinished' = {"beside"} /\ flowsLeft' = flowsLeft - 1
  /\ UNCHANGED <<today, releasedDays, readDays, migrated, dbtSession, flow, lastExit>>

ReadBeside ==
  /\ "beside" \in unfinished
  /\ \E d \in releasedDays \ readDays: readDays' = readDays \union {d}
  /\ UNCHANGED <<today, releasedDays, migrated, unfinished, dbtSession, flow, lastExit, flowsLeft>>

EndBeside ==
  /\ "beside" \in unfinished
  /\ \/ unfinished' = unfinished \ {"beside"} /\ UNCHANGED dbtSession
     \/ Killed("beside")
  /\ UNCHANGED <<today, releasedDays, readDays, migrated, flow, lastExit, flowsLeft>>

-----------------------------------------------------------------------------
(* Around the flows.                                                       *)

\* The venue releases a day's file, that evening or any day after.
ReleaseDay ==
  /\ \E d \in 1 .. today \ releasedDays: releasedDays' = releasedDays \union {d}
  /\ UNCHANGED <<today, readDays, migrated, unfinished, dbtSession, flow, lastExit,
                 flowsLeft>>

\* Midnight in India, a flow in progress or not.
PassMidnight ==
  /\ today < LastToday
  /\ today' = today + 1
  /\ UNCHANGED <<releasedDays, readDays, migrated, unfinished, dbtSession, flow, lastExit,
                 flowsLeft>>

\* An operator migrates, or clears what a killed flow left; a build ends by itself.
Operate ==
  /\ flow = NoFlow
  /\ \/ ~migrated /\ migrated' = TRUE /\ UNCHANGED <<unfinished, dbtSession>>
     \/ "killed" \in unfinished /\ unfinished' = unfinished \ {"killed"} /\ UNCHANGED <<migrated, dbtSession>>
     \/ dbtSession /\ dbtSession' = FALSE /\ UNCHANGED <<migrated, unfinished>>
  /\ UNCHANGED <<today, releasedDays, readDays, flow, lastExit, flowsLeft>>

FlowsInit ==
  /\ today = FirstToday /\ releasedDays = {} /\ readDays = {}
  /\ migrated \in BOOLEAN /\ unfinished = {} /\ dbtSession = FALSE
  /\ flow = NoFlow /\ lastExit = [flow |-> NoFlow, code |-> 0] /\ flowsLeft = MaxFlows

FlowsNext ==
  \/ Launch \/ RunScheduled \/ ReadFlowDay \/ FailStep \/ EndWindow \/ NextWindow \/ Exit
  \/ KillFlow \/ BeginBeside \/ ReadBeside \/ EndBeside
  \/ ReleaseDay \/ PassMidnight \/ Operate

FlowsSpec == FlowsInit /\ [][FlowsNext]_flowVars

-----------------------------------------------------------------------------

\* The days a flow is documented to read: a bootstrap every day of the calendar up
\* to its own, a sync the SyncDays days ending on its own (flows.py:6-8).
Promised(x) ==
  CASE x.kind = "bootstrap" -> 1 .. x.on
    [] x.kind = "sync" -> {d \in 1 .. x.on: x.on - d < SyncDays}
    [] OTHER -> x.asked

\* A launcher that exits 0 has read every day it promises that the venue had
\* released when it started: no window leaves a day out, no failed day, step or
\* check of any window passes for a clean flow, and no refused or killed flow
\* exits 0, whatever another flow reads between or beside its windows.
CleanExitReadEverything ==
  lastExit.code = 0 => (Promised(lastExit.flow) \intersect lastExit.flow.had) \subseteq readDays
=============================================================================
