------------------------------ MODULE MCServing ------------------------------
(***************************************************************************)
(* What the API reads while the pipeline writes, for TLC: the daily        *)
(* features' publication with the transactions over it, and the reads of   *)
(* marts that dbt drops and builds again.  No step of one changes a        *)
(* variable of the other, so a behaviour runs one of them and the other    *)
(* rests where it starts, where nothing fair is enabled.  The publication  *)
(* is run once with the readers and the flows of one window, and once with *)
(* every flow alone; whoever is left out stays where it starts.            *)
(***************************************************************************)
EXTENDS FeaturePublication, MarketReads

VARIABLE part             \* what a behaviour runs

servingVars == <<vars, marketVars, part>>

ServingInit ==
  part \in {"readers", "windows", "market_reads"} /\ Init /\ MarketReadsInit

ServingNext ==
  \/ /\ part = "readers"
     /\ (\E r \in Runs : After[r] = None /\ RunNext(r)) \/ (\E p \in Readers : ReaderNext(p))
     /\ UNCHANGED <<marketVars, part>>
  \/ /\ part = "windows"
     /\ \E r \in Runs : RunNext(r)
     /\ UNCHANGED <<marketVars, part>>
  \/ part = "market_reads" /\ MarketReadsNext /\ UNCHANGED <<vars, part>>

ServingSpec ==
  ServingInit /\ [][ServingNext]_servingVars /\ Fairness /\ MarketReadsFairness

-----------------------------------------------------------------------------
\* A bootstrap of two windows beside a scheduled sync.
SmallAfter == [r \in Runs |-> IF r = "older" THEN "recent" ELSE None]

\* Readers that keep the view, and marts that never come back, keep nobody waiting for
\* good: each run, each reader and each read of the marts gets to its end.
NobodyWaitsForGood == EveryoneGoesOn /\ EveryReadEnds
=============================================================================
