-------------------------- MODULE PublishedFeatures --------------------------
(***************************************************************************)
(* What the publication of the daily features promises its readers: they   *)
(* see one whole computation at a time, the one published last, and only a *)
(* run's own computation, found sound, is ever published.  Runs may meet,  *)
(* and of those that did less is promised: what they show is of one of     *)
(* them, and each step publishes for one run at most.                      *)
(***************************************************************************)
EXTENDS Sequences

CONSTANTS Runs,      \* the runs that compute the daily features
          First      \* the computation readers see before any run's

VARIABLES shown,     \* the computation readers see
          log,       \* the runs whose computations were published, in order
          met        \* the runs under way while another was

pubVars == <<shown, log, met>>

Init == shown = [by |-> First, sound |-> TRUE] /\ log = <<>> /\ met = {}

\* A run puts its own sound computation before readers.
Publish(r) ==
  /\ shown' = [by |-> r, sound |-> TRUE]
  /\ log' = Append(log, r)
  /\ UNCHANGED met

\* Runs find each other under way; readers see nothing of it.
Meet ==
  /\ \E more \in SUBSET Runs : met' = met \union more
  /\ UNCHANGED <<shown, log>>

\* Of runs that met, one writes over what readers see, or publishes what it finds.
Disturb(r) ==
  /\ r \in met
  /\ shown' \in [by: met, sound: BOOLEAN]
  /\ log' \in {log, Append(log, r)}
  /\ UNCHANGED met

Next == Meet \/ \E r \in Runs : Publish(r) \/ Disturb(r)

Spec == Init /\ [][Next]_pubVars
=============================================================================
