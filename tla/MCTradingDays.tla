---------------------------- MODULE MCTradingDays ----------------------------
(* TradingDays on small sets.  Venues are alike, and so are values: which    *)
(* one a definition chooses never depends on it.                             *)
EXTENDS TradingDays, TLC

Symmetry == Permutations(Venues) \union Permutations(Values)

=============================================================================
