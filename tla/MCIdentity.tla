------------------------------ MODULE MCIdentity ------------------------------
(***************************************************************************)
(* NSE's identity for TLC: an instrument that changes its ticker, another  *)
(* listed under the ticker it left, and a day the first did not trade.     *)
(***************************************************************************)
EXTENDS Identity

Tickered(isin, symbol) == [isin |-> isin, exchange |-> "NSE", symbol |-> symbol, code |-> NoCode]

TickerLeft == <<{Tickered(1, 7)}, {Tickered(2, 7)}, {Tickered(1, 8), Tickered(2, 7)}>>

Renamed == UNION {TickerLeft[d]: d \in Days}
=============================================================================
