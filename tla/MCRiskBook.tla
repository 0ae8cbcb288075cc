----------------------------- MODULE MCRiskBook -----------------------------
(* RiskBook on a small account of 10 and trades that lose 2 or win 1.      *)
(* Against the limits of the cfg a first loss breaks the weekly limit, a   *)
(* loss after a win on the same day only ends in the streak limit, and one *)
(* on the next day in the daily limit, so each loss gate is the one that   *)
(* refuses in some state.                                                  *)
EXTENDS RiskBook

MCPnls == {-2, 1}
=============================================================================
