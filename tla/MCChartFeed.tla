----------------------------- MODULE MCChartFeed -----------------------------
(* A client that reads and one that need not, who ask for less and for all *)
(* of the history kept.                                                    *)
EXTENDS ChartFeed, TLC

CONSTANTS reader, sleeper

MCLimitOf == (reader :> 1) @@ (sleeper :> 0)
=============================================================================
