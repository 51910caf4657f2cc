---------------------------- MODULE MCMarketFeed -----------------------------
(* A ticker as in events/stocks.json, with orders at the lower limit of    *)
(* their move, an event at the limit of its shock and a strong fall.       *)
EXTENDS MarketFeed

MCMoves == {-350}
MCShocks == {-15, 35}
=============================================================================
