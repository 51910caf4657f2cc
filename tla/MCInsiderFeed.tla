----------------------------- MODULE MCInsiderFeed -----------------------------
(* Players and times come from the configurations; players are alike.       *)
EXTENDS InsiderFeed, TLC

PlayerSymmetry == Permutations(Players)
=============================================================================
