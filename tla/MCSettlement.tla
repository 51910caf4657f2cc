----------------------------- MODULE MCSettlement -----------------------------
(* Two players who each hold cash and shares of one symbol.                 *)
EXTENDS Settlement

MCOpeningCash   == [p \in Players |-> 12]
MCOpeningShares == [p \in Players |-> 1]

(* The players start alike and no definition tells them apart.              *)
PlayerSymmetry  == Permutations(Players)
=============================================================================
