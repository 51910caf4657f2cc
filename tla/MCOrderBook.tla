---------------------------- MODULE MCOrderBook ----------------------------
(***************************************************************************)
(* Small instances of OrderBook.  Three prices leave room for a level      *)
(* between two others; a quantity of 2 against 1 gives partial fills on    *)
(* both sides; 0 exercises validate.                                       *)
(***************************************************************************)
EXTENDS OrderBook

MCPrices == 1..3
MCQuantities == 0..2

IdSymmetry == Permutations(OrderIds)

(* InsertPrice is the code's "append, then slices.Sort" on every sorted    *)
(* index of up to three prices out of five.                                *)
ASSUME InsertPriceSorts ==
    \A s \in Side : \A n \in 0..3 : \A index \in [1..n -> 1..5], p \in 1..5 :
        (/\ \A i, j \in 1..n : i < j => Better(s, index[i], index[j])
         /\ \A i \in 1..n : index[i] # p)
        => InsertPrice(s, index, p) = SortSeq(Append(index, p), LAMBDA a, b : Better(s, a, b))
=============================================================================
