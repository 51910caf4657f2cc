--------------------------- MODULE PriceTimeBook ---------------------------
(***************************************************************************)
(* What an order book with price-time priority promises, without saying    *)
(* how it finds the best order: the resting orders are a plain set.        *)
(*                                                                         *)
(*  - a taker trades with the resting order of the other side that has     *)
(*    the best price and, at that price, arrived first, as long as there   *)
(*    is one its own limit admits;                                         *)
(*  - each trade is at the resting order's price and for the smaller of    *)
(*    the two remaining quantities, and takes it from both;                *)
(*  - what is left of a limit order rests, what is left of a market order  *)
(*    is dropped;                                                          *)
(*  - a cancellation withdraws one resting order that carries the id.      *)
(*                                                                         *)
(* OrderBook implements this specification (its PriceTimePriority).        *)
(***************************************************************************)
EXTENDS Integers, Sequences

CONSTANTS OrderIds, Players, Prices, Quantities

VARIABLES resting,     \* the set of resting orders
          phase,       \* "idle" or "matching"
          taker,       \* the order being placed
          tape,        \* the trades of the current or last placement
          arrivals     \* how many orders arrived so far

abstractVars == <<resting, phase, taker, tape, arrivals>>

----------------------------------------------------------------------------

BeforeInPrice(side, p, q) == IF side = "buy" THEN p > q ELSE p < q

(* Maker m is one the taker o may trade with.                              *)
Admits(o, m) ==
    /\ m.side # o.side
    /\ o.type = "market" \/ ~BeforeInPrice(m.side, o.price, m.price)

(* Of two makers of one side, m is served before n.                        *)
HasPriority(m, n) ==
    \/ BeforeInPrice(m.side, m.price, n.price)
    \/ m.price = n.price /\ m.at < n.at

FirstInLine(m) ==
    \A n \in resting : n.side = m.side /\ n # m => HasPriority(m, n)

Smaller(a, b) == IF a < b THEN a ELSE b

----------------------------------------------------------------------------

AbstractInit ==
    /\ resting = {}
    /\ phase = "idle"
    /\ tape = <<>>
    /\ arrivals = 0

Arrive(id, player, side, type, price, qty) ==
    /\ phase = "idle"
    /\ qty > 0
    /\ type = "limit" => price > 0
    /\ taker' = [id |-> id, player |-> player, side |-> side, type |-> type,
                 price |-> price, qty |-> qty, rem |-> qty, at |-> arrivals + 1]
    /\ arrivals' = arrivals + 1
    /\ phase' = "matching"
    /\ tape' = <<>>
    /\ UNCHANGED resting

TradeWith(m) ==
    /\ phase = "matching"
    /\ taker.rem > 0
    /\ Admits(taker, m)
    /\ FirstInLine(m)
    /\ LET q     == Smaller(taker.rem, m.rem)
           buy   == IF taker.side = "buy" THEN taker ELSE m
           sell  == IF taker.side = "buy" THEN m ELSE taker
           after == [m EXCEPT !.rem = m.rem - q]
       IN  /\ resting' = (resting \ {m}) \cup (IF after.rem = 0 THEN {} ELSE {after})
           /\ taker' = [taker EXCEPT !.rem = taker.rem - q]
           /\ tape' = Append(tape, [price |-> m.price, qty |-> q, aggressor |-> taker.side,
                                    buyOrder |-> buy.id, sellOrder |-> sell.id,
                                    buyer |-> buy.player, seller |-> sell.player])
    /\ UNCHANGED <<phase, arrivals>>

Settle ==
    /\ phase = "matching"
    /\ taker.rem = 0 \/ \A m \in resting : ~Admits(taker, m)
    /\ resting' = IF taker.rem > 0 /\ taker.type = "limit" THEN resting \cup {taker} ELSE resting
    /\ phase' = "idle"
    /\ UNCHANGED <<taker, tape, arrivals>>

Withdraw(id) ==
    /\ phase = "idle"
    /\ \E m \in resting : m.id = id /\ resting' = resting \ {m}
    /\ UNCHANGED <<phase, taker, tape, arrivals>>

AbstractNext ==
    \/ \E id \in OrderIds, player \in Players, side \in {"buy", "sell"},
          type \in {"limit", "market"}, price \in Prices \cup {0}, qty \in Quantities :
             Arrive(id, player, side, type, price, qty)
    \/ \E m \in resting : TradeWith(m)
    \/ Settle
    \/ \E id \in OrderIds : Withdraw(id)

AbstractSpec == AbstractInit /\ [][AbstractNext]_abstractVars
=============================================================================
