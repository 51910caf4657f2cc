----------------------------- MODULE OrderBook -----------------------------
(***************************************************************************)
(* The limit order book of one symbol, internal/orderbook/orderbook.go.    *)
(*                                                                         *)
(* The book keeps, for each side, a map from price to the FIFO queue of    *)
(* the orders resting there (bids, asks) and a separate index of the       *)
(* prices in use, best first (bidPrices, askPrices).  Here both are        *)
(* functions of the side: levels[s] and prices[s].                         *)
(*                                                                         *)
(* Book methods run under exchange.Service.mu, so a call is not            *)
(* interleaved with another one.  Place is nevertheless several steps:     *)
(* one for its entry, one for each iteration of its matching loop and one  *)
(* for its exit, and pc = "matching" keeps every other call out meanwhile. *)
(***************************************************************************)
EXTENDS Integers, Sequences, SequencesExt

CONSTANTS OrderIds,     \* request ids clients send; the exchange uses them as order ids
          Players,      \* player ids
          Prices,       \* the limit prices clients send (integer money)
          Quantities,   \* the quantities clients send
          OpeningPrice, \* the ticker's initial price
          MaxOrders     \* bound: how many Place calls are made

ASSUME PricesAssumption     == Prices \subseteq Nat \ {0}
ASSUME QuantitiesAssumption == Quantities \subseteq Nat
ASSUME OpeningPriceAssumption == OpeningPrice \in Nat
ASSUME MaxOrdersAssumption  == MaxOrders \in Nat

VARIABLES levels,          \* bids and asks: side -> price -> FIFO of orders
          prices,          \* bidPrices and askPrices: side -> prices, best first
          lastTradePrice,
          sequence,
          pc,              \* "idle", or "matching" inside Place
          incoming,        \* result.Order of the current or last Place
          trades,          \* result.Trades of the current or last Place
          outcome,         \* the status or error the last call replied with
          placed           \* number of Place calls accepted; stamps CreatedAt

bookVars == <<levels, prices, lastTradePrice, sequence>>
vars == <<levels, prices, lastTradePrice, sequence, pc, incoming, trades, outcome, placed>>

----------------------------------------------------------------------------
(* Types                                                                   *)

Side == {"buy", "sell"}
OrderType == {"limit", "market"}
OrderStatus == {"open", "partial", "filled", "cancelled"}

(* "at" stands for the CreatedAt time: the number of the Place call.       *)
Order == [id : OrderIds, player : Players, side : Side, type : OrderType,
          price : Prices \cup {0}, qty : Nat, rem : Nat, at : Nat]

Trade == [price : Nat, qty : Nat, aggressor : Side,
          buyOrder : OrderIds, sellOrder : OrderIds,
          buyer : Players, seller : Players]

(* What a caller passes to Place: RemainingQuantity and CreatedAt are      *)
(* still zero.  The book never looks at the price of a market order, so    *)
(* market orders come with price 0 only.                                   *)
Request ==
    [id : OrderIds, player : Players, side : Side, type : {"limit"},
     price : Prices \cup {0}, qty : Quantities]
    \cup
    [id : OrderIds, player : Players, side : Side, type : {"market"},
     price : {0}, qty : Quantities]

(* Before the first call there is no order; any order of quantity 0 does.  *)
NoOrder == [id : OrderIds, player : Players, side : {"buy"}, type : {"limit"},
            price : {0}, qty : {0}, rem : {0}, at : {0}]

----------------------------------------------------------------------------
(* Prices and levels                                                       *)

Opposite(s) == IF s = "buy" THEN "sell" ELSE "buy"

(* p comes before q in the index of side s: bids descend, asks ascend.     *)
Better(s, p, q) == IF s = "buy" THEN p > q ELSE p < q

(* validate *)
Valid(r) ==
    /\ r.qty > 0
    /\ r.type = "limit" => r.price > 0

CanCrossStrictly(o) ==   \* fault: an equal price does not trade
    LET s == Opposite(o.side)
    IN  /\ prices[s] # <<>>
        /\ o.type = "market" \/ Better(o.side, o.price, prices[s][1])

(* canCross: a market order takes whatever there is, a limit order only    *)
(* what its price admits.                                                  *)
CanCross(o) ==
    LET s == Opposite(o.side)
    IN  /\ prices[s] # <<>>
        /\ o.type = "market" \/ ~Better(s, o.price, prices[s][1])

(* The index with a new price appended and sorted again.  The index is     *)
(* sorted before, so the sort moves only the new price: in front of the    *)
(* first price it is better than.                                          *)
InsertPrice(s, index, p) ==
    LET before == {i \in 1..Len(index) : Better(s, index[i], p)}
    IN  [i \in 1..(Len(index) + 1) |->
            IF i \in before THEN index[i]
            ELSE IF i = 1 \/ (i - 1) \in before THEN p
            ELSE index[i - 1]]

(* removePrice *)
RemovePrice(index, p) ==
    LET i == CHOOSE i \in 1..Len(index) : index[i] = p
    IN  IF \E j \in 1..Len(index) : index[j] = p THEN RemoveAt(index, i) ELSE index

WithOrderInFront(level, o) ==   \* fault: prepends to the level
    [p \in DOMAIN level \cup {o.price} |->
        IF p # o.price THEN level[p]
        ELSE IF p \in DOMAIN level THEN <<o>> \o level[p] ELSE <<o>>]

(* addResting, on the map: the order goes to the back of its level.        *)
WithOrder(level, o) ==
    [p \in DOMAIN level \cup {o.price} |->
        IF p # o.price THEN level[p]
        ELSE IF p \in DOMAIN level THEN Append(level[p], o) ELSE <<o>>]

(* The map with the orders left at one price; an empty level is deleted.   *)
WithLevel(level, price, left) ==
    IF left = <<>> THEN [p \in DOMAIN level \ {price} |-> level[p]]
    ELSE [level EXCEPT ![price] = left]

IndexAfterStale(index, price, left) == index   \* fault: the price stays indexed

(* ... and the index that goes with it.                                    *)
IndexAfter(index, price, left) ==
    IF left = <<>> THEN RemovePrice(index, price) ELSE index

----------------------------------------------------------------------------
(* Initial state: New                                                      *)

Init ==
    /\ levels = [s \in Side |-> <<>>]
    /\ prices = [s \in Side |-> <<>>]
    /\ lastTradePrice = OpeningPrice
    /\ sequence = 0
    /\ pc = "idle"
    /\ incoming \in NoOrder
    /\ trades = <<>>
    /\ outcome = "none"
    /\ placed = 0

----------------------------------------------------------------------------
(* Place                                                                   *)

PlaceInvalid(r) ==
    /\ pc = "idle"
    /\ ~Valid(r)
    /\ outcome' = "error"
    /\ UNCHANGED <<levels, prices, lastTradePrice, sequence, pc, incoming, trades, placed>>

PlaceStart(r) ==
    /\ pc = "idle"
    /\ placed < MaxOrders
    /\ Valid(r)
    /\ pc' = "matching"
    /\ incoming' = [id |-> r.id, player |-> r.player, side |-> r.side, type |-> r.type,
                    price |-> r.price, qty |-> r.qty, rem |-> r.qty, at |-> placed + 1]
    /\ trades' = <<>>
    /\ placed' = placed + 1
    /\ UNCHANGED <<levels, prices, lastTradePrice, sequence, outcome>>

BestPriceLast(s) == Last(prices[s])   \* fault: the index is read from its other end

(* bestOpposingOrder: the head of the best level of the other side.        *)
BestPrice(s) == prices[s][1]
BestOrder(s) == levels[s][BestPrice(s)][1]

(* The maker sets the price.  A market order never rests, so the two       *)
(* fallbacks of the code are there but do not apply.                       *)
TradePrice(resting, o) ==
    LET price == IF resting.type = "market" THEN lastTradePrice ELSE resting.price
    IN  IF price = 0 THEN o.price ELSE price

FillTaker(o, resting) == o.rem   \* fault: ignores what the maker has left

Fill(o, resting) == IF o.rem < resting.rem THEN o.rem ELSE resting.rem

TradeOfMaker(o, resting) ==   \* fault: reports the maker's whole quantity
    [price |-> TradePrice(resting, o), qty |-> resting.rem, aggressor |-> o.side,
     buyOrder |-> o.id, sellOrder |-> resting.id, buyer |-> o.player, seller |-> resting.player]

TradeOf(o, resting) ==
    LET buy  == IF o.side = "buy" THEN o ELSE resting
        sell == IF o.side = "buy" THEN resting ELSE o
    IN  [price |-> TradePrice(resting, o), qty |-> Fill(o, resting), aggressor |-> o.side,
         buyOrder |-> buy.id, sellOrder |-> sell.id,
         buyer |-> buy.player, seller |-> sell.player]

LevelKeepsFilled(level, fill) ==   \* fault: a filled maker is not removed
    [level EXCEPT ![1].rem = level[1].rem - fill]

(* What the fill leaves of the level: a filled maker is removed            *)
(* (removeHead), a partly filled one keeps its place.                      *)
LevelAfterFill(level, fill) ==
    IF level[1].rem = fill THEN Tail(level)
    ELSE [level EXCEPT ![1].rem = level[1].rem - fill]

(* Every change of the book increments its sequence number.                *)
NextSequence == sequence' = sequence + 1

(* One iteration of the matching loop.                                     *)
MatchStep ==
    /\ pc = "matching"
    /\ incoming.rem > 0
    /\ CanCross(incoming)
    /\ LET s       == Opposite(incoming.side)
           price   == BestPrice(s)
           resting == BestOrder(s)
           left    == LevelAfterFill(levels[s][price], Fill(incoming, resting))
       IN  /\ levels' = [levels EXCEPT ![s] = WithLevel(levels[s], price, left)]
           /\ prices' = [prices EXCEPT ![s] = IndexAfter(prices[s], price, left)]
           /\ incoming' = [incoming EXCEPT !.rem = incoming.rem - Fill(incoming, resting)]
           /\ trades' = Append(trades, TradeOf(incoming, resting))
           /\ lastTradePrice' = TradePrice(resting, incoming)
    /\ NextSequence
    /\ UNCHANGED <<pc, outcome, placed>>

(* normalizeOrder *)
StatusOf(o) ==
    IF o.rem = 0 THEN "filled"
    ELSE IF o.rem < o.qty THEN "partial"
    ELSE IF o.type = "market" THEN "cancelled"
    ELSE "open"

RestsFilled(o) == o.type = "limit"   \* fault: addResting without its quantity check

(* Only a limit order rests what is left of it.                            *)
Rests(o) == o.rem > 0 /\ o.type = "limit"

PlaceFinish ==
    /\ pc = "matching"
    /\ incoming.rem = 0 \/ ~CanCross(incoming)
    /\ LET s == incoming.side
       IN  IF Rests(incoming)
           THEN /\ levels' = [levels EXCEPT ![s] = WithOrder(levels[s], incoming)]
                /\ prices' = IF incoming.price \in DOMAIN levels[s] THEN prices
                             ELSE [prices EXCEPT ![s] = InsertPrice(s, prices[s], incoming.price)]
           ELSE UNCHANGED <<levels, prices>>
    /\ pc' = "idle"
    /\ NextSequence
    /\ outcome' = StatusOf(incoming)
    /\ UNCHANGED <<lastTradePrice, incoming, trades, placed>>

----------------------------------------------------------------------------
(* Cancel                                                                  *)

(* The scan of side s finds the id at position j of the i-th level and     *)
(* nowhere before.                                                         *)
FoundAt(s, id, i, j) ==
    /\ levels[s][prices[s][i]][j].id = id
    /\ \A k \in 1..(j - 1) : levels[s][prices[s][i]][k].id # id
    /\ \A h \in 1..(i - 1) : \A k \in DOMAIN levels[s][prices[s][h]] :
           levels[s][prices[s][h]][k].id # id

Holds(s, id) ==
    \E i \in DOMAIN prices[s] : \E j \in DOMAIN levels[s][prices[s][i]] :
        levels[s][prices[s][i]][j].id = id

(* The bids are scanned before the asks.                                   *)
CancelOn(s, id) ==
    /\ pc = "idle"
    /\ s = "sell" => ~Holds("buy", id)
    /\ \E i \in DOMAIN prices[s] : \E j \in DOMAIN levels[s][prices[s][i]] :
          /\ FoundAt(s, id, i, j)
          /\ LET price == prices[s][i]
                 left  == RemoveAt(levels[s][price], j)
             IN  /\ levels' = [levels EXCEPT ![s] = WithLevel(levels[s], price, left)]
                 /\ prices' = [prices EXCEPT ![s] = IndexAfter(prices[s], price, left)]
    /\ NextSequence
    /\ outcome' = "cancelled"
    /\ UNCHANGED <<lastTradePrice, pc, incoming, trades, placed>>

Cancel(id) == \E s \in Side : CancelOn(s, id)

CancelUnknown(id) ==
    /\ pc = "idle"
    /\ \A s \in Side : ~Holds(s, id)
    /\ outcome' = "error"
    /\ UNCHANGED <<levels, prices, lastTradePrice, sequence, pc, incoming, trades, placed>>

----------------------------------------------------------------------------

Next ==
    \/ \E r \in Request : PlaceInvalid(r) \/ PlaceStart(r)
    \/ MatchStep
    \/ PlaceFinish
    \/ \E id \in OrderIds : Cancel(id) \/ CancelUnknown(id)

Spec == Init /\ [][Next]_vars

----------------------------------------------------------------------------
(* Properties                                                              *)

(* Every variable has its type: the levels are keyed by limit prices and   *)
(* hold orders, the index lists limit prices.                              *)
TypeOK ==
    /\ levels = [s \in Side |-> levels[s]]
    /\ \A s \in Side : /\ DOMAIN levels[s] \subseteq Prices
                       /\ levels[s] \in [DOMAIN levels[s] -> Seq(Order)]
    /\ prices \in [Side -> Seq(Prices)]
    /\ lastTradePrice \in Nat
    /\ sequence \in Nat
    /\ pc \in {"idle", "matching"}
    /\ incoming \in Order
    /\ trades \in Seq(Trade)
    /\ outcome \in OrderStatus \cup {"none", "error"}
    /\ placed \in Nat

(* The price index never drifts from the map it indexes: it is strictly    *)
(* sorted, best first, lists exactly the prices that have a level, and no  *)
(* level is empty.  This is what bestOpposingOrder and removeHead rely on  *)
(* when they treat an empty level as an internal error.                    *)
IndexMatchesLevels ==
    \A s \in Side :
        /\ \A i, j \in DOMAIN prices[s] : i < j => Better(s, prices[s][i], prices[s][j])
        /\ \A i \in DOMAIN prices[s] : prices[s][i] \in DOMAIN levels[s]
        /\ \A p \in DOMAIN levels[s] : \E i \in DOMAIN prices[s] : prices[s][i] = p
        /\ \A p \in DOMAIN levels[s] : levels[s][p] # <<>>

(* Only live limit orders rest, each under its own side and price: a       *)
(* market order or a filled one is never left in the book.                 *)
RestingOrdersAreLive ==
    \A s \in Side : \A p \in DOMAIN levels[s] : \A j \in DOMAIN levels[s][p] :
        LET o == levels[s][p][j]
        IN  o.side = s /\ o.price = p /\ o.type = "limit" /\ o.rem > 0 /\ o.rem <= o.qty

(* The best bid is always below the best ask, also between two fills of    *)
(* one Place call: matching leaves nothing that could still trade.         *)
NeverCrossed ==
    \A bid \in DOMAIN levels["buy"] : \A ask \in DOMAIN levels["sell"] : bid < ask

(* Within a level, orders stand in the order of their arrival, whatever    *)
(* partial fills and cancellations happened in between.                    *)
TimePriority ==
    \A s \in Side : \A p \in DOMAIN levels[s] : \A i, j \in DOMAIN levels[s][p] :
        i < j => levels[s][p][i].at < levels[s][p][j].at

(* What a list of trades took together.                                    *)
Taken(list) == SumFunction([i \in DOMAIN list |-> list[i].qty])

(* No share is invented or lost while an order is worked: what its trades  *)
(* took and what remains add up to its quantity.                           *)
QuantityConserved == placed > 0 => incoming.rem + Taken(trades) = incoming.qty

(* Every iteration of the matching loop takes something from the incoming  *)
(* order, so the loop ends after at most as many iterations as the order   *)
(* has shares: it cannot spin on a maker it does not consume.              *)
LoopMakesProgress ==
    [][pc = "matching" /\ pc' = "matching" => incoming'.rem < incoming.rem]_vars

(* The set of orders in the book.                                          *)
Resting == UNION {UNION {ToSet(levels[s][p]) : p \in DOMAIN levels[s]} : s \in Side}

(* place_order is declared "idempotent": true (config/actions/             *)
(* place_order.json:7 of the repository): sending a request again, under   *)
(* the same id, should not place a second order.  It does.                 *)
PlacedOnce ==
    \A o1, o2 \in Resting :
        (/\ o1.id = o2.id /\ o1.player = o2.player /\ o1.side = o2.side
         /\ o1.price = o2.price /\ o1.qty = o2.qty) => o1 = o2

Abstract == INSTANCE PriceTimeBook
            WITH resting <- Resting, phase <- pc, taker <- incoming,
                 tape <- trades, arrivals <- placed

(* The maps, queues and sorted indexes implement price-time priority as    *)
(* PriceTimeBook states it over a set of orders ("price-time priority",    *)
(* "partial fills", "cancellation": README.md of the repository).          *)
PriceTimePriority == Abstract!AbstractSpec
=============================================================================
