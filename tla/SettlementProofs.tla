-------------------------- MODULE SettlementProofs --------------------------
(***************************************************************************)
(* Proofs about Settlement, for every choice of ids, players, prices,      *)
(* quantities and opening holdings, every number of orders and every       *)
(* choice of faults.                                                       *)
(***************************************************************************)
EXTENDS Settlement, DataLemmas

BP == INSTANCE OrderBookProofs

----------------------------------------------------------------------------
(* What the proofs about the book say of the book Settlement composes      *)

LEMMA SameMatchStep == Book!MatchStep <=> BP!MatchStep
  BY DEF Book!MatchStep, BP!MatchStep, Book!CanCross, BP!CanCross,
         Book!Opposite, BP!Opposite, Book!Better, BP!Better,
         Book!BestPrice, BP!BestPrice, Book!BestOrder, BP!BestOrder,
         Book!LevelAfterFill, BP!LevelAfterFill, Book!Fill, BP!Fill,
         Book!WithLevel, BP!WithLevel, Book!IndexAfter, BP!IndexAfter,
         Book!RemovePrice, BP!RemovePrice, Book!RemoveAt, BP!RemoveAt,
         Book!TradeOf, BP!TradeOf, Book!TradePrice, BP!TradePrice,
         Book!NextSequence, BP!NextSequence

LEMMA SamePlaceFinish == Book!PlaceFinish <=> BP!PlaceFinish
  BY DEF Book!PlaceFinish, BP!PlaceFinish, Book!CanCross, BP!CanCross,
         Book!Opposite, BP!Opposite, Book!Better, BP!Better,
         Book!Rests, BP!Rests, Book!WithOrder, BP!WithOrder,
         Book!InsertPrice, BP!InsertPrice, Book!NextSequence, BP!NextSequence,
         Book!StatusOf, BP!StatusOf

LEMMA SamePlaceStart ==
    ASSUME NEW r
    PROVE  /\ Book!PlaceStart(r) <=> BP!PlaceStart(r)
           /\ Book!PlaceInvalid(r) <=> BP!PlaceInvalid(r)
  BY DEF Book!PlaceStart, BP!PlaceStart, Book!PlaceInvalid, BP!PlaceInvalid, Book!Valid, BP!Valid

LEMMA SameCancel == ASSUME NEW id PROVE Book!Cancel(id) <=> BP!Cancel(id)
  BY DEF Book!Cancel, BP!Cancel, Book!Side, BP!Side, Book!CancelOn, BP!CancelOn,
         Book!Holds, BP!Holds, Book!FoundAt, BP!FoundAt, Book!RemoveAt, BP!RemoveAt,
         Book!WithLevel, BP!WithLevel, Book!IndexAfter, BP!IndexAfter,
         Book!RemovePrice, BP!RemovePrice, Book!NextSequence, BP!NextSequence

LEMMA SameInit == Book!Init <=> BP!Init
  BY DEF Book!Init, BP!Init, Book!Side, BP!Side, Book!NoOrder, BP!NoOrder

LEMMA SameSets ==
    /\ Book!Resting = BP!Resting /\ (Book!Resting)' = (BP!Resting)'
    /\ Book!Request = BP!Request /\ Book!Order = BP!Order /\ Book!Trade = BP!Trade
    /\ Book!Side = BP!Side
  BY DEF Book!Resting, BP!Resting, Book!Side, BP!Side, Book!ToSet, BP!ToSet,
         Book!Request, BP!Request, Book!Order, BP!Order, Book!OrderType, BP!OrderType,
         Book!Trade, BP!Trade

(* The invariant of the book, in the terms used here.                      *)
LEMMA BookTypes ==
    ASSUME BP!IInv
    PROVE  /\ incoming \in Book!Order /\ trades \in Seq(Book!Trade)
           /\ pc \in {"idle", "matching"} /\ placed \in Nat
           /\ pc = "matching" => placed > 0 /\ (incoming.type = "limit" => incoming.price \in Prices)
  BY SameSets DEF BP!IInv, BP!ScalarsOK, BP!IncomingOK

(* Every step on the book keeps it.                                        *)
LEMMA BookStep ==
    ASSUME BP!IInv,
           \/ Book!MatchStep \/ Book!PlaceFinish \/ UNCHANGED bookVars
           \/ \E r \in Book!Request : Book!PlaceStart(r) \/ Book!PlaceInvalid(r)
           \/ \E id \in OrderIds : Book!Cancel(id)
    PROVE  BP!IInv'
  <1>1. BP!Next \/ UNCHANGED BP!vars
    BY SameMatchStep, SamePlaceFinish, SamePlaceStart, SameCancel, SameSets
    DEF BP!Next, BP!vars, bookVars
  <1> QED
    BY <1>1, BookAssumption, BP!NextInvariant

(* The book after a restart.                                               *)
LEMMA BookEmptied ==
    ASSUME BP!IInv, levels' = [s \in Book!Side |-> <<>>], prices' = [s \in Book!Side |-> <<>>],
           lastTradePrice' = OpeningPrice, sequence' = 0, pc' = "idle", trades' = <<>>,
           UNCHANGED <<incoming, outcome, placed>>
    PROVE  BP!IInv' /\ (Book!Resting)' = {}
  <1>1. BP!ScalarsOK' /\ BP!IncomingOK' /\ BP!Bound' = placed /\ placed \in Nat
    BY BookAssumption DEF BP!IInv, BP!ScalarsOK, BP!IncomingOK, BP!Bound
  <1>2. ASSUME NEW s \in BP!Side PROVE levels'[s] = <<>> /\ prices'[s] = <<>>
    BY SameSets
  <1>3. ASSUME NEW s \in BP!Side PROVE BP!SideOK(s, <<>>, <<>>, placed)
    BY DEF BP!SideOK, BP!Sorted
  <1>4. BP!BookOK'
    BY <1>1, <1>2, <1>3, SameSets DEF BP!BookOK
  <1>5. BP!NeverCrossed'
    BY <1>2 DEF BP!NeverCrossed, BP!Side
  <1>6. (BP!Resting)' = {}
    BY <1>2 DEF BP!Resting
  <1> QED
    BY <1>1, <1>4, <1>5, <1>6, SameSets DEF BP!IInv

(* What the steps on the book do to the set of resting orders.             *)
LEMMA RestingTypes ==
    ASSUME BP!IInv, NEW o \in Book!Resting
    PROVE  o \in Book!Order /\ o.rem > 0 /\ o.price \in Prices
  <1>1. o \in BP!Resting
    BY SameSets
  <1>2. PICK s, q : /\ s = o.side /\ q = levels[s][o.price] /\ s \in BP!Side /\ o.price \in DOMAIN levels[s]
                    /\ o \in BP!ToSet(q) /\ BP!LevelOK(s, o.price, q, BP!Bound)
    BY <1>1, BookAssumption, BP!BookLevels
  <1>3. o.price \in Prices
    BY <1>2 DEF BP!IInv, BP!BookOK, BP!SideOK
  <1>4. PICK j \in 1..Len(q) : o = q[j]
    <2>1. q \in Seq(BP!Order)
      BY <1>2 DEF BP!LevelOK
    <2>2. \E i \in DOMAIN q : o = q[i]
      BY <1>2 DEF BP!ToSet
    <2> QED
      BY <2>1, <2>2
  <1>5. o \in BP!Order /\ o.rem > 0
    <2>1. q \in Seq(BP!Order) /\ q[j].rem > 0
      BY <1>2 DEF BP!LevelOK
    <2> QED
      BY <1>4, <2>1
  <1> QED
    BY <1>3, <1>5, SameSets

LEMMA MatchEffect ==
    ASSUME BP!IInv, Book!MatchStep
    PROVE  LET m     == Book!BestOrder(Book!Opposite(incoming.side))
               q     == Book!Fill(incoming, m)
               buy   == IF incoming.side = "buy" THEN incoming ELSE m
               sell  == IF incoming.side = "buy" THEN m ELSE incoming
           IN  /\ m \in Book!Resting /\ m \in Book!Order /\ m.side # incoming.side
               /\ q \in Nat /\ q > 0 /\ q <= m.rem /\ q <= incoming.rem
               /\ q = m.rem \/ q = incoming.rem
               /\ (Book!Resting)' = (Book!Resting \ {m}) \cup
                                       (IF m.rem = q THEN {} ELSE {[m EXCEPT !.rem = m.rem - q]})
               /\ incoming' = [incoming EXCEPT !.rem = incoming.rem - q]
               /\ trades' = Append(trades, [price |-> m.price, qty |-> q, aggressor |-> incoming.side,
                                            buyOrder |-> buy.id, sellOrder |-> sell.id,
                                            buyer |-> buy.player, seller |-> sell.player])
               /\ pc = "matching" /\ pc' = "matching" /\ placed' = placed /\ incoming.rem > 0
  <1>1. PICK m : m = BP!BestOrder(BP!Opposite(incoming.side))
    OBVIOUS
  <1>2. m = Book!BestOrder(Book!Opposite(incoming.side))
    BY <1>1 DEF Book!BestOrder, BP!BestOrder, Book!BestPrice, BP!BestPrice, Book!Opposite, BP!Opposite
  <1>3. BP!MatchStep
    BY SameMatchStep
  <1>4. m \in BP!Resting /\ m \in BP!Order /\ BP!Abstract!TradeWith(m)
    BY <1>1, <1>3, BookAssumption, BP!TradeStep
  <1>5. PICK q : q = Book!Fill(incoming, m)
    OBVIOUS
  <1>6. q = BP!Abstract!Smaller(incoming.rem, m.rem) /\ q = BP!Fill(incoming, m)
    BY <1>5 DEF BP!Abstract!Smaller, Book!Fill, BP!Fill
  <1>7. q \in Nat /\ q > 0 /\ q <= incoming.rem /\ q <= m.rem
    BY <1>1, <1>3, <1>6, BookAssumption, BP!MatchStepFill
  <1>8. q = m.rem \/ q = incoming.rem
    BY <1>5 DEF Book!Fill
  <1>9. m.rem \in Nat /\ m.side \in Book!Side
    BY <1>4 DEF BP!Order, Book!Side, BP!Side
  <1>10. PICK after : after = [m EXCEPT !.rem = m.rem - q]
    OBVIOUS
  <1>11. after.rem = 0 <=> m.rem = q
    BY <1>4, <1>7, <1>9, <1>10 DEF BP!Order
  <1>12. /\ BP!Abstract!Admits(incoming, m) /\ pc = "matching" /\ UNCHANGED <<pc, placed>>
         /\ (BP!Resting)' = (BP!Resting \ {m}) \cup (IF after.rem = 0 THEN {} ELSE {after})
         /\ incoming' = [incoming EXCEPT !.rem = incoming.rem - q]
         /\ incoming.rem > 0
    BY <1>4, <1>6, <1>10 DEF BP!Abstract!TradeWith
  <1>13. PICK buy, sell : /\ buy  = IF incoming.side = "buy" THEN incoming ELSE m
                          /\ sell = IF incoming.side = "buy" THEN m ELSE incoming
    OBVIOUS
  <1>14. trades' = Append(trades, [price |-> m.price, qty |-> q, aggressor |-> incoming.side,
                                   buyOrder |-> buy.id, sellOrder |-> sell.id,
                                   buyer |-> buy.player, seller |-> sell.player])
    BY <1>4, <1>6, <1>13 DEF BP!Abstract!TradeWith
  <1>15. m.side # incoming.side
    BY <1>12 DEF BP!Abstract!Admits
  <1> QED
    BY <1>2, <1>4, <1>5, <1>7, <1>8, <1>10, <1>11, <1>12, <1>13, <1>14, <1>15, SameSets

LEMMA FinishEffect ==
    ASSUME BP!IInv, Book!PlaceFinish
    PROVE  /\ (Book!Resting)' = IF Book!Rests(incoming) THEN Book!Resting \cup {incoming}
                                ELSE Book!Resting
           /\ pc = "matching" /\ pc' = "idle" /\ UNCHANGED <<incoming, trades, placed>>
  <1>1. BP!PlaceFinish
    BY SamePlaceFinish
  <1>2. BP!Abstract!Settle
    BY <1>1, BookAssumption, BP!SettleStep
  <1> QED
    BY <1>2, SameSets DEF BP!Abstract!Settle, Book!Rests

LEMMA CancelEffect ==
    ASSUME BP!IInv, NEW id \in OrderIds, Book!Cancel(id)
    PROVE  /\ \E m \in Book!Resting : m.id = id /\ (Book!Resting)' = Book!Resting \ {m}
           /\ pc = "idle" /\ UNCHANGED <<pc, incoming, trades, placed>>
  <1>1. BP!Cancel(id)
    BY SameCancel
  <1>2. BP!Abstract!Withdraw(id)
    BY <1>1, BookAssumption, BP!WithdrawStep DEF BP!Cancel
  <1> QED
    BY <1>2, SameSets DEF BP!Abstract!Withdraw

LEMMA StartEffect ==
    ASSUME BP!IInv, NEW r \in Book!Request, Book!PlaceStart(r)
    PROVE  /\ (Book!Resting)' = Book!Resting
           /\ pc = "idle" /\ pc' = "matching" /\ trades' = <<>>
           /\ placed' = placed + 1 /\ placed < MaxOrders
           /\ incoming' = [id |-> r.id, player |-> r.player, side |-> r.side, type |-> r.type,
                           price |-> r.price, qty |-> r.qty, rem |-> r.qty, at |-> placed + 1]
           /\ r.id \in OrderIds /\ r.player \in Players /\ r.side \in Book!Side
           /\ r.qty \in Nat /\ r.qty > 0 /\ r.price \in Nat
           /\ r.type = "limit" => r.price \in Prices
  <1>1. (Book!Resting)' = Book!Resting
    BY DEF Book!PlaceStart, Book!Resting
  <1>2. /\ r.id \in OrderIds /\ r.player \in Players /\ r.side \in Book!Side
        /\ r.qty \in Quantities /\ r.price \in Prices \cup {0}
    BY DEF Book!Request
  <1>3. r.qty \in Nat /\ r.price \in Nat
    <2>1. \A x \in Prices \cup {0} : x \in Nat
      BY BookAssumption
    <2> QED
      BY <1>2, <2>1, BookAssumption
  <1> QED
    BY <1>1, <1>2, <1>3 DEF Book!PlaceStart, Book!Valid

----------------------------------------------------------------------------
(* Charges, reservations and lots                                          *)

Reservation == [cash : Nat, shares : Nat]

LEMMA LessNat ==
    ASSUME NEW x \in Nat, NEW y \in Int
    PROVE  Less(x, y) \in Nat /\ (y >= 0 => Less(x, y) <= x) /\ (y <= x => Less(x, y) = x - y)
  BY DEF Less

LEMMA ChargeNat ==
    ASSUME NEW amount \in Int, NEW bps \in Nat
    PROVE  Charge(amount, bps) \in Nat
  <1>1. CASE amount <= 0
    BY <1>1 DEF Charge
  <1>2. CASE amount > 0
    <2>1. amount * bps + 9999 \in Nat
      BY <1>2
    <2>2. \A n \in Nat : n \div 10000 \in Nat
      OBVIOUS
    <2>3. Charge(amount, bps) = (amount * bps + 9999) \div 10000
      BY <1>2 DEF Charge
    <2> QED
      BY <2>1, <2>2, <2>3
  <1> QED
    BY <1>1, <1>2

LEMMA FeesNat ==
    ASSUME NEW amount \in Int
    PROVE  ExchangeFee(amount) \in Nat /\ MarketSurcharge(amount) \in Nat /\ RapidFlipTax(amount) \in Nat
  BY ChargeNat DEF ExchangeFee, MarketSurcharge, RapidFlipTax

(* What is reserved for an order.                                          *)
LEMMA ToReserveType ==
    ASSUME NEW r \in Book!Request, NEW quote \in Quotes
    PROVE  /\ ToReserve(r, quote) \in Reservation
           /\ ToReserve(r, quote).shares = IF r.side = "buy" THEN 0 ELSE r.qty
           /\ r.side # "buy" => ToReserve(r, quote).cash = 0
  <1>1. r.price \in Nat /\ r.qty \in Nat /\ quote \in Nat
    <2>1. r.price \in Prices \cup {0} /\ r.qty \in Quantities
      BY DEF Book!Request
    <2>2. \A x \in Prices \cup {0} : x \in Nat
      BY BookAssumption
    <2> QED
      BY <2>1, <2>2, BookAssumption, QuotesAssumption
  <1>2. CashNeeded(r, quote) \in Nat
    <2> DEFINE base     == IF r.price > 0 THEN r.price ELSE quote
               price    == IF r.type = "market" THEN (base * 5) \div 4 ELSE base
               notional == price * r.qty
    <2>1. base \in Nat
      BY <1>1
    <2>2. \A n \in Nat : (n * 5) \div 4 \in Nat
      OBVIOUS
    <2> HIDE DEF base
    <2>3. price \in Nat
      BY <2>1, <2>2
    <2> HIDE DEF price
    <2>4. notional \in Nat
      BY <1>1, <2>3
    <2>5. ExchangeFee(notional) \in Nat /\ MarketSurcharge(notional) \in Nat
      BY <2>4, FeesNat
    <2> HIDE DEF notional
    <2>6. CashNeeded(r, quote) = notional + ExchangeFee(notional)
                                 + (IF r.type = "market" THEN MarketSurcharge(notional) ELSE 0)
      BY DEF CashNeeded, notional, price, base
    <2> QED
      BY <2>4, <2>5, <2>6
  <1> QED
    BY <1>1, <1>2 DEF ToReserve, Reservation

LEMMA ReserveType ==
    ASSUME NEW a \in Account, NEW need \in Reservation
    PROVE  /\ Reserve(a, need) \in Account
           /\ Reserve(a, need).cash = a.cash /\ Reserve(a, need).shares = a.shares
           /\ Reserve(a, need).lots = a.lots
           /\ Reserve(a, need).reservedCash = a.reservedCash + need.cash
           /\ Reserve(a, need).reservedShares = a.reservedShares + need.shares
  <1>1. a.reservedCash + need.cash \in Nat /\ a.reservedShares + need.shares \in Nat
    BY DEF Account, Reservation
  <1> QED
    BY <1>1 DEF Reserve, Account

LEMMA ReleaseType ==
    ASSUME NEW a \in Account, NEW what \in Reservation
    PROVE  /\ Release(a, what) \in Account
           /\ Release(a, what).cash = a.cash /\ Release(a, what).shares = a.shares
           /\ Release(a, what).lots = a.lots
           /\ Release(a, what).reservedCash = Less(a.reservedCash, what.cash)
           /\ Release(a, what).reservedShares = Less(a.reservedShares, what.shares)
  <1>1. PICK c, s : c = Less(a.reservedCash, what.cash) /\ s = Less(a.reservedShares, what.shares)
    OBVIOUS
  <1>2. c \in Nat /\ s \in Nat
    <2>1. /\ a.reservedCash \in Nat /\ a.reservedShares \in Nat
          /\ what.cash \in Int /\ what.shares \in Int
      BY DEF Account, Reservation
    <2> QED
      BY ONLY <1>1, <2>1, LessNat
  <1>3. PICK b : b = [a EXCEPT !.reservedCash = c, !.reservedShares = s]
    OBVIOUS
  <1>4. /\ b \in Account /\ b.cash = a.cash /\ b.shares = a.shares /\ b.lots = a.lots
        /\ b.reservedCash = c /\ b.reservedShares = s
    <2>1. b = [cash |-> a.cash, reservedCash |-> c, shares |-> a.shares, reservedShares |-> s,
               lots |-> a.lots]
      BY ONLY a \in Account, <1>3 DEF Account
    <2>2. a.cash \in Int /\ a.shares \in Nat /\ a.lots \in [1..MaxOrders -> Nat]
      BY DEF Account
    <2> QED
      BY <1>2, <2>1, <2>2 DEF Account
  <1>5. Release(a, what) = b
    BY <1>1, <1>3 DEF Release
  <1> QED
    BY <1>1, <1>4, <1>5

(* Sums over lots and parts of them.                                       *)
LEMMA LotSums ==
    ASSUME NEW lots \in [1..MaxOrders -> Nat], NEW i \in Nat, NEW j \in Int, j <= MaxOrders
    PROVE  SumFunctionOnSet(lots, (i + 1)..j) \in Nat /\ SumFunctionOnSet(lots, 1..j) \in Nat
  <1>1. MaxOrders \in Nat
    BY BookAssumption
  <1>2. IsFiniteSet((i + 1)..j) /\ IsFiniteSet(1..j)
    BY FS_Interval
  <1>3. \A n \in (i + 1)..j : lots[n] \in Nat
    BY <1>1
  <1>4. \A n \in 1..j : lots[n] \in Nat
    BY <1>1
  <1> QED
    BY <1>2, <1>3, <1>4, SumOfNaturals

LEMMA LotsAfterSaleType ==
    ASSUME NEW lots \in [1..MaxOrders -> Nat], NEW qty \in Nat
    PROVE  LotsAfterSale(lots, qty) \in [1..MaxOrders -> Nat]
  <1>1. MaxOrders \in Nat
    BY BookAssumption
  <1>2. ASSUME NEW n \in 1..MaxOrders
        PROVE  lots[n] - Least(lots[n], Less(qty, SumFunctionOnSet(lots, 1..(n - 1)))) \in Nat
    <2>1. n - 1 \in Int /\ n - 1 <= MaxOrders /\ lots[n] \in Nat
      BY <1>1
    <2>2. PICK s \in Nat : s = SumFunctionOnSet(lots, 1..(n - 1))
      BY <2>1, LotSums
    <2>3. Less(qty, s) \in Nat
      BY <2>2 DEF Less
    <2> QED
      BY <2>1, <2>2, <2>3 DEF Least
  <1> QED
    BY <1>2 DEF LotsAfterSale

(* A sale takes what it sells out of the lots, as far as they go.  In      *)
(* between: the first n lots give min(qty, their sum).                     *)
LEMMA LotsConsumed ==
    ASSUME NEW lots \in [1..MaxOrders -> Nat], NEW qty \in Nat
    PROVE  LET before == SumFunction(lots)
               after  == SumFunction(LotsAfterSale(lots, qty))
           IN  before \in Nat /\ after = before - Least(qty, before)
  <1>1. PICK left : left = LotsAfterSale(lots, qty)
    OBVIOUS
  <1>2. left \in [1..MaxOrders -> Nat] /\ MaxOrders \in Nat
    BY <1>1, LotsAfterSaleType, BookAssumption
  <1> DEFINE Had(n)  == SumFunctionOnSet(lots, 1..n)
             Keep(n) == SumFunctionOnSet(left, 1..n)
             bad     == {n \in 0..MaxOrders : Keep(n) # Had(n) - Least(qty, Had(n))}
  <1>3. \A n \in 0..MaxOrders : Had(n) \in Nat /\ Keep(n) \in Nat
    BY <1>2, LotSums
  <1>4. Had(0) = 0 /\ Keep(0) = 0
    <2>1. 1..0 = {}
      OBVIOUS
    <2> QED
      BY <2>1, SumEmpty
  <1>5. ASSUME NEW n \in 0..MaxOrders, n + 1 <= MaxOrders
        PROVE  Had(n + 1) = lots[n + 1] + Had(n) /\ Keep(n + 1) = left[n + 1] + Keep(n)
    <2>1. /\ n \in Nat
          /\ \A i \in 1..(n + 1) : lots[i] \in Int
          /\ \A i \in 1..(n + 1) : left[i] \in Int
      BY <1>2, <1>5
    <2> QED
      BY <2>1, SumAppend
  <1>6. ASSUME NEW n \in 1..MaxOrders
        PROVE  left[n] = lots[n] - Least(lots[n], Less(qty, Had(n - 1)))
    BY <1>1 DEF LotsAfterSale
  <1> HIDE DEF Had, Keep
  <1>7. bad = {}
    <2> SUFFICES ASSUME bad # {} PROVE FALSE
      OBVIOUS
    <2>1. bad \in SUBSET Nat
      BY <1>2
    <2>2. PICK m \in bad : \A k \in bad : m <= k
      <3> HIDE DEF bad
      <3> QED
        BY <2>1, LeastElement
    <2>3. m \in 0..MaxOrders /\ Keep(m) # Had(m) - Least(qty, Had(m))
      OBVIOUS
    <2>4. m # 0
      BY <1>4, <2>3 DEF Least
    <2>5. PICK n : n = m - 1
      OBVIOUS
    <2>6. n \in 0..MaxOrders /\ n + 1 = m /\ n + 1 <= MaxOrders /\ m \in 1..MaxOrders
      BY <1>2, <2>3, <2>4, <2>5
    <2>7. n \notin bad
      <3>1. ~(m <= n)
        BY <2>5, <2>6
      <3> QED
        BY <2>2, <3>1
    <2>8. Keep(n) = Had(n) - Least(qty, Had(n))
      BY <2>6, <2>7
    <2>9. PICK h, k, l : h = Had(n) /\ k = Keep(n) /\ l = lots[m]
      OBVIOUS
    <2>10. h \in Nat /\ k \in Nat /\ l \in Nat /\ k = h - Least(qty, h)
      BY <1>3, <2>6, <2>8, <2>9
    <2>11. Had(m) = l + h /\ Keep(m) = (l - Least(l, Less(qty, h))) + k
      BY <1>5, <1>6, <2>5, <2>6, <2>9
    <2>12. (l - Least(l, Less(qty, h))) + k = (l + h) - Least(qty, l + h)
      BY <2>10 DEF Least, Less
    <2> QED
      BY <2>3, <2>11, <2>12
  <1>8. Keep(MaxOrders) = Had(MaxOrders) - Least(qty, Had(MaxOrders)) /\ Had(MaxOrders) \in Nat
    BY <1>2, <1>3, <1>7
  <1>9. SumFunction(lots) = Had(MaxOrders) /\ SumFunction(left) = Keep(MaxOrders)
    BY <1>2 DEF SumFunction, Had, Keep
  <1> QED
    BY <1>1, <1>8, <1>9

(* Shares bought go into one lot.                                          *)
LEMMA LotAdded ==
    ASSUME NEW lots \in [1..MaxOrders -> Nat], NEW n \in 1..MaxOrders, NEW qty \in Nat
    PROVE  LET more == [lots EXCEPT ![n] = lots[n] + qty]
           IN  /\ more \in [1..MaxOrders -> Nat]
               /\ SumFunction(more) = SumFunction(lots) + qty
  <1>1. PICK more : more = [lots EXCEPT ![n] = lots[n] + qty]
    OBVIOUS
  <1>2. lots[n] + qty \in Nat
    OBVIOUS
  <1>3. /\ more \in [1..MaxOrders -> Nat] /\ more[n] = lots[n] + qty
        /\ \A i \in (1..MaxOrders) \ {n} : more[i] = lots[i]
    BY <1>1, <1>2
  <1>4. IsFiniteSet(1..MaxOrders)
    <2>1. 1 \in Int /\ MaxOrders \in Int
      BY BookAssumption
    <2> QED
      BY <2>1, FS_Interval
  <1>5. \A i \in 1..MaxOrders : lots[i] \in Int /\ more[i] \in Int
    BY <1>3
  <1>6. SumFunctionOnSet(more, 1..MaxOrders) =
            SumFunctionOnSet(lots, 1..MaxOrders) + (more[n] - lots[n])
    <2>1. PICK S : S = 1..MaxOrders
      OBVIOUS
    <2>2. /\ IsFiniteSet(S) /\ n \in S
          /\ \A i \in S : lots[i] \in Int /\ more[i] \in Int
          /\ \A i \in S \ {n} : more[i] = lots[i]
      BY <1>3, <1>4, <1>5, <2>1
    <2>3. SumFunctionOnSet(more, S) = SumFunctionOnSet(lots, S) + (more[n] - lots[n])
      BY ONLY <2>2, SumChange
    <2> QED
      BY <2>1, <2>3
  <1>7. SumFunction(more) = SumFunction(lots) + (more[n] - lots[n])
    BY <1>3, <1>6 DEF SumFunction
  <1>8. more[n] - lots[n] = qty
    BY <1>3
  <1> QED
    BY <1>1, <1>3, <1>7, <1>8

(* What a trade does to an account, field by field.                        *)
LEMMA PricesOfTrade ==
    ASSUME NEW t \in Book!Trade, NEW flipped \in Int
    PROVE  /\ BuyerPays(t) \in Nat /\ t.price * t.qty \in Nat /\ t.price * t.qty <= BuyerPays(t)
           /\ SellerGets(t, flipped) \in Int /\ SellerGets(t, flipped) <= t.price * t.qty
  <1>1. PICK cost, tax : cost = t.price * t.qty /\ tax = RapidFlipTax(t.price * flipped)
    OBVIOUS
  <1>2. t.price \in Nat /\ t.qty \in Nat
    BY DEF Book!Trade
  <1>3. \A x, y \in Nat : x * y \in Nat
    OBVIOUS
  <1>4. \A x \in Nat, y \in Int : x * y \in Int
    OBVIOUS
  <1>5. cost \in Nat /\ tax \in Nat
    BY <1>1, <1>2, <1>3, <1>4, FeesNat
  <1>6. ExchangeFee(cost) \in Nat /\ \A id : SurchargeOn(id, cost) \in Nat
    BY <1>5, FeesNat DEF SurchargeOn
  <1>7. BuyerPays(t) = cost + ExchangeFee(cost) + SurchargeOn(t.buyOrder, cost)
    BY <1>1 DEF BuyerPays
  <1>8. SellerGets(t, flipped) = cost - ExchangeFee(cost) - SurchargeOn(t.sellOrder, cost) - tax
    BY <1>1 DEF SellerGets
  <1>9. PICK fee, on, off : fee = ExchangeFee(cost) /\ on = SurchargeOn(t.buyOrder, cost)
                            /\ off = SurchargeOn(t.sellOrder, cost)
    OBVIOUS
  <1>10. fee \in Nat /\ on \in Nat /\ off \in Nat
    BY <1>6, <1>9
  <1> QED
    BY <1>1, <1>5, <1>7, <1>8, <1>9, <1>10

LEMMA FlippedInt ==
    ASSUME NEW lots \in [1..MaxOrders -> Nat], NEW qty \in Nat, expired \in 0..MaxOrders
    PROVE  FlippedShares(lots, qty) \in Int
  <1>1. expired \in Nat /\ MaxOrders \in Int /\ MaxOrders <= MaxOrders
    BY BookAssumption
  <1>2. LotsAfterSale(lots, qty) \in [1..MaxOrders -> Nat]
    BY LotsAfterSaleType
  <1>3. FreshShares(lots) \in Nat /\ FreshShares(LotsAfterSale(lots, qty)) \in Nat
    BY <1>1, <1>2, LotSums DEF FreshShares
  <1> QED
    BY <1>3 DEF FlippedShares

LotsKept(a, p, t) == IF p = t.seller THEN LotsAfterSale(a.lots, t.qty) ELSE a.lots

WithLot(lots, qty) == [lots EXCEPT ![placed] = lots[placed] + qty]

SharesHeld(a, p, t) == a.shares + (IF p = t.buyer THEN t.qty ELSE 0)

LEMMA TradedFields ==
    ASSUME NEW a \in Account, NEW p, NEW t \in Book!Trade,
           placed \in 1..MaxOrders, expired \in 0..MaxOrders
    PROVE  /\ Traded(a, p, t) \in Account
           /\ \E gets \in Int :
                 /\ gets <= BuyerPays(t)
                 /\ Traded(a, p, t).cash = a.cash - (IF p = t.buyer THEN BuyerPays(t) ELSE 0)
                                                  + (IF p = t.seller THEN gets ELSE 0)
           /\ Traded(a, p, t).shares = IF p = t.seller THEN Less(SharesHeld(a, p, t), t.qty)
                                       ELSE SharesHeld(a, p, t)
           /\ Traded(a, p, t).lots = IF p = t.buyer THEN WithLot(LotsKept(a, p, t), t.qty)
                                     ELSE LotsKept(a, p, t)
           /\ Traded(a, p, t).reservedCash = IF p = t.buyer /\ Known(t.buyOrder)
                                             THEN Less(a.reservedCash, BuyerPays(t))
                                             ELSE a.reservedCash
           /\ Traded(a, p, t).reservedShares = IF p = t.seller /\ Known(t.sellOrder)
                                               THEN Less(a.reservedShares, t.qty)
                                               ELSE a.reservedShares
  <1>1. PICK kept : kept = IF p = t.seller THEN LotsAfterSale(a.lots, t.qty) ELSE a.lots
    OBVIOUS
  <1>2. PICK consumed : consumed = IF p = t.seller THEN [a EXCEPT !.lots = LotsAfterSale(a.lots, t.qty)] ELSE a
    OBVIOUS
  <1>3. PICK bought : bought = IF p = t.buyer THEN Bought(consumed, t) ELSE consumed
    OBVIOUS
  <1>4. PICK flipped : flipped = FlippedShares(a.lots, t.qty)
    OBVIOUS
  <1>5. PICK pays, gets : pays = BuyerPays(t) /\ gets = SellerGets(t, flipped)
    OBVIOUS
  <1>6. /\ t.qty \in Nat /\ a.cash \in Int /\ a.shares \in Nat /\ a.lots \in [1..MaxOrders -> Nat]
        /\ a.reservedCash \in Nat /\ a.reservedShares \in Nat
    BY DEF Book!Trade, Account
  <1>7. flipped \in Int
    BY <1>4, <1>6, FlippedInt
  <1>8. pays \in Nat /\ gets \in Int /\ gets <= pays
    <2>1. /\ pays \in Nat /\ t.price * t.qty \in Nat /\ t.price * t.qty <= pays
          /\ gets \in Int /\ gets <= t.price * t.qty
      BY <1>5, <1>7, PricesOfTrade
    <2> QED
      BY <2>1
  <1>9. kept \in [1..MaxOrders -> Nat]
    BY <1>1, <1>6, LotsAfterSaleType
  <1>10. consumed \in Account /\ consumed = [a EXCEPT !.lots = kept]
    BY <1>1, <1>2, <1>6, <1>9 DEF Account
  <1>11. consumed.lots = kept /\ consumed.cash = a.cash /\ consumed.shares = a.shares
         /\ consumed.reservedCash = a.reservedCash /\ consumed.reservedShares = a.reservedShares
    BY <1>10 DEF Account
  <1>12. PICK lots : lots = IF p = t.buyer THEN [kept EXCEPT ![placed] = kept[placed] + t.qty] ELSE kept
    OBVIOUS
  <1>13. lots \in [1..MaxOrders -> Nat]
    BY <1>6, <1>9, <1>12, LotAdded
  <1>14. PICK cash, held : /\ cash = IF p = t.buyer /\ Known(t.buyOrder) THEN Less(a.reservedCash, pays)
                                     ELSE a.reservedCash
                           /\ held = a.shares + (IF p = t.buyer THEN t.qty ELSE 0)
    OBVIOUS
  <1>15. cash \in Nat /\ held \in Nat
    <2>1. Less(a.reservedCash, pays) \in Nat
      BY <1>6, <1>8 DEF Less
    <2> QED
      BY <1>6, <1>14, <2>1
  <1>16. /\ bought \in Account /\ bought.lots = lots /\ bought.reservedShares = a.reservedShares
         /\ bought.cash = a.cash - (IF p = t.buyer THEN pays ELSE 0)
         /\ bought.shares = held /\ bought.reservedCash = cash
    <2>1. CASE p = t.buyer
      <3>1. bought = [consumed EXCEPT !.cash = a.cash - pays, !.shares = held,
                                      !.lots[placed] = kept[placed] + t.qty, !.reservedCash = cash]
        BY <1>3, <1>5, <1>11, <1>14, <2>1 DEF Bought
      <3>2. lots = [consumed.lots EXCEPT ![placed] = kept[placed] + t.qty]
        BY <1>11, <1>12, <2>1
      <3>3. PICK left : left = a.cash - pays /\ left \in Int
        BY <1>6, <1>8
      <3>4. bought = [consumed EXCEPT !.cash = left, !.shares = held, !.lots = lots,
                                      !.reservedCash = cash]
        BY <3>1, <3>2, <3>3 DEF Account
      <3>5. /\ bought \in Account /\ bought.cash = left /\ bought.shares = held
            /\ bought.lots = lots /\ bought.reservedCash = cash
            /\ bought.reservedShares = a.reservedShares
        BY <1>10, <1>11, <1>13, <1>15, <3>3, <3>4 DEF Account
      <3> QED
        BY <2>1, <3>3, <3>5
    <2>2. CASE p # t.buyer
      <3>1. bought = consumed /\ lots = kept /\ cash = a.reservedCash /\ held = a.shares
        BY <1>3, <1>6, <1>12, <1>14, <2>2
      <3> QED
        BY <1>6, <1>10, <1>11, <2>2, <3>1
    <2> QED
      BY <2>1, <2>2
  <1>17. PICK b : b = Traded(a, p, t)
    OBVIOUS
  <1>18. b = IF p = t.seller THEN Sold(bought, t, flipped) ELSE bought
    BY <1>2, <1>3, <1>4, <1>17 DEF Traded
  <1>19. PICK shares, locked : /\ shares = IF p = t.seller THEN Less(held, t.qty) ELSE held
                               /\ locked = IF p = t.seller /\ Known(t.sellOrder)
                                           THEN Less(a.reservedShares, t.qty) ELSE a.reservedShares
    OBVIOUS
  <1>20. shares \in Nat /\ locked \in Nat
    <2>1. Less(held, t.qty) \in Nat /\ Less(a.reservedShares, t.qty) \in Nat
      BY <1>6, <1>15 DEF Less
    <2> QED
      BY <1>6, <1>15, <1>19, <2>1
  <1>21. /\ b \in Account /\ b.lots = lots /\ b.reservedShares = locked /\ b.shares = shares
         /\ b.cash = a.cash - (IF p = t.buyer THEN pays ELSE 0) + (IF p = t.seller THEN gets ELSE 0)
         /\ b.reservedCash = cash
    <2>1. CASE p = t.seller
      <3>1. bought.cash \in Int
        BY <1>16 DEF Account
      <3>2. PICK sum : sum = bought.cash + gets /\ sum \in Int
        BY <1>8, <3>1
      <3>3. b = [bought EXCEPT !.cash = sum, !.shares = shares, !.reservedShares = locked]
        BY <1>5, <1>16, <1>18, <1>19, <2>1, <3>2 DEF Sold
      <3>4. /\ b \in Account /\ b.lots = lots /\ b.reservedShares = locked /\ b.shares = shares
            /\ b.cash = sum /\ b.reservedCash = cash
        BY <1>16, <1>20, <3>2, <3>3 DEF Account
      <3> QED
        BY <1>16, <2>1, <3>2, <3>4
    <2>2. CASE p # t.seller
      <3>1. b = bought /\ shares = held /\ locked = a.reservedShares
        BY <1>18, <1>19, <2>2
      <3> QED
        BY <1>6, <1>8, <1>16, <2>2, <3>1
    <2> QED
      BY <2>1, <2>2
  <1>22. /\ lots = IF p = t.buyer THEN WithLot(LotsKept(a, p, t), t.qty) ELSE LotsKept(a, p, t)
         /\ held = SharesHeld(a, p, t)
    BY <1>1, <1>12, <1>14 DEF WithLot, LotsKept, SharesHeld
  <1>23. \E g \in Int : /\ g <= BuyerPays(t)
                        /\ b.cash = a.cash - (IF p = t.buyer THEN BuyerPays(t) ELSE 0)
                                           + (IF p = t.seller THEN g ELSE 0)
    BY <1>5, <1>8, <1>21
  <1> QED
    BY <1>5, <1>14, <1>17, <1>19, <1>21, <1>22, <1>23

----------------------------------------------------------------------------
(* Open orders                                                             *)

LEMMA ExcessType ==
    ASSUME NEW o \in OpenOrder
    PROVE  /\ Excess(o) \in Reservation
           /\ [cash |-> o.cash, shares |-> o.shares] \in Reservation
           /\ Excess(o).cash = IF o.side = "buy" THEN Less(o.cash, o.price * o.rem) ELSE 0
           /\ Excess(o).shares = IF o.side = "sell" THEN Less(o.shares, o.rem) ELSE 0
           /\ o.price * o.rem \in Int
  <1>1. o.cash \in Nat /\ o.shares \in Nat /\ o.price \in Nat /\ o.rem \in Int
    BY BookAssumption DEF OpenOrder
  <1>2. PICK worth : worth = o.price * o.rem /\ worth \in Int
    BY <1>1
  <1>3. Less(o.cash, worth) \in Nat /\ Less(o.shares, o.rem) \in Nat
    BY <1>1, <1>2 DEF Less
  <1> QED
    BY <1>1, <1>2, <1>3 DEF Excess, Reservation

LEMMA TrimmedType ==
    ASSUME NEW o \in OpenOrder, o.rem > 0
    PROVE  /\ Trimmed(o) \in OpenOrder
           /\ Trimmed(o).player = o.player /\ Trimmed(o).side = o.side
           /\ Trimmed(o).price = o.price /\ Trimmed(o).rem = o.rem
           /\ Trimmed(o).cash = o.cash - Excess(o).cash
           /\ Trimmed(o).shares = o.shares - Excess(o).shares
           /\ Excess(o).cash <= o.cash /\ Excess(o).shares <= o.shares
           /\ o.side = "buy" => Trimmed(o).cash <= o.price * o.rem
  <1>1. o.cash \in Nat /\ o.shares \in Nat /\ o.price \in Nat /\ o.rem \in Nat
    <2>1. o.cash \in Nat /\ o.shares \in Nat /\ o.price \in Prices /\ o.rem \in Int
      BY DEF OpenOrder
    <2>2. \A x \in Prices : x \in Nat
      BY BookAssumption
    <2> QED
      BY <2>1, <2>2
  <1>2. PICK worth : worth = o.price * o.rem
    OBVIOUS
  <1>3. worth \in Nat
    BY <1>1, <1>2
  <1>4. PICK c, s : c = Excess(o).cash /\ s = Excess(o).shares
    OBVIOUS
  <1>5. /\ c \in Nat /\ c <= o.cash /\ o.cash - c \in Nat
        /\ o.side = "buy" => o.cash - c <= worth
    <2>1. c = IF o.side = "buy" THEN Less(o.cash, worth) ELSE 0
      BY <1>2, <1>4, ExcessType
    <2> QED
      BY <1>1, <1>3, <2>1 DEF Less
  <1>6. s \in Nat /\ s <= o.shares /\ o.shares - s \in Nat
    <2>1. s = IF o.side = "sell" THEN Less(o.shares, o.rem) ELSE 0
      BY <1>4, ExcessType
    <2> QED
      BY <1>1, <2>1 DEF Less
  <1>7. Trimmed(o) = [o EXCEPT !.cash = o.cash - c, !.shares = o.shares - s]
    BY <1>4 DEF Trimmed
  <1>8. PICK x, y : x = o.cash - c /\ y = o.shares - s
    OBVIOUS
  <1>9. /\ Trimmed(o) \in OpenOrder
        /\ Trimmed(o).player = o.player /\ Trimmed(o).side = o.side
        /\ Trimmed(o).price = o.price /\ Trimmed(o).rem = o.rem
        /\ Trimmed(o).cash = x /\ Trimmed(o).shares = y
    <2>1. x \in Nat /\ y \in Nat
      BY <1>5, <1>6, <1>8
    <2> QED
      BY <1>7, <1>8, <2>1 DEF OpenOrder
  <1> QED
    BY <1>2, <1>4, <1>5, <1>6, <1>8, <1>9

(* What a trade does to the open orders: to the one it names, if there is  *)
(* one.                                                                    *)
OpenTyped(open) == \A id \in DOMAIN open : open[id] \in OpenOrder

LEMMA FilledFields ==
    ASSUME NEW open, OpenTyped(open), NEW x, NEW t \in Book!Trade
    PROVE  LET new == Filled(open, x, t)
           IN  /\ DOMAIN new = DOMAIN open /\ OpenTyped(new)
               /\ \A id \in DOMAIN open :
                     LET hit == id = x /\ ~IsIncoming(x)
                     IN  /\ new[id].player = open[id].player /\ new[id].side = open[id].side
                         /\ new[id].price = open[id].price
                         /\ new[id].rem = IF hit THEN open[id].rem - t.qty ELSE open[id].rem
                         /\ new[id].cash = IF hit /\ open[id].side = "buy"
                                           THEN Less(open[id].cash, BuyerPays(t)) ELSE open[id].cash
                         /\ new[id].shares = IF hit /\ open[id].side = "sell"
                                             THEN Less(open[id].shares, t.qty) ELSE open[id].shares
  <1>1. CASE IsIncoming(x) \/ x \notin DOMAIN open
    <2>1. Filled(open, x, t) = open
      BY <1>1 DEF Filled
    <2> QED
      BY <1>1, <2>1
  <1>2. CASE ~IsIncoming(x) /\ x \in DOMAIN open
    <2>1. PICK o : o = open[x]
      OBVIOUS
    <2>2. PICK rem, cash, shares :
             /\ rem = o.rem - t.qty
             /\ cash = IF o.side = "buy" THEN Less(o.cash, BuyerPays(t)) ELSE o.cash
             /\ shares = IF o.side = "sell" THEN Less(o.shares, t.qty) ELSE o.shares
      OBVIOUS
    <2>3. o \in OpenOrder
      BY <1>2, <2>1 DEF OpenTyped
    <2>4. o.rem \in Int /\ o.cash \in Nat /\ o.shares \in Nat /\ t.qty \in Nat
      BY <2>3 DEF OpenOrder, Book!Trade
    <2>5. BuyerPays(t) \in Nat
      BY PricesOfTrade
    <2>6. rem \in Int /\ cash \in Nat /\ shares \in Nat
      BY <2>2, <2>4, <2>5 DEF Less
    <2>7. PICK after : after = [o EXCEPT !.rem = rem, !.cash = cash, !.shares = shares]
      OBVIOUS
    <2>8. /\ after \in OpenOrder /\ after.player = o.player /\ after.side = o.side
          /\ after.price = o.price /\ after.rem = rem /\ after.cash = cash /\ after.shares = shares
      BY <2>3, <2>6, <2>7 DEF OpenOrder
    <2>9. PICK new : new = Filled(open, x, t)
      OBVIOUS
    <2>10. new = [open EXCEPT ![x].rem = rem, ![x].cash = cash, ![x].shares = shares]
      BY <1>2, <2>1, <2>2, <2>9 DEF Filled
    <2>11. /\ DOMAIN new = DOMAIN open /\ new[x] = after
           /\ \A id \in DOMAIN open : id # x => new[id] = open[id]
      BY <1>2, <2>1, <2>7, <2>10
    <2>12. OpenTyped(new)
      BY <2>8, <2>11 DEF OpenTyped
    <2> QED
      BY <1>2, <2>1, <2>2, <2>8, <2>9, <2>11, <2>12
  <1> QED
    BY <1>1, <1>2

----------------------------------------------------------------------------
(* Types                                                                   *)

(* Where a call is in its steps, and what it has then.                     *)
CallOK ==
    /\ pc = "matching" <=> phase = "placing"
    /\ phase = "idle" => settled = 0 /\ removed = <<>> /\ touched = {}
    /\ phase = "placing" => settled = 0
    /\ phase # "closing" /\ settled = 0 => DOMAIN copies = {}
    /\ placed <= MaxOrders
    /\ phase = "placed" => placed > 0 /\ (incoming.type = "limit" => incoming.price \in Prices)

TypeInv == TypeOK /\ BP!IInv /\ CallOK

LEMMA TypesKnown ==
    ASSUME TypeInv
    PROVE  /\ TypeOK /\ CallOK /\ BP!IInv /\ OpenTyped(openOrders)
           /\ \A p \in Players : Ledger(p) \in Account /\ accounts[p] \in Account /\ stored[p] \in Account
           /\ incoming \in Book!Order /\ trades \in Seq(Book!Trade)
           /\ placed \in Nat /\ placed <= MaxOrders
           /\ pc = "matching" => placed > 0 /\ (incoming.type = "limit" => incoming.price \in Prices)
  <1>1. TypeOK /\ CallOK /\ BP!IInv
    BY DEF TypeInv
  <1>2. \A p \in Players : Ledger(p) \in Account /\ accounts[p] \in Account /\ stored[p] \in Account
    BY <1>1 DEF TypeOK, Ledger
  <1>3. OpenTyped(openOrders)
    BY <1>1 DEF TypeOK, OpenTyped
  <1> QED
    BY <1>1, <1>2, <1>3, BookTypes DEF CallOK

LEMMA TouchType ==
    ASSUME TypeInv, NEW p \in Players, NEW account \in Account, Touch(p, account)
    PROVE  /\ DOMAIN copies' = DOMAIN copies \cup {p}
           /\ DOMAIN copies' \subseteq Players /\ \A q \in DOMAIN copies' : copies'[q] \in Account
           /\ copies'[p] = account /\ \A q \in DOMAIN copies : q # p => copies'[q] = copies[q]
  BY TypesKnown DEF Touch, TypeOK

LEMMA InitTypes == Init => TypeInv
  <1> SUFFICES ASSUME Init PROVE TypeInv
    OBVIOUS
  <1>1. BP!IInv
    BY BookAssumption, SameInit, BP!InitInvariant DEF Init
  <1>2. accounts \in [Players -> Account] /\ stored \in [Players -> Account]
    <2>1. ASSUME NEW p \in Players
          PROVE  [cash |-> OpeningCash[p], reservedCash |-> 0, shares |-> OpeningShares[p],
                  reservedShares |-> 0, lots |-> [n \in 1..MaxOrders |-> 0]] \in Account
      BY OpeningCashAssumption, OpeningSharesAssumption DEF Account
    <2> QED
      BY <2>1 DEF Init, OpeningAccounts
  <1>3. TypeOK
    <2>1. Len(trades) = 0 /\ settled = 0 /\ pc = "idle"
      BY DEF Init, Book!Init
    <2>2. expired \in 0..MaxOrders /\ reserved \in [cash : Nat, shares : Nat]
      BY BookAssumption DEF Init, NothingReserved
    <2> QED
      BY <1>2, <2>1, <2>2 DEF Init, TypeOK
  <1>4. CallOK
    BY BookAssumption DEF Init, Book!Init, CallOK
  <1> QED
    BY <1>1, <1>3, <1>4 DEF TypeInv

(* The first half of place_order.                                          *)
LEMMA ReserveForEffect ==
    ASSUME TypeInv, NEW r \in Book!Request, NEW quote \in Quotes, ReserveFor(r, quote)
    PROVE  /\ phase = "idle" /\ r.player \in Players /\ r.id \in OrderIds /\ r.id \notin issued
           /\ accounts' = [accounts EXCEPT ![r.player] = Reserve(accounts[r.player], ToReserve(r, quote))]
           /\ accounts' \in [Players -> Account]
           /\ ToReserve(r, quote) \in Reservation
           /\ issued' = issued \cup {r.id} /\ UNCHANGED <<openOrders, expired>>
           /\ r.side # "buy" => r.qty <= accounts[r.player].shares - accounts[r.player].reservedShares
  <1>1. /\ phase = "idle" /\ Sendable(r)
        /\ Affords(accounts[r.player], r, ToReserve(r, quote))
        /\ accounts' = [accounts EXCEPT ![r.player] = Reserve(accounts[r.player], ToReserve(r, quote))]
        /\ issued' = issued \cup {r.id} /\ UNCHANGED <<openOrders, expired>>
    BY DEF ReserveFor
  <1>2. r.player \in Players /\ r.id \in OrderIds /\ r.qty \in Nat
    BY BookAssumption DEF Book!Request
  <1>3. r.id \notin issued
    <2>1. r.id = NextId /\ OrderIds # issued /\ issued \subseteq OrderIds
      BY <1>1, TypesKnown DEF Sendable, TypeOK
    <2> QED
      BY <2>1 DEF NextId
  <1>4. ToReserve(r, quote) \in Reservation
        /\ ToReserve(r, quote).shares = IF r.side = "buy" THEN 0 ELSE r.qty
    BY ToReserveType
  <1>5. accounts' \in [Players -> Account]
    <2>1. accounts \in [Players -> Account]
      BY TypesKnown DEF TypeOK
    <2>2. Reserve(accounts[r.player], ToReserve(r, quote)) \in Account
      BY <1>2, <1>4, <2>1, ReserveType
    <2> QED
      BY <1>1, <1>2, <2>1, <2>2
  <1>6. r.side # "buy" => r.qty <= accounts[r.player].shares - accounts[r.player].reservedShares
    <2>1. accounts[r.player].shares \in Nat /\ accounts[r.player].reservedShares \in Nat
      BY <1>2, TypesKnown DEF Account
    <2> QED
      BY <1>1, <1>2, <1>4, <2>1 DEF Affords
  <1> QED
    BY <1>1, <1>2, <1>3, <1>4, <1>5, <1>6

(* The steps on open orders that a call makes after its trades.            *)
LEMMA CleanupTypes ==
    ASSUME TypeInv, NEW id, Cleanup(id)
    PROVE  /\ DOMAIN copies' \subseteq Players /\ \A q \in DOMAIN copies' : copies'[q] \in Account
           /\ DOMAIN openOrders' \subseteq DOMAIN openOrders
           /\ DOMAIN openOrders' = DOMAIN openOrders \ {id}
           /\ \A i \in DOMAIN openOrders' : openOrders'[i] = openOrders[i]
  <1>1. CASE id \notin DOMAIN openOrders
    BY <1>1, TypesKnown DEF Cleanup, TypeOK
  <1>2. CASE id \in DOMAIN openOrders
    <2>1. PICK o : o = openOrders[id]
      OBVIOUS
    <2>2. o \in OpenOrder /\ o.player \in Players
      BY <1>2, <2>1, TypesKnown DEF OpenTyped, OpenOrder
    <2>3. /\ Touch(o.player, Release(Ledger(o.player), [cash |-> o.cash, shares |-> o.shares]))
          /\ openOrders' = Without(id)
      BY <1>2, <2>1 DEF Cleanup
    <2>4. Release(Ledger(o.player), [cash |-> o.cash, shares |-> o.shares]) \in Account
      BY <2>2, TypesKnown, ExcessType, ReleaseType
    <2>5. DOMAIN copies' \subseteq Players /\ \A q \in DOMAIN copies' : copies'[q] \in Account
      BY <2>2, <2>3, <2>4, TouchType
    <2> QED
      BY <2>3, <2>5 DEF Without
  <1> QED
    BY <1>1, <1>2

LEMMA NormalizeTypes ==
    ASSUME TypeInv, NEW id, Normalize(id)
    PROVE  /\ DOMAIN copies' \subseteq Players /\ \A q \in DOMAIN copies' : copies'[q] \in Account
           /\ DOMAIN openOrders' \subseteq DOMAIN openOrders
           /\ OpenTyped(openOrders')
  <1>1. CASE id \notin DOMAIN openOrders \/ openOrders[id].rem <= 0
    <2>1. Cleanup(id)
      BY <1>1 DEF Normalize
    <2> QED
      BY <2>1, CleanupTypes, TypesKnown DEF OpenTyped
  <1>2. CASE ~(id \notin DOMAIN openOrders \/ openOrders[id].rem <= 0)
    <2>1. PICK o : o = openOrders[id]
      OBVIOUS
    <2>2. o \in OpenOrder /\ o.player \in Players /\ o.rem > 0
      BY <1>2, <2>1, TypesKnown DEF OpenTyped, OpenOrder
    <2>3. /\ Touch(o.player, Release(Ledger(o.player), Excess(o)))
          /\ openOrders' = [openOrders EXCEPT ![id] = Trimmed(o)]
      BY <1>2, <2>1 DEF Normalize
    <2>4. Release(Ledger(o.player), Excess(o)) \in Account
      BY <2>2, TypesKnown, ExcessType, ReleaseType
    <2>5. DOMAIN copies' \subseteq Players /\ \A q \in DOMAIN copies' : copies'[q] \in Account
      BY <2>2, <2>3, <2>4, TouchType
    <2>6. Trimmed(o) \in OpenOrder
      BY <2>2, TrimmedType
    <2> QED
      BY <2>3, <2>5, <2>6, TypesKnown DEF OpenTyped
  <1> QED
    BY <1>1, <1>2

(* The step that applies a trade, seen from the accounts and the open      *)
(* orders.                                                                 *)
LEMMA ApplyTradeEffect ==
    ASSUME TypeInv, ApplyTrade
    PROVE  LET t == trades[settled + 1]
           IN  /\ t \in Book!Trade /\ settled + 1 \in 1..Len(trades)
               /\ t.buyer \in Players /\ t.seller \in Players
               /\ phase = "placed" /\ settled' = settled + 1
               /\ DOMAIN copies' = DOMAIN copies \cup {t.buyer, t.seller}
               /\ \A p \in DOMAIN copies' : p \in Players /\ copies'[p] \in Account
               /\ openOrders' = Filled(Filled(openOrders, t.buyOrder, t), t.sellOrder, t)
               /\ OpenTyped(openOrders') /\ DOMAIN openOrders' = DOMAIN openOrders
               /\ placed \in 1..MaxOrders /\ expired \in 0..MaxOrders
  <1>1. PICK t : t = trades[settled + 1]
    OBVIOUS
  <1>2. /\ phase = "placed" /\ settled < Len(trades) /\ settled' = settled + 1
        /\ copies' = [p \in DOMAIN copies \cup {t.buyer, t.seller} |->
                         IF p \in {t.buyer, t.seller} THEN Traded(Ledger(p), p, t) ELSE copies[p]]
        /\ openOrders' = Filled(Filled(openOrders, t.buyOrder, t), t.sellOrder, t)
        /\ UNCHANGED accounts
    BY <1>1 DEF ApplyTrade
  <1>3. /\ trades \in Seq(Book!Trade) /\ settled \in 0..Len(trades) /\ expired \in 0..MaxOrders
        /\ placed \in Nat /\ placed > 0 /\ placed <= MaxOrders /\ DOMAIN copies \subseteq Players
    BY <1>2, TypesKnown DEF TypeOK, CallOK
  <1>4. settled + 1 \in 1..Len(trades) /\ t \in Book!Trade
    <2>1. Len(trades) \in Nat
      BY <1>3
    <2>2. settled + 1 \in 1..Len(trades)
      BY <1>2, <1>3, <2>1
    <2> QED
      BY <1>1, <1>3, <2>2
  <1>5. t.buyer \in Players /\ t.seller \in Players
    BY <1>4 DEF Book!Trade
  <1>6. placed \in 1..MaxOrders
    BY <1>3, BookAssumption
  <1>7. ASSUME NEW p \in Players PROVE Traded(Ledger(p), p, t) \in Account
    <2>1. Ledger(p) \in Account
      BY TypesKnown
    <2> QED
      BY <1>3, <1>4, <1>6, <2>1, TradedFields
  <1>8. /\ DOMAIN copies' = DOMAIN copies \cup {t.buyer, t.seller}
        /\ \A p \in DOMAIN copies' : p \in Players /\ copies'[p] \in Account
    BY <1>2, <1>3, <1>5, <1>7, TypesKnown DEF TypeOK
  <1>9. OpenTyped(openOrders') /\ DOMAIN openOrders' = DOMAIN openOrders
    <2>1. PICK one : one = Filled(openOrders, t.buyOrder, t)
      OBVIOUS
    <2>2. OpenTyped(one) /\ DOMAIN one = DOMAIN openOrders
      BY <1>4, <2>1, TypesKnown, FilledFields
    <2> QED
      BY <1>2, <1>4, <2>1, <2>2, FilledFields
  <1> QED
    BY <1>1, <1>2, <1>3, <1>4, <1>5, <1>6, <1>7, <1>8, <1>9

LEMMA TradedLedger ==
    ASSUME TypeInv, ApplyTrade, NEW p \in Players
    PROVE  Ledger(p)' = IF p \in {trades[settled + 1].buyer, trades[settled + 1].seller}
                        THEN Traded(Ledger(p), p, trades[settled + 1]) ELSE Ledger(p)
  <1>1. PICK t : t = trades[settled + 1]
    OBVIOUS
  <1>2. /\ copies' = [q \in DOMAIN copies \cup {t.buyer, t.seller} |->
                         IF q \in {t.buyer, t.seller} THEN Traded(Ledger(q), q, t) ELSE copies[q]]
        /\ UNCHANGED accounts
    BY <1>1 DEF ApplyTrade
  <1>3. Ledger(p)' = IF p \in DOMAIN copies' THEN copies'[p] ELSE accounts[p]
    BY <1>2 DEF Ledger
  <1>4. CASE p \in {t.buyer, t.seller}
    BY <1>1, <1>2, <1>3, <1>4
  <1>5. CASE p \notin {t.buyer, t.seller}
    BY <1>1, <1>2, <1>3, <1>5 DEF Ledger
  <1> QED
    BY <1>4, <1>5

LEMMA TouchedLedger ==
    ASSUME NEW p, NEW account, Touch(p, account), UNCHANGED accounts
    PROVE  Ledger(p)' = account /\ \A q : q # p => Ledger(q)' = Ledger(q)
  BY DEF Touch, Ledger

(* The order that comes to rest.                                           *)
RestedOrder == [player |-> incoming.player, side |-> incoming.side, price |-> incoming.price,
                rem |-> incoming.rem, cash |-> reserved.cash, shares |-> reserved.shares]

LEMMA RestIncomingEffect ==
    ASSUME TypeInv, RestIncoming
    PROVE  /\ RestedOrder \in OpenOrder /\ incoming.rem > 0 /\ incoming.id \in OrderIds
           /\ phase = "placed" /\ phase' = "closing"
           /\ settled = Len(trades) /\ Book!Rests(incoming) /\ incoming.player \in Players
           /\ Release(Ledger(incoming.player), Excess(RestedOrder)) \in Account
           /\ Touch(incoming.player, Release(Ledger(incoming.player), Excess(RestedOrder)))
           /\ DOMAIN openOrders' = DOMAIN openOrders \cup {incoming.id}
           /\ \A id \in DOMAIN openOrders' :
                 openOrders'[id] = IF id = incoming.id THEN Trimmed(RestedOrder) ELSE openOrders[id]
           /\ OpenTyped(openOrders')
           /\ touched' = touched \cup {incoming.id} /\ reserved' = NothingReserved
           /\ UNCHANGED <<bookVars, accounts, stored, removed, settled, issued, expired, faults>>
  <1>1. PICK o : o = RestedOrder
    OBVIOUS
  <1>2. /\ phase = "placed" /\ phase' = "closing"
        /\ settled = Len(trades) /\ Book!Rests(incoming)
        /\ Touch(incoming.player, Release(Ledger(incoming.player), Excess(o)))
        /\ openOrders' = [id \in DOMAIN openOrders \cup {incoming.id} |->
                             IF id = incoming.id THEN Trimmed(o) ELSE openOrders[id]]
        /\ touched' = touched \cup {incoming.id} /\ reserved' = NothingReserved
        /\ UNCHANGED <<bookVars, accounts, stored, removed, settled, issued, expired, faults>>
    BY <1>1 DEF RestIncoming, RestedOrder
  <1>3. incoming \in Book!Order /\ incoming.type = "limit" /\ incoming.rem > 0
        /\ incoming.price \in Prices /\ reserved \in Reservation
    BY <1>2, TypesKnown DEF Book!Rests, CallOK, TypeOK, Reservation
  <1>4. o \in OpenOrder /\ incoming.player \in Players /\ incoming.id \in OrderIds /\ o.rem > 0
    BY <1>1, <1>3 DEF OpenOrder, Book!Order, RestedOrder, Reservation
  <1>5. Release(Ledger(incoming.player), Excess(o)) \in Account
    BY <1>4, TypesKnown, ExcessType, ReleaseType
  <1>6. Trimmed(o) \in OpenOrder
    BY <1>4, TrimmedType
  <1>7. OpenTyped(openOrders')
    BY <1>2, <1>6, TypesKnown DEF OpenTyped
  <1> QED
    BY <1>1, <1>2, <1>3, <1>4, <1>5, <1>7

(* The steps that report an error or end a call.                           *)
LEMMA UndoTypes ==
    ASSUME TypeInv, NEW p \in Players, NEW account \in Account, NEW what \in Reservation,
           Undo(p, account, what)
    PROVE  /\ DOMAIN copies' = {p} /\ copies'[p] = Release(account, what) /\ copies'[p] \in Account
           /\ phase' = "closing" /\ reserved' = NothingReserved
           /\ reserved' \in [cash : Nat, shares : Nat] /\ removed' = <<>> /\ removed' \in Seq(OrderIds)
           /\ UNCHANGED <<settled, touched>>
  BY ReleaseType DEF Undo, NothingReserved

LEMMA CallEndsTypes ==
    ASSUME CallEnds
    PROVE  /\ phase' = "idle" /\ reserved' \in [cash : Nat, shares : Nat]
           /\ removed' = <<>> /\ removed' \in Seq(OrderIds)
           /\ DOMAIN copies' = {} /\ settled' = 0 /\ touched' = {}
  BY DEF CallEnds, NothingReserved

LEMMA TypeStep == TypeInv /\ [Next]_vars => TypeInv'
  <1> SUFFICES ASSUME TypeInv, [Next]_vars PROVE TypeInv'
    OBVIOUS
  <1>1. /\ TypeOK /\ CallOK /\ BP!IInv /\ OpenTyped(openOrders)
        /\ \A p \in Players : Ledger(p) \in Account /\ accounts[p] \in Account
        /\ incoming \in Book!Order /\ trades \in Seq(Book!Trade)
        /\ placed \in Nat /\ placed <= MaxOrders
        /\ pc = "matching" => placed > 0 /\ (incoming.type = "limit" => incoming.price \in Prices)
    BY TypesKnown
  <1>2. Len(trades) \in Nat /\ Len(<<>>) = 0 /\ MaxOrders \in Nat
    BY <1>1, BookAssumption
  <1>3. ASSUME UNCHANGED bookVars
        PROVE  BP!IInv' /\ UNCHANGED <<pc, incoming, trades, placed>>
    BY <1>1, <1>3, BookStep DEF bookVars
  <1>4. ASSUME NEW r \in Book!Request, NEW quote \in Quotes, PlaceOrder(r, quote) PROVE TypeInv'
    <2>1. ReserveFor(r, quote) /\ Book!PlaceStart(r)
      BY <1>4 DEF PlaceOrder
    <2>2. BP!IInv'
      BY <1>1, <2>1, BookStep
    <2>3. /\ pc' = "matching" /\ trades' = <<>> /\ placed' = placed + 1 /\ placed < MaxOrders
      BY <1>1, <2>1, StartEffect
    <2>4. /\ accounts' \in [Players -> Account] /\ ToReserve(r, quote) \in Reservation
          /\ issued' = issued \cup {r.id} /\ UNCHANGED <<openOrders, expired>>
          /\ phase = "idle" /\ r.id \in OrderIds
      BY <2>1, ReserveForEffect
    <2>5. /\ stored' = accounts' /\ phase' = "placing" /\ reserved' = ToReserve(r, quote)
          /\ UNCHANGED <<removed, copies, settled, touched, faults>>
      BY <1>4 DEF PlaceOrder
    <2>6. settled = 0 /\ DOMAIN copies = {}
      BY <1>1, <2>4 DEF CallOK
    <2>7. TypeOK'
      BY <1>1, <1>2, <2>3, <2>4, <2>5, <2>6 DEF TypeOK, Reservation
    <2>8. CallOK'
      BY <1>1, <1>2, <2>3, <2>4, <2>5, <2>6 DEF CallOK
    <2> QED
      BY <2>2, <2>7, <2>8 DEF TypeInv
  <1>5. ASSUME NEW r \in Book!Request, NEW quote \in Quotes, PlaceRejected(r, quote) PROVE TypeInv'
    <2>1. ReserveFor(r, quote) /\ Book!PlaceInvalid(r) /\ stored' = accounts' /\ UNCHANGED faults
          /\ Undo(r.player, accounts'[r.player], ToReserve(r, quote))
      BY <1>5 DEF PlaceRejected
    <2>2. BP!IInv'
      BY <1>1, <2>1, BookStep
    <2>3. pc' = pc /\ trades' = trades /\ placed' <= MaxOrders /\ placed' \in Nat
      BY <1>1, <1>2, <2>1 DEF Book!PlaceInvalid
    <2>4. /\ accounts' \in [Players -> Account] /\ ToReserve(r, quote) \in Reservation
          /\ issued' = issued \cup {r.id} /\ UNCHANGED <<openOrders, expired>>
          /\ phase = "idle" /\ r.id \in OrderIds /\ r.player \in Players
      BY <2>1, ReserveForEffect
    <2>5. /\ DOMAIN copies' = {r.player} /\ copies'[r.player] \in Account /\ phase' = "closing"
          /\ reserved' \in [cash : Nat, shares : Nat] /\ removed' \in Seq(OrderIds)
          /\ UNCHANGED <<settled, touched>>
      BY <2>1, <2>4, UndoTypes
    <2>6. settled = 0 /\ pc # "matching"
      BY <1>1, <2>4 DEF CallOK
    <2>7. TypeOK'
      BY <1>1, <2>1, <2>3, <2>4, <2>5 DEF TypeOK
    <2>8. CallOK'
      BY <1>1, <2>3, <2>4, <2>5, <2>6 DEF CallOK
    <2> QED
      BY <2>2, <2>7, <2>8 DEF TypeInv
  <1>6. ASSUME NEW r \in Book!Request, NEW quote \in Quotes, PlaceUnsaved(r, quote) PROVE TypeInv'
    <2>1. ReserveFor(r, quote) /\ GoesWrong("write") /\ UNCHANGED <<bookVars, stored, callVars>>
      BY <1>6 DEF PlaceUnsaved
    <2>2. BP!IInv' /\ UNCHANGED <<pc, incoming, trades, placed>>
      BY <1>3, <2>1
    <2>3. /\ accounts' \in [Players -> Account] /\ UNCHANGED <<openOrders, expired>>
          /\ issued' = issued \cup {r.id} /\ r.id \in OrderIds
      BY <2>1, ReserveForEffect
    <2>4. faults' \subseteq Faults
      BY <1>1, <2>1 DEF GoesWrong, TypeOK
    <2>5. TypeOK'
      BY <1>1, <2>1, <2>2, <2>3, <2>4 DEF TypeOK, callVars
    <2>6. CallOK'
      BY <1>1, <2>1, <2>2 DEF CallOK, callVars
    <2> QED
      BY <2>2, <2>5, <2>6 DEF TypeInv
  <1>7. ASSUME Match PROVE TypeInv'
    <2>1. PICK m : m = Book!BestOrder(Book!Opposite(incoming.side))
      OBVIOUS
    <2>2. /\ Book!MatchStep /\ removed' \in {removed, Append(removed, m.id)}
          /\ UNCHANGED <<accounts, stored, openOrders, phase, reserved, copies, settled, touched,
                         issued, expired, faults>>
      BY <1>7, <2>1 DEF Match
    <2>3. BP!IInv'
      BY <1>1, <2>2, BookStep
    <2>4. /\ m \in Book!Order /\ pc = "matching" /\ pc' = "matching" /\ placed' = placed
          /\ Len(trades') = Len(trades) + 1
          /\ incoming'.type = incoming.type /\ incoming'.price = incoming.price
      <3>1. PICK q, trade : /\ m \in Book!Order /\ pc = "matching" /\ pc' = "matching"
                            /\ placed' = placed
                            /\ incoming' = [incoming EXCEPT !.rem = incoming.rem - q]
                            /\ trades' = Append(trades, trade)
        BY <1>1, <2>1, <2>2, MatchEffect
      <3>2. incoming'.type = incoming.type /\ incoming'.price = incoming.price
        BY <1>1, <3>1 DEF Book!Order
      <3> QED
        BY <1>1, <3>1, <3>2
    <2>5. m.id \in OrderIds /\ removed \in Seq(OrderIds)
      BY <1>1, <2>4 DEF Book!Order, TypeOK
    <2>6. removed' \in Seq(OrderIds)
      BY <2>2, <2>5
    <2>7. TypeOK'
      BY <1>1, <1>2, <2>2, <2>4, <2>6 DEF TypeOK
    <2>8. CallOK'
      BY <1>1, <2>2, <2>4 DEF CallOK
    <2> QED
      BY <2>3, <2>7, <2>8 DEF TypeInv
  <1>8. ASSUME Finish PROVE TypeInv'
    <2>1. /\ Book!PlaceFinish /\ phase' = "placed"
          /\ UNCHANGED <<accounts, stored, openOrders, reserved, removed, copies, settled, touched,
                         issued, expired, faults>>
      BY <1>8 DEF Finish
    <2>2. BP!IInv'
      BY <1>1, <2>1, BookStep
    <2>3. pc = "matching" /\ pc' = "idle" /\ UNCHANGED <<incoming, trades, placed>>
      BY <1>1, <2>1, FinishEffect
    <2>4. TypeOK'
      BY <1>1, <2>1, <2>3 DEF TypeOK
    <2>5. CallOK'
      BY <1>1, <2>1, <2>3 DEF CallOK
    <2> QED
      BY <2>2, <2>4, <2>5 DEF TypeInv
  <1>9. ASSUME CacheFails PROVE TypeInv'
    <2>1. /\ phase = "placed" /\ settled = 0 /\ GoesWrong("cache")
          /\ Undo(incoming.player, accounts[incoming.player], reserved)
          /\ UNCHANGED <<bookVars, accounts, stored, openOrders, issued, expired>>
      BY <1>9 DEF CacheFails
    <2>2. BP!IInv' /\ UNCHANGED <<pc, incoming, trades, placed>>
      BY <1>3, <2>1
    <2>3. incoming.player \in Players /\ reserved \in Reservation
      BY <1>1 DEF Book!Order, TypeOK, Reservation
    <2>4. /\ DOMAIN copies' = {incoming.player} /\ copies'[incoming.player] \in Account
          /\ phase' = "closing" /\ reserved' \in [cash : Nat, shares : Nat]
          /\ removed' \in Seq(OrderIds) /\ UNCHANGED <<settled, touched>>
      BY <1>1, <2>1, <2>3, UndoTypes
    <2>5. faults' \subseteq Faults
      BY <1>1, <2>1 DEF GoesWrong, TypeOK
    <2>6. TypeOK'
      BY <1>1, <2>1, <2>2, <2>3, <2>4, <2>5 DEF TypeOK
    <2>7. CallOK'
      BY <1>1, <2>1, <2>2, <2>4 DEF CallOK
    <2> QED
      BY <2>2, <2>6, <2>7 DEF TypeInv
  <1>10. ASSUME ApplyTrade PROVE TypeInv'
    <2>1. PICK t : t = trades[settled + 1]
      OBVIOUS
    <2>2. /\ settled + 1 \in 1..Len(trades) /\ phase = "placed" /\ settled' = settled + 1
          /\ t.buyer \in Players /\ t.seller \in Players /\ t \in Book!Trade
          /\ DOMAIN copies' = DOMAIN copies \cup {t.buyer, t.seller}
          /\ \A p \in DOMAIN copies' : p \in Players /\ copies'[p] \in Account
          /\ OpenTyped(openOrders') /\ DOMAIN openOrders' = DOMAIN openOrders
      BY <1>10, <2>1, ApplyTradeEffect
    <2>3. UNCHANGED <<bookVars, accounts, stored, phase, removed, issued, expired, faults>>
      BY <1>10 DEF ApplyTrade
    <2>4. BP!IInv' /\ UNCHANGED <<pc, incoming, trades, placed>>
      BY <1>3, <2>3
    <2>5. DOMAIN copies' \subseteq Players
      BY <2>2
    <2>6. touched' \subseteq OrderIds
      <3>1. touched' = touched \cup {id \in {t.buyOrder, t.sellOrder} :
                                        ~IsIncoming(id) /\ id \in DOMAIN openOrders}
        BY <1>10, <2>1 DEF ApplyTrade
      <3> QED
        BY <1>1, <3>1 DEF TypeOK
    <2>7. reserved' \in [cash : Nat, shares : Nat]
      <3>1. PICK c, s : /\ c = IF IsIncoming(t.buyOrder) THEN Less(reserved.cash, BuyerPays(t))
                              ELSE reserved.cash
                        /\ s = IF IsIncoming(t.sellOrder) THEN Less(reserved.shares, t.qty)
                               ELSE reserved.shares
        OBVIOUS
      <3>2. reserved' = [cash |-> c, shares |-> s]
        BY <1>10, <2>1, <3>1 DEF ApplyTrade
      <3>3. /\ reserved.cash \in Nat /\ reserved.shares \in Nat /\ t.qty \in Nat
            /\ BuyerPays(t) \in Nat
        BY <1>1, <2>2, PricesOfTrade DEF TypeOK, Book!Trade
      <3>4. c \in Nat /\ s \in Nat
        BY <3>1, <3>3 DEF Less
      <3> QED
        BY <3>2, <3>4
    <2>8. settled' \in 0..Len(trades')
      BY <1>2, <2>2, <2>4
    <2>9. TypeOK'
      BY <1>1, <2>2, <2>3, <2>5, <2>6, <2>7, <2>8 DEF TypeOK, OpenTyped
    <2>10. CallOK'
      BY <1>1, <2>2, <2>3, <2>4, <2>8 DEF CallOK, TypeOK
    <2> QED
      BY <2>4, <2>9, <2>10 DEF TypeInv
  <1>11. ASSUME RestIncoming PROVE TypeInv'
    <2>1. /\ phase' = "closing" /\ incoming.player \in Players /\ incoming.id \in OrderIds
          /\ Release(Ledger(incoming.player), Excess(RestedOrder)) \in Account
          /\ Touch(incoming.player, Release(Ledger(incoming.player), Excess(RestedOrder)))
          /\ DOMAIN openOrders' = DOMAIN openOrders \cup {incoming.id} /\ OpenTyped(openOrders')
          /\ touched' = touched \cup {incoming.id} /\ reserved' = NothingReserved
          /\ phase = "placed"
          /\ UNCHANGED <<bookVars, accounts, stored, removed, settled, issued, expired, faults>>
      BY <1>11, RestIncomingEffect
    <2>2. BP!IInv' /\ UNCHANGED <<pc, incoming, trades, placed>>
      BY <1>3, <2>1
    <2>3. DOMAIN copies' \subseteq Players /\ \A q \in DOMAIN copies' : copies'[q] \in Account
      BY <2>1, TouchType
    <2>4. TypeOK'
      BY <1>1, <2>1, <2>2, <2>3 DEF TypeOK, OpenTyped, NothingReserved
    <2>5. CallOK'
      BY <1>1, <2>1, <2>2 DEF CallOK
    <2> QED
      BY <2>2, <2>4, <2>5 DEF TypeInv
  <1>12. ASSUME ReleaseIncoming PROVE TypeInv'
    <2>1. /\ phase = "placed"
          /\ Touch(incoming.player, Release(Ledger(incoming.player), reserved))
          /\ phase' = "closing" /\ reserved' = NothingReserved
          /\ UNCHANGED <<bookVars, accounts, stored, openOrders, removed, settled, touched,
                         issued, expired, faults>>
      BY <1>12 DEF ReleaseIncoming
    <2>2. BP!IInv' /\ UNCHANGED <<pc, incoming, trades, placed>>
      BY <1>3, <2>1
    <2>3. incoming.player \in Players /\ reserved \in Reservation
      BY <1>1 DEF Book!Order, TypeOK, Reservation
    <2>4. Release(Ledger(incoming.player), reserved) \in Account
      BY <1>1, <2>3, ReleaseType
    <2>5. DOMAIN copies' \subseteq Players /\ \A q \in DOMAIN copies' : copies'[q] \in Account
      BY <2>1, <2>3, <2>4, TouchType
    <2>6. TypeOK'
      BY <1>1, <2>1, <2>2, <2>5 DEF TypeOK, NothingReserved
    <2>7. CallOK'
      BY <1>1, <2>1, <2>2 DEF CallOK
    <2> QED
      BY <2>2, <2>6, <2>7 DEF TypeInv
  <1>13. ASSUME CleanRemoved PROVE TypeInv'
    <2>1. /\ phase = "closing" /\ removed # <<>> /\ removed' = Tail(removed)
          /\ Cleanup(Head(removed))
          /\ UNCHANGED <<bookVars, accounts, stored, phase, reserved, settled, touched,
                         issued, expired, faults>>
      BY <1>13 DEF CleanRemoved
    <2>2. BP!IInv' /\ UNCHANGED <<pc, incoming, trades, placed>>
      BY <1>3, <2>1
    <2>3. /\ DOMAIN copies' \subseteq Players /\ \A q \in DOMAIN copies' : copies'[q] \in Account
          /\ DOMAIN openOrders' \subseteq DOMAIN openOrders
          /\ \A i \in DOMAIN openOrders' : openOrders'[i] = openOrders[i]
      BY <2>1, CleanupTypes
    <2>4. removed' \in Seq(OrderIds)
      BY <1>1, <2>1 DEF TypeOK
    <2>5. TypeOK'
      BY <1>1, <2>1, <2>2, <2>3, <2>4 DEF TypeOK
    <2>6. CallOK'
      BY <1>1, <2>1, <2>2 DEF CallOK
    <2> QED
      BY <2>2, <2>5, <2>6 DEF TypeInv
  <1>14. ASSUME NEW id \in OrderIds, NormalizeTouched(id) PROVE TypeInv'
    <2>1. /\ phase = "closing" /\ touched' = touched \ {id} /\ Normalize(id)
          /\ UNCHANGED <<bookVars, accounts, stored, phase, reserved, removed, settled,
                         issued, expired, faults>>
      BY <1>14 DEF NormalizeTouched
    <2>2. BP!IInv' /\ UNCHANGED <<pc, incoming, trades, placed>>
      BY <1>3, <2>1
    <2>3. /\ DOMAIN copies' \subseteq Players /\ \A q \in DOMAIN copies' : copies'[q] \in Account
          /\ DOMAIN openOrders' \subseteq DOMAIN openOrders /\ OpenTyped(openOrders')
      BY <2>1, NormalizeTypes
    <2>4. TypeOK'
      BY <1>1, <2>1, <2>2, <2>3 DEF TypeOK, OpenTyped
    <2>5. CallOK'
      BY <1>1, <2>1, <2>2 DEF CallOK
    <2> QED
      BY <2>2, <2>4, <2>5 DEF TypeInv
  <1>15. ASSUME NEW p \in Players, Save(p) PROVE TypeInv'
    <2>1. /\ Saving(p) /\ Upsert(p) /\ stored' = accounts'
          /\ UNCHANGED <<bookVars, openOrders, issued, expired, faults>>
          /\ CallEnds \/ /\ copies' = [q \in DOMAIN copies \ {p} |-> copies[q]]
                         /\ UNCHANGED <<phase, reserved, removed, settled, touched>>
      BY <1>15 DEF Save
    <2>2. BP!IInv' /\ UNCHANGED <<pc, incoming, trades, placed>>
      BY <1>3, <2>1
    <2>3. accounts' \in [Players -> Account] /\ phase = "closing"
      BY <1>1, <2>1 DEF Upsert, Saving, TypeOK
    <2>4. CASE CallEnds
      <3>1. TypeOK'
        BY <1>1, <1>2, <2>1, <2>2, <2>3, <2>4, CallEndsTypes DEF TypeOK
      <3>2. CallOK'
        BY <1>1, <2>2, <2>3, <2>4, CallEndsTypes DEF CallOK
      <3> QED
        BY <2>2, <3>1, <3>2 DEF TypeInv
    <2>5. CASE /\ copies' = [q \in DOMAIN copies \ {p} |-> copies[q]]
               /\ UNCHANGED <<phase, reserved, removed, settled, touched>>
      <3>1. TypeOK'
        BY <1>1, <2>1, <2>2, <2>3, <2>5 DEF TypeOK
      <3>2. CallOK'
        BY <1>1, <2>2, <2>3, <2>5 DEF CallOK
      <3> QED
        BY <2>2, <3>1, <3>2 DEF TypeInv
    <2> QED
      BY <2>1, <2>4, <2>5
  <1>16. ASSUME NEW p \in Players, SaveFails(p) PROVE TypeInv'
    <2>1. /\ Saving(p) /\ GoesWrong("write") /\ Upsert(p) /\ CallEnds
          /\ UNCHANGED <<bookVars, stored, openOrders, issued, expired>>
      BY <1>16 DEF SaveFails
    <2>2. BP!IInv' /\ UNCHANGED <<pc, incoming, trades, placed>>
      BY <1>3, <2>1
    <2>3. accounts' \in [Players -> Account] /\ phase = "closing" /\ faults' \subseteq Faults
      BY <1>1, <2>1 DEF Upsert, Saving, TypeOK, GoesWrong
    <2>4. TypeOK'
      BY <1>1, <1>2, <2>1, <2>2, <2>3, CallEndsTypes DEF TypeOK
    <2>5. CallOK'
      BY <1>1, <2>1, <2>2, <2>3, CallEndsTypes DEF CallOK
    <2> QED
      BY <2>2, <2>4, <2>5 DEF TypeInv
  <1>17. ASSUME NEW p \in Players, NEW id \in OrderIds, CancelOrder(p, id) PROVE TypeInv'
    <2>1. PICK o : o = openOrders[id]
      OBVIOUS
    <2>2. /\ phase = "idle" /\ id \in DOMAIN openOrders /\ o.player = p /\ Book!Cancel(id)
          /\ accounts' = [accounts EXCEPT ![p] =
                             Release(accounts[p], [cash |-> o.cash, shares |-> o.shares])]
          /\ openOrders' = Without(id) /\ UNCHANGED <<callVars, issued, expired>>
          /\ \/ stored' = accounts' /\ UNCHANGED faults
             \/ GoesWrong("write") /\ UNCHANGED stored
      BY <1>17, <2>1 DEF CancelOrder
    <2>3. BP!IInv'
      BY <1>1, <2>2, BookStep
    <2>4. UNCHANGED <<pc, incoming, trades, placed>>
      BY <1>1, <2>2, CancelEffect
    <2>5. o \in OpenOrder
      BY <1>1, <2>1, <2>2 DEF OpenTyped
    <2>6. Release(accounts[p], [cash |-> o.cash, shares |-> o.shares]) \in Account
      BY <1>1, <2>5, ExcessType, ReleaseType
    <2>7. accounts' \in [Players -> Account] /\ stored' \in [Players -> Account]
      BY <1>1, <2>2, <2>6 DEF TypeOK
    <2>8. faults' \subseteq Faults
      BY <1>1, <2>2 DEF TypeOK, GoesWrong
    <2>9. DOMAIN openOrders' \subseteq DOMAIN openOrders
          /\ \A i \in DOMAIN openOrders' : openOrders'[i] = openOrders[i]
      BY <2>2 DEF Without
    <2>10. TypeOK'
      BY <1>1, <2>2, <2>4, <2>7, <2>8, <2>9 DEF TypeOK, callVars
    <2>11. CallOK'
      BY <1>1, <2>2, <2>4 DEF CallOK, callVars
    <2> QED
      BY <2>3, <2>10, <2>11 DEF TypeInv
  <1>18. ASSUME LotsExpire PROVE TypeInv'
    <2>1. /\ expired' \in (expired + 1)..MaxOrders
          /\ UNCHANGED <<bookVars, accounts, stored, openOrders, callVars, issued, faults>>
      BY <1>18 DEF LotsExpire
    <2>2. BP!IInv' /\ UNCHANGED <<pc, incoming, trades, placed>>
      BY <1>3, <2>1
    <2>3. expired' \in 0..MaxOrders
      BY <1>1, <1>2, <2>1 DEF TypeOK
    <2>4. TypeOK'
      BY <1>1, <2>1, <2>2, <2>3 DEF TypeOK, callVars
    <2>5. CallOK'
      BY <1>1, <2>1, <2>2 DEF CallOK, callVars
    <2> QED
      BY <2>2, <2>4, <2>5 DEF TypeInv
  <1>19. ASSUME Crash PROVE TypeInv'
    <2>1. /\ GoesWrong("crash") /\ CallEnds /\ openOrders' = <<>> /\ accounts' = stored
          /\ trades' = <<>> /\ pc' = "idle" /\ UNCHANGED <<placed, stored, issued, expired>>
      BY <1>19 DEF Crash
    <2>2. BP!IInv'
      BY <1>1, <1>19, BookEmptied DEF Crash
    <2>3. faults' \subseteq Faults
      BY <1>1, <2>1 DEF TypeOK, GoesWrong
    <2>4. TypeOK'
      BY <1>1, <1>2, <2>1, <2>3, CallEndsTypes DEF TypeOK
    <2>5. CallOK'
      BY <1>1, <2>1, CallEndsTypes DEF CallOK
    <2> QED
      BY <2>2, <2>4, <2>5 DEF TypeInv
  <1>20. ASSUME UNCHANGED vars PROVE TypeInv'
    <2>1. BP!IInv' /\ UNCHANGED <<pc, incoming, trades, placed>>
      BY <1>3, <1>20 DEF vars
    <2>2. TypeOK'
      BY <1>1, <1>20, <2>1 DEF TypeOK, vars, callVars
    <2>3. CallOK'
      BY <1>1, <1>20, <2>1 DEF CallOK, vars, callVars
    <2> QED
      BY <2>1, <2>2, <2>3 DEF TypeInv
  <1> QED
    BY <1>4, <1>5, <1>6, <1>7, <1>8, <1>9, <1>10, <1>11, <1>12, <1>13, <1>14, <1>15, <1>16, <1>17,
       <1>18, <1>19, <1>20
    DEF Next

LEMMA TypesHold == Spec => []TypeInv
  BY InitTypes, TypeStep, PTL DEF Spec

(* Every variable of the settlement has its type: no holding, reservation  *)
(* or lot goes below zero in any step of any call, failing or not.         *)
THEOREM Types == Spec => []TypeOK
  <1>1. TypeInv => TypeOK
    BY DEF TypeInv
  <1> QED
    BY <1>1, TypesHold, PTL

----------------------------------------------------------------------------
(* What the steps do to the account of a player as the call sees it        *)

LEMMA IdleLedger ==
    ASSUME TypeInv, phase # "closing", settled = 0, NEW p
    PROVE  Ledger(p) = accounts[p] /\ DOMAIN copies = {}
  BY DEF TypeInv, CallOK, Ledger

LEMMA IdleSettledNone == ASSUME TypeInv, phase = "idle" PROVE settled = 0
  BY DEF TypeInv, CallOK

(* An order is accepted: the player's account has the reservation.         *)
LEMMA ReservedLedger ==
    ASSUME TypeInv, NEW r \in Book!Request, NEW quote \in Quotes, ReserveFor(r, quote),
           UNCHANGED copies, NEW p \in Players
    PROVE  /\ Ledger(p)' = IF p = r.player THEN Reserve(Ledger(p), ToReserve(r, quote)) ELSE Ledger(p)
           /\ Ledger(p)' = accounts'[p] /\ Ledger(p) = accounts[p]
           /\ ToReserve(r, quote) \in Reservation
  <1>1. DOMAIN copies = {} /\ Ledger(p) = accounts[p]
    BY IdleLedger, IdleSettledNone DEF ReserveFor
  <1>2. /\ accounts' = [accounts EXCEPT ![r.player] = Reserve(accounts[r.player], ToReserve(r, quote))]
        /\ ToReserve(r, quote) \in Reservation
    BY ReserveForEffect
  <1>3. accounts \in [Players -> Account]
    BY TypesKnown DEF TypeOK
  <1>4. Ledger(p)' = accounts'[p]
    BY <1>1 DEF Ledger
  <1> QED
    BY <1>1, <1>2, <1>3, <1>4

(* The exchange answers with an error.                                     *)
LEMMA UndoneLedger ==
    ASSUME NEW p, NEW account, NEW what, Undo(p, account, what), NEW q
    PROVE  Ledger(q)' = IF q = p THEN Release(account, what) ELSE accounts'[q]
  <1>1. copies' = [x \in {p} |-> Release(account, what)]
    BY DEF Undo
  <1>2. DOMAIN copies' = {p} /\ copies'[p] = Release(account, what)
    BY <1>1
  <1> QED
    BY <1>2 DEF Ledger

LEMMA RejectedLedger ==
    ASSUME TypeInv, NEW r \in Book!Request, NEW quote \in Quotes, PlaceRejected(r, quote),
           NEW p \in Players
    PROVE  /\ ToReserve(r, quote) \in Reservation
           /\ Ledger(p)' = IF p = r.player
                           THEN Release(Reserve(Ledger(p), ToReserve(r, quote)), ToReserve(r, quote))
                           ELSE Ledger(p)
           /\ Ledger(p) = accounts[p]
           /\ accounts'[p] = IF p = r.player THEN Reserve(Ledger(p), ToReserve(r, quote))
                             ELSE Ledger(p)
  <1>1. ReserveFor(r, quote) /\ Undo(r.player, accounts'[r.player], ToReserve(r, quote))
    BY DEF PlaceRejected
  <1>2. Ledger(p) = accounts[p]
    BY <1>1, IdleLedger, IdleSettledNone DEF ReserveFor
  <1>3. /\ accounts' = [accounts EXCEPT ![r.player] = Reserve(accounts[r.player], ToReserve(r, quote))]
        /\ ToReserve(r, quote) \in Reservation /\ r.player \in Players
    BY <1>1, ReserveForEffect
  <1>4. accounts \in [Players -> Account]
    BY TypesKnown DEF TypeOK
  <1>5. Ledger(p)' = IF p = r.player THEN Release(accounts'[r.player], ToReserve(r, quote))
                     ELSE accounts'[p]
    BY <1>1, UndoneLedger
  <1>6. accounts'[p] = IF p = r.player THEN Reserve(accounts[p], ToReserve(r, quote))
                       ELSE accounts[p]
    BY <1>3, <1>4
  <1> QED
    BY <1>2, <1>3, <1>5, <1>6

LEMMA CacheFailsLedger ==
    ASSUME TypeInv, CacheFails, NEW p \in Players
    PROVE  /\ Ledger(p)' = IF p = incoming.player THEN Release(Ledger(p), reserved) ELSE Ledger(p)
           /\ Ledger(p) = accounts[p] /\ reserved \in Reservation
  <1>1. /\ phase = "placed" /\ settled = 0 /\ UNCHANGED accounts
        /\ Undo(incoming.player, accounts[incoming.player], reserved)
    BY DEF CacheFails
  <1>2. Ledger(p) = accounts[p]
    BY <1>1, IdleLedger
  <1>3. Ledger(p)' = IF p = incoming.player THEN Release(accounts[incoming.player], reserved)
                     ELSE accounts'[p]
    BY <1>1, UndoneLedger
  <1>4. reserved \in Reservation
    BY TypesKnown DEF TypeOK, Reservation
  <1> QED
    BY <1>1, <1>2, <1>3, <1>4

(* What an open order has reserved.                                        *)
HeldFor(id) == [cash |-> openOrders[id].cash, shares |-> openOrders[id].shares]

LEMMA CleanupLedger ==
    ASSUME TypeInv, NEW id, Cleanup(id), UNCHANGED accounts, NEW p \in Players
    PROVE  /\ Ledger(p)' = IF id \in DOMAIN openOrders /\ p = openOrders[id].player
                           THEN Release(Ledger(p), HeldFor(id)) ELSE Ledger(p)
           /\ id \in DOMAIN openOrders => HeldFor(id) \in Reservation
  <1>1. CASE id \notin DOMAIN openOrders
    BY <1>1 DEF Cleanup, Ledger
  <1>2. CASE id \in DOMAIN openOrders
    <2>1. PICK o : o = openOrders[id]
      OBVIOUS
    <2>2. Touch(o.player, Release(Ledger(o.player), HeldFor(id)))
      BY <1>2, <2>1 DEF Cleanup, HeldFor
    <2>3. /\ Ledger(o.player)' = Release(Ledger(o.player), HeldFor(id))
          /\ p # o.player => Ledger(p)' = Ledger(p)
      BY <2>2 DEF Touch, Ledger
    <2>4. o \in OpenOrder
      BY <1>2, <2>1, TypesKnown DEF OpenTyped
    <2>5. HeldFor(id) \in Reservation
      BY <2>1, <2>4, ExcessType DEF HeldFor
    <2>6. CASE p = o.player
      BY <1>2, <2>1, <2>3, <2>5, <2>6
    <2>7. CASE p # o.player
      BY <1>2, <2>1, <2>3, <2>5, <2>7
    <2> QED
      BY <2>6, <2>7
  <1> QED
    BY <1>1, <1>2

LEMMA NormalizeLedger ==
    ASSUME TypeInv, NEW id, id \in DOMAIN openOrders, openOrders[id].rem > 0, Normalize(id),
           UNCHANGED accounts, NEW p \in Players
    PROVE  /\ Ledger(p)' = IF p = openOrders[id].player
                           THEN Release(Ledger(p), Excess(openOrders[id])) ELSE Ledger(p)
           /\ openOrders' = [openOrders EXCEPT ![id] = Trimmed(openOrders[id])]
           /\ openOrders[id] \in OpenOrder /\ Excess(openOrders[id]) \in Reservation
  <1>1. PICK o : o = openOrders[id]
    OBVIOUS
  <1>2. o \in OpenOrder
    BY <1>1, TypesKnown DEF OpenTyped
  <1>3. o.rem \in Int
    BY <1>2 DEF OpenOrder
  <1>4. /\ Touch(o.player, Release(Ledger(o.player), Excess(o)))
        /\ openOrders' = [openOrders EXCEPT ![id] = Trimmed(o)]
    BY <1>1, <1>3 DEF Normalize
  <1>5. /\ Ledger(o.player)' = Release(Ledger(o.player), Excess(o))
        /\ p # o.player => Ledger(p)' = Ledger(p)
    BY <1>4 DEF Touch, Ledger
  <1>6. Excess(o) \in Reservation
    BY <1>2, ExcessType
  <1>7. CASE p = o.player
    BY <1>1, <1>2, <1>4, <1>5, <1>6, <1>7
  <1>8. CASE p # o.player
    BY <1>1, <1>2, <1>4, <1>5, <1>6, <1>8
  <1> QED
    BY <1>7, <1>8

LEMMA NormalizeCleans ==
    ASSUME NEW id, id \notin DOMAIN openOrders \/ openOrders[id].rem <= 0, Normalize(id)
    PROVE  Cleanup(id)
  BY DEF Normalize

(* Saving a copy makes it the account, and changes nothing for the call.   *)
LEMMA SavedLedger ==
    ASSUME TypeInv, NEW p \in Players, Save(p), NEW q \in Players
    PROVE  /\ Ledger(q)' = Ledger(q)
           /\ accounts' = [accounts EXCEPT ![p] = copies[p]] /\ copies[p] = Ledger(p)
           /\ accounts'[q] = IF q = p THEN Ledger(q) ELSE accounts[q]
  <1>1. /\ p \in DOMAIN copies /\ accounts' = [accounts EXCEPT ![p] = copies[p]]
        /\ IF DOMAIN copies = {p} THEN CallEnds
           ELSE copies' = [x \in DOMAIN copies \ {p} |-> copies[x]]
    BY DEF Save, Saving, Upsert
  <1>2. accounts \in [Players -> Account]
    BY TypesKnown DEF TypeOK
  <1>3. accounts'[q] = IF q = p THEN copies[p] ELSE accounts[q]
    BY <1>1, <1>2
  <1>4. DOMAIN copies' = DOMAIN copies \ {p} /\ \A x \in DOMAIN copies' : copies'[x] = copies[x]
    <2>1. CASE DOMAIN copies = {p}
      BY <1>1, <2>1, CallEndsTypes
    <2>2. CASE DOMAIN copies # {p}
      BY <1>1, <2>2
    <2> QED
      BY <2>1, <2>2
  <1>5. Ledger(q)' = IF q \in DOMAIN copies' THEN copies'[q] ELSE accounts'[q]
    BY DEF Ledger
  <1>6. Ledger(q) = IF q \in DOMAIN copies THEN copies[q] ELSE accounts[q]
    BY DEF Ledger
  <1>7. Ledger(q)' = Ledger(q)
    BY <1>1, <1>3, <1>4, <1>5, <1>6
  <1> QED
    BY <1>1, <1>3, <1>6, <1>7 DEF Ledger

LEMMA SaveFailsLedger ==
    ASSUME TypeInv, NEW p \in Players, SaveFails(p), NEW q \in Players
    PROVE  /\ Ledger(q)' = accounts'[q]
           /\ accounts'[q] = IF q = p THEN Ledger(q) ELSE accounts[q]
           /\ "write" \in faults'
  <1>1. /\ p \in DOMAIN copies /\ accounts' = [accounts EXCEPT ![p] = copies[p]] /\ CallEnds
        /\ "write" \in faults'
    BY DEF SaveFails, Saving, Upsert, GoesWrong
  <1>2. accounts \in [Players -> Account]
    BY TypesKnown DEF TypeOK
  <1>3. accounts'[q] = IF q = p THEN copies[p] ELSE accounts[q]
    BY <1>1, <1>2
  <1>4. Ledger(q)' = accounts'[q]
    BY <1>1, CallEndsTypes DEF Ledger
  <1> QED
    BY <1>1, <1>3, <1>4 DEF Ledger

LEMMA CancelLedger ==
    ASSUME TypeInv, NEW p \in Players, NEW id \in OrderIds, CancelOrder(p, id), NEW q \in Players
    PROVE  /\ Ledger(q)' = accounts'[q] /\ Ledger(q) = accounts[q]
           /\ Ledger(q)' = IF q = p THEN Release(Ledger(q), HeldFor(id)) ELSE Ledger(q)
           /\ id \in DOMAIN openOrders /\ openOrders[id].player = p /\ HeldFor(id) \in Reservation
           /\ openOrders[id] \in OpenOrder
  <1>1. /\ phase = "idle" /\ id \in DOMAIN openOrders /\ openOrders[id].player = p
        /\ accounts' = [accounts EXCEPT ![p] = Release(accounts[p], HeldFor(id))]
        /\ UNCHANGED callVars
    BY DEF CancelOrder, HeldFor
  <1>2. DOMAIN copies = {} /\ Ledger(q) = accounts[q] /\ copies' = copies
    BY <1>1, IdleLedger, IdleSettledNone DEF callVars
  <1>3. Ledger(q)' = accounts'[q]
    BY <1>2 DEF Ledger
  <1>4. accounts \in [Players -> Account]
    BY TypesKnown DEF TypeOK
  <1>5. openOrders[id] \in OpenOrder
    BY <1>1, TypesKnown DEF OpenTyped
  <1>6. HeldFor(id) \in Reservation
    BY <1>5, ExcessType DEF HeldFor
  <1> QED
    BY <1>1, <1>2, <1>3, <1>4, <1>5, <1>6

(* No step but one that applies a trade moves cash, shares or lots, unless *)
(* a write fails or the process stops.                                     *)
SameHoldings(a, b) == a.cash = b.cash /\ a.shares = b.shares /\ a.lots = b.lots

LEMMA HoldingsMove ==
    ASSUME TypeInv, [Next]_vars, ~ApplyTrade, faults' \subseteq {"cache"}, NEW p \in Players
    PROVE  SameHoldings(Ledger(p)', Ledger(p))
  <1>1. /\ \A q \in Players : Ledger(q) \in Account
        /\ incoming \in Book!Order /\ reserved \in Reservation
    BY TypesKnown DEF TypeOK, Reservation
  <1>2. ASSUME NEW a \in Account, NEW what \in Reservation
        PROVE  SameHoldings(Release(a, what), a) /\ SameHoldings(Reserve(a, what), a)
               /\ SameHoldings(Release(Reserve(a, what), what), a)
    BY ReleaseType, ReserveType DEF SameHoldings
  <1>3. ASSUME UNCHANGED <<accounts, copies>> PROVE SameHoldings(Ledger(p)', Ledger(p))
    BY <1>3 DEF Ledger, SameHoldings
  <1>4. ASSUME NEW r \in Book!Request, NEW quote \in Quotes,
               PlaceOrder(r, quote) \/ PlaceUnsaved(r, quote)
        PROVE  SameHoldings(Ledger(p)', Ledger(p))
    <2>1. ReserveFor(r, quote) /\ UNCHANGED copies
      BY <1>4 DEF PlaceOrder, PlaceUnsaved, callVars
    <2>2. /\ Ledger(p)' = IF p = r.player THEN Reserve(Ledger(p), ToReserve(r, quote)) ELSE Ledger(p)
          /\ ToReserve(r, quote) \in Reservation
      BY <2>1, ReservedLedger
    <2>3. Ledger(p)' = Ledger(p) \/ Ledger(p)' = Reserve(Ledger(p), ToReserve(r, quote))
      BY <2>2
    <2> QED
      BY <1>1, <1>2, <2>2, <2>3 DEF SameHoldings
  <1>5. ASSUME NEW r \in Book!Request, NEW quote \in Quotes, PlaceRejected(r, quote)
        PROVE  SameHoldings(Ledger(p)', Ledger(p))
    <2>1. /\ Ledger(p)' \in {Ledger(p),
                             Release(Reserve(Ledger(p), ToReserve(r, quote)), ToReserve(r, quote))}
          /\ ToReserve(r, quote) \in Reservation
      BY <1>5, RejectedLedger
    <2> QED
      BY <1>1, <1>2, <2>1 DEF SameHoldings
  <1>6. ASSUME CacheFails PROVE SameHoldings(Ledger(p)', Ledger(p))
    <2>1. Ledger(p)' \in {Ledger(p), Release(Ledger(p), reserved)}
      BY <1>6, CacheFailsLedger
    <2> QED
      BY <1>1, <1>2, <2>1 DEF SameHoldings
  <1>7. ASSUME RestIncoming PROVE SameHoldings(Ledger(p)', Ledger(p))
    <2>1. PICK x, o : x = incoming.player /\ o = RestedOrder
      OBVIOUS
    <2>2. Touch(x, Release(Ledger(x), Excess(o))) /\ UNCHANGED accounts /\ Excess(o) \in Reservation
      BY <1>7, <2>1, RestIncomingEffect, ExcessType
    <2>3. Ledger(p)' \in {Ledger(p), Release(Ledger(p), Excess(o))}
      BY <2>2 DEF Touch, Ledger
    <2> QED
      BY <1>1, <1>2, <2>2, <2>3 DEF SameHoldings
  <1>8. ASSUME ReleaseIncoming PROVE SameHoldings(Ledger(p)', Ledger(p))
    <2>1. PICK x, what : x = incoming.player /\ what = reserved
      OBVIOUS
    <2>2. Touch(x, Release(Ledger(x), what)) /\ UNCHANGED accounts
      BY <1>8, <2>1 DEF ReleaseIncoming
    <2>3. Ledger(p)' \in {Ledger(p), Release(Ledger(p), what)}
      BY <2>2 DEF Touch, Ledger
    <2> QED
      BY <1>1, <1>2, <2>1, <2>3 DEF SameHoldings
  <1>9. ASSUME NEW id, Cleanup(id), UNCHANGED accounts PROVE SameHoldings(Ledger(p)', Ledger(p))
    <2>1. /\ Ledger(p)' = IF id \in DOMAIN openOrders /\ p = openOrders[id].player
                          THEN Release(Ledger(p), HeldFor(id)) ELSE Ledger(p)
          /\ id \in DOMAIN openOrders => HeldFor(id) \in Reservation
      BY <1>9, CleanupLedger
    <2>2. CASE id \in DOMAIN openOrders /\ p = openOrders[id].player
      BY <1>1, <1>2, <2>1, <2>2 DEF SameHoldings
    <2>3. CASE ~(id \in DOMAIN openOrders /\ p = openOrders[id].player)
      BY <2>1, <2>3 DEF SameHoldings
    <2> QED
      BY <2>2, <2>3
  <1>10. ASSUME CleanRemoved PROVE SameHoldings(Ledger(p)', Ledger(p))
    <2>1. Cleanup(Head(removed)) /\ UNCHANGED accounts
      BY <1>10 DEF CleanRemoved
    <2> QED
      BY <1>9, <2>1
  <1>11. ASSUME NEW id \in OrderIds, NormalizeTouched(id) PROVE SameHoldings(Ledger(p)', Ledger(p))
    <2>1. Normalize(id) /\ UNCHANGED accounts
      BY <1>11 DEF NormalizeTouched
    <2>2. CASE id \notin DOMAIN openOrders \/ openOrders[id].rem <= 0
      BY <1>9, <2>1, <2>2, NormalizeCleans
    <2>3. CASE id \in DOMAIN openOrders /\ ~(openOrders[id].rem <= 0)
      <3>1. openOrders[id].rem > 0
        <4>1. openOrders[id].rem \in Int
          BY <2>3, TypesKnown DEF OpenTyped, OpenOrder
        <4> QED
          BY <2>3, <4>1
      <3>2. Excess(openOrders[id]) \in Reservation
            /\ Ledger(p)' \in {Ledger(p), Release(Ledger(p), Excess(openOrders[id]))}
        BY <2>1, <2>3, <3>1, NormalizeLedger
      <3> QED
        BY <1>1, <1>2, <3>2 DEF SameHoldings
    <2> QED
      BY <2>2, <2>3
  <1>12. ASSUME NEW q \in Players, Save(q) PROVE SameHoldings(Ledger(p)', Ledger(p))
    BY <1>12, SavedLedger DEF SameHoldings
  <1>13. ASSUME NEW q \in Players, SaveFails(q) PROVE FALSE
    BY <1>13 DEF SaveFails, GoesWrong
  <1>14. ASSUME NEW q \in Players, NEW id \in OrderIds, CancelOrder(q, id)
         PROVE  SameHoldings(Ledger(p)', Ledger(p))
    <2>1. /\ HeldFor(id) \in Reservation
          /\ Ledger(p)' = Ledger(p) \/ Ledger(p)' = Release(Ledger(p), HeldFor(id))
      BY <1>14, CancelLedger
    <2> QED
      BY <1>1, <1>2, <2>1 DEF SameHoldings
  <1>15. ASSUME Match \/ Finish \/ LotsExpire \/ UNCHANGED vars
         PROVE  SameHoldings(Ledger(p)', Ledger(p))
    BY <1>3, <1>15 DEF Match, Finish, LotsExpire, vars, callVars
  <1>16. ~Crash
    BY DEF Crash, GoesWrong
  <1> QED
    BY <1>4, <1>5, <1>6, <1>7, <1>8, <1>10, <1>11, <1>12, <1>13, <1>14, <1>15, <1>16 DEF Next

----------------------------------------------------------------------------
(* Money                                                                   *)

CashHeld == [p \in Players |-> Ledger(p).cash]

LEMMA CashHeldFacts ==
    ASSUME TypeInv, TypeInv'
    PROVE  /\ CashHeld \in [Players -> Int] /\ CashHeld' \in [Players -> Int]
           /\ TotalCash = SumFunctionOnSet(CashHeld, Players)
           /\ TotalCash' = SumFunctionOnSet(CashHeld', Players)
           /\ TotalCash \in Int
  <1>1. \A p \in Players : Ledger(p).cash \in Int
    BY TypesKnown DEF Account
  <1>2. CashHeld \in [Players -> Int]
    BY <1>1 DEF CashHeld
  <1>3. CashHeld' \in [Players -> Int]
    <2>1. CashHeld' = [p \in Players |-> IF p \in DOMAIN copies' THEN copies'[p].cash
                                         ELSE accounts'[p].cash]
      BY DEF CashHeld, Ledger
    <2>2. /\ \A p \in DOMAIN copies' : copies'[p] \in Account
          /\ \A p \in Players : accounts'[p] \in Account
      BY DEF TypeInv, TypeOK
    <2>3. \A p \in Players : (IF p \in DOMAIN copies' THEN copies'[p].cash
                              ELSE accounts'[p].cash) \in Int
      BY <2>2 DEF Account
    <2> QED
      BY <2>1, <2>3
  <1>4. TotalCash = SumFunctionOnSet(CashHeld, Players)
        /\ TotalCash' = SumFunctionOnSet(CashHeld', Players)
    BY <1>2, <1>3 DEF TotalCash, CashHeld, SumFunction
  <1>5. SumFunctionOnSet(CashHeld, Players) \in Int
    BY <1>2, PlayersAssumption, SumOut
  <1> QED
    BY <1>2, <1>3, <1>4, <1>5

LEMMA CashHeldBy ==
    ASSUME NEW p \in Players
    PROVE  CashHeld[p] = Ledger(p).cash /\ CashHeld'[p] = Ledger(p)'.cash
  BY DEF CashHeld

(* A trade takes as much from the buyer as it gives to the seller, or more.*)
LEMMA TradeCostsMoney ==
    ASSUME TypeInv, TypeInv', ApplyTrade
    PROVE  TotalCash' <= TotalCash
  <1>1. PICK t : t = trades[settled + 1]
    OBVIOUS
  <1>2. PICK b, s : b = t.buyer /\ s = t.seller
    OBVIOUS
  <1>3. /\ t \in Book!Trade /\ b \in Players /\ s \in Players
        /\ placed \in 1..MaxOrders /\ expired \in 0..MaxOrders
    BY <1>1, <1>2, ApplyTradeEffect
  <1>4. PICK f, h : f = CashHeld /\ h = CashHeld'
    OBVIOUS
  <1>5. /\ f \in [Players -> Int] /\ h \in [Players -> Int]
        /\ TotalCash = SumFunctionOnSet(f, Players)
        /\ TotalCash' = SumFunctionOnSet(h, Players) /\ TotalCash \in Int
    BY <1>4, CashHeldFacts
  <1>6. PICK pays : pays = BuyerPays(t)
    OBVIOUS
  <1>7. pays \in Nat
    BY <1>3, <1>6, PricesOfTrade
  <1>8. ASSUME NEW p \in Players, p \notin {b, s} PROVE h[p] = f[p]
    <2>1. Ledger(p)' = Ledger(p)
      BY <1>1, <1>2, <1>8, TradedLedger
    <2> QED
      BY <1>4, <2>1, CashHeldBy
  <1>9. ASSUME NEW p \in {b, s}
        PROVE  \E gets \in Int :
                  /\ gets <= pays
                  /\ h[p] = f[p] - (IF p = b THEN pays ELSE 0) + (IF p = s THEN gets ELSE 0)
    <2>1. p \in Players /\ Ledger(p) \in Account
      BY <1>3, TypesKnown
    <2>2. Ledger(p)' = Traded(Ledger(p), p, t)
      BY <1>1, <1>2, <2>1, TradedLedger
    <2>3. PICK gets \in Int :
             /\ gets <= pays
             /\ Traded(Ledger(p), p, t).cash = Ledger(p).cash - (IF p = b THEN pays ELSE 0)
                                                              + (IF p = s THEN gets ELSE 0)
      <3>1. PICK gets \in Int :
               /\ gets <= BuyerPays(t)
               /\ Traded(Ledger(p), p, t).cash = Ledger(p).cash
                       - (IF p = t.buyer THEN BuyerPays(t) ELSE 0)
                       + (IF p = t.seller THEN gets ELSE 0)
        BY <1>3, <2>1, TradedFields
      <3> QED
        BY <1>2, <1>6, <3>1
    <2>4. h[p] = f[p] - (IF p = b THEN pays ELSE 0) + (IF p = s THEN gets ELSE 0)
      BY <1>4, <2>1, <2>2, <2>3, CashHeldBy
    <2> QED
      BY <2>3, <2>4
  <1>10. CASE b = s
    <2>1. PICK gets \in Int : gets <= pays /\ h[b] = f[b] - pays + gets
      BY <1>9, <1>10
    <2>2. h[b] - f[b] <= 0 /\ h[b] - f[b] \in Int
      BY <1>3, <1>5, <1>7, <2>1
    <2>3. SumFunctionOnSet(h, Players) = SumFunctionOnSet(f, Players) + (h[b] - f[b])
      BY <1>3, <1>5, <1>8, <1>10, PlayersAssumption, SumChange
    <2> QED
      BY <1>5, <2>2, <2>3
  <1>11. CASE b # s
    <2>1. PICK gets \in Int : gets <= pays /\ h[s] = f[s] + gets
      <3>1. PICK gets \in Int : /\ gets <= pays
                                /\ h[s] = f[s] - (IF s = b THEN pays ELSE 0)
                                               + (IF s = s THEN gets ELSE 0)
        BY <1>9
      <3>2. f[s] \in Int
        BY <1>3, <1>5
      <3> QED
        BY <1>11, <3>1, <3>2
    <2>2. h[b] = f[b] - pays
      <3>1. PICK got \in Int : h[b] = f[b] - (IF b = b THEN pays ELSE 0)
                                           + (IF b = s THEN got ELSE 0)
        BY <1>9
      <3>2. f[b] \in Int
        BY <1>3, <1>5
      <3> QED
        BY <1>7, <1>11, <3>1, <3>2
    <2>3. PICK mid : mid = [f EXCEPT ![b] = h[b]]
      OBVIOUS
    <2>4. mid \in [Players -> Int] /\ mid[b] = h[b] /\ \A p \in Players \ {b} : mid[p] = f[p]
      BY <1>3, <1>5, <2>3
    <2>5. SumFunctionOnSet(mid, Players) = SumFunctionOnSet(f, Players) + (h[b] - f[b])
      BY <1>3, <1>5, <2>4, PlayersAssumption, SumChange
    <2>6. \A p \in Players \ {s} : h[p] = mid[p]
      BY <1>8, <1>11, <2>4
    <2>7. SumFunctionOnSet(h, Players) = SumFunctionOnSet(mid, Players) + (h[s] - mid[s])
      BY <1>3, <1>5, <2>4, <2>6, PlayersAssumption, SumChange
    <2>8. mid[s] = f[s]
      BY <1>3, <1>11, <2>4
    <2>9. f[s] \in Int /\ f[b] \in Int
      BY <1>3, <1>5
    <2> QED
      BY <1>5, <1>7, <2>1, <2>2, <2>5, <2>7, <2>8, <2>9
  <1> QED
    BY <1>10, <1>11

(* Trading creates no money: as long as no write fails and the process     *)
(* does not stop, no step of a call leaves the players more cash than they *)
(* had together, whatever charges apply and also when they trade with      *)
(* themselves or the cache fails.                                          *)
THEOREM NoneCreated == Spec => NoMoneyCreated
  <1>1. ASSUME TypeInv, TypeInv', [Next]_vars
        PROVE  [faults' \subseteq {"cache"} => TotalCash' <= TotalCash]_vars
    <2> SUFFICES ASSUME faults' \subseteq {"cache"} PROVE TotalCash' <= TotalCash
      OBVIOUS
    <2>1. CASE ApplyTrade
      BY <1>1, <2>1, TradeCostsMoney
    <2>2. CASE ~ApplyTrade
      <3>1. PICK f, h : f = CashHeld /\ h = CashHeld'
        OBVIOUS
      <3>2. /\ f \in [Players -> Int] /\ h \in [Players -> Int]
            /\ TotalCash = SumFunctionOnSet(f, Players)
            /\ TotalCash' = SumFunctionOnSet(h, Players) /\ TotalCash \in Int
        BY <1>1, <3>1, CashHeldFacts
      <3>3. ASSUME NEW p \in Players PROVE h[p] = f[p]
        <4>1. Ledger(p)'.cash = Ledger(p).cash
          BY <1>1, <2>2, HoldingsMove DEF SameHoldings
        <4> QED
          BY <3>1, <4>1, CashHeldBy
      <3>4. SumFunctionOnSet(h, Players) = SumFunctionOnSet(f, Players)
        BY <3>3, PlayersAssumption, SumAlike
      <3> QED
        BY <3>2, <3>4
    <2> QED
      BY <2>1, <2>2
  <1> QED
    BY <1>1, TypesHold, PTL DEF Spec, NoMoneyCreated

----------------------------------------------------------------------------
(* The open orders and the book                                            *)

(* The trades of the current call not applied yet, and the order each of   *)
(* them filled.                                                            *)
Placing == phase \in {"placing", "placed"}

Pending == IF Placing THEN (settled + 1)..Len(trades) ELSE {}

Maker(t) == IF t.aggressor = "buy" THEN t.sellOrder ELSE t.buyOrder

(* The open order id wants rem more, when the pending trades are applied.  *)
Agrees(id, rem) ==
    /\ \A i \in Pending : Maker(trades[i]) = id => openOrders[id].rem = rem + trades[i].qty
    /\ (\A i \in Pending : Maker(trades[i]) # id) => openOrders[id].rem = rem

IdsOK ==
    /\ \A o \in Book!Resting : o.id \in issued
    /\ \A o, m \in Book!Resting : o.id = m.id => o = m
    /\ DOMAIN openOrders \subseteq issued
    /\ Placing => incoming.id \in issued \ (DOMAIN openOrders \cup ToSet(removed))
    /\ phase = "placing" => \A o \in Book!Resting : o.id # incoming.id
    /\ phase = "placed" => \A o \in Book!Resting : o.id = incoming.id => o = incoming
    /\ phase = "placed" /\ Book!Rests(incoming) => incoming \in Book!Resting
    /\ phase = "placed" /\ incoming \in Book!Resting => Book!Rests(incoming)

TradeOK(t) ==
    /\ t.aggressor = incoming.side /\ t.qty > 0
    /\ (IF t.aggressor = "buy" THEN t.buyOrder ELSE t.sellOrder) = incoming.id
    /\ (IF t.aggressor = "buy" THEN t.buyer ELSE t.seller) = incoming.player
    /\ Maker(t) \in DOMAIN openOrders
    /\ openOrders[Maker(t)].player = (IF t.aggressor = "buy" THEN t.seller ELSE t.buyer)
    /\ openOrders[Maker(t)].side # incoming.side
    /\ openOrders[Maker(t)].price = t.price

TradesOK ==
    /\ \A i \in Pending : TradeOK(trades[i])
    /\ \A i, j \in Pending : Maker(trades[i]) = Maker(trades[j]) => i = j
    /\ phase = "placing" =>
          \A i \in Pending, o \in Book!Resting : Maker(trades[i]) = o.id => incoming.rem = 0

OrdersOK ==
    /\ \A o \in Book!Resting :
          \/ phase = "placed" /\ o = incoming
          \/ /\ o.id \in DOMAIN openOrders /\ Agrees(o.id, o.rem)
             /\ openOrders[o.id].player = o.player /\ openOrders[o.id].side = o.side
             /\ openOrders[o.id].price = o.price
    /\ \A id \in DOMAIN openOrders :
          (\A o \in Book!Resting : o.id # id) => id \in ToSet(removed) /\ Agrees(id, 0)
    /\ \A id \in ToSet(removed), o \in Book!Resting : o.id # id

Mirror == IdsOK /\ TradesOK /\ OrdersOK

(* ... between its trades and the next order.                              *)
AtRest ==
    /\ \A o \in Book!Resting : o.id \in issued
    /\ \A o, m \in Book!Resting : o.id = m.id => o = m
    /\ DOMAIN openOrders \subseteq issued
    /\ \A o \in Book!Resting :
          /\ o.id \in DOMAIN openOrders /\ openOrders[o.id].rem = o.rem
          /\ openOrders[o.id].player = o.player /\ openOrders[o.id].side = o.side
          /\ openOrders[o.id].price = o.price
    /\ \A id \in DOMAIN openOrders :
          (\A o \in Book!Resting : o.id # id) => id \in ToSet(removed) /\ openOrders[id].rem = 0
    /\ \A id \in ToSet(removed), o \in Book!Resting : o.id # id

LEMMA MirrorAtRest == ASSUME ~Placing PROVE Mirror <=> AtRest
  <1>1. Pending = {} /\ phase # "placing" /\ phase # "placed"
    BY DEF Pending, Placing
  <1>2. IdsOK <=> /\ \A o \in Book!Resting : o.id \in issued
                  /\ \A o, m \in Book!Resting : o.id = m.id => o = m
                  /\ DOMAIN openOrders \subseteq issued
    BY <1>1 DEF IdsOK, Placing
  <1>3. TradesOK
    BY <1>1 DEF TradesOK
  <1>4. ASSUME NEW id, NEW rem PROVE Agrees(id, rem) <=> openOrders[id].rem = rem
    BY <1>1 DEF Agrees
  <1>5. OrdersOK <=> /\ \A o \in Book!Resting :
                           /\ o.id \in DOMAIN openOrders /\ openOrders[o.id].rem = o.rem
                           /\ openOrders[o.id].player = o.player /\ openOrders[o.id].side = o.side
                           /\ openOrders[o.id].price = o.price
                     /\ \A id \in DOMAIN openOrders :
                           (\A o \in Book!Resting : o.id # id) =>
                               id \in ToSet(removed) /\ openOrders[id].rem = 0
                     /\ \A id \in ToSet(removed), o \in Book!Resting : o.id # id
    BY <1>1, <1>4 DEF OrdersOK
  <1> QED
    BY <1>2, <1>3, <1>5 DEF Mirror, AtRest

LEMMA MirrorAtRestNext == ASSUME ~Placing' PROVE Mirror' <=> AtRest'
  <1>1. Pending' = {} /\ phase' # "placing" /\ phase' # "placed"
    BY DEF Pending, Placing
  <1>2. TradesOK'
    BY <1>1 DEF TradesOK
  <1> QED
    BY <1>1, <1>2 DEF Mirror, AtRest, IdsOK, OrdersOK, Agrees, Placing

LEMMA ListAsSet ==
    ASSUME NEW S, NEW q \in Seq(S)
    PROVE  /\ ToSet(<<>>) = {}
           /\ \A x \in S : ToSet(Append(q, x)) = ToSet(q) \cup {x}
           /\ q # <<>> => Head(q) \in S /\ ToSet(q) = {Head(q)} \cup ToSet(Tail(q))
  <1>1. ToSet(<<>>) = {}
    BY DEF ToSet
  <1>2. ASSUME NEW x \in S PROVE ToSet(Append(q, x)) = ToSet(q) \cup {x}
    <2>1. PICK a : a = Append(q, x)
      OBVIOUS
    <2>2. PICK n : n = Len(q)
      OBVIOUS
    <2>3. /\ n \in Nat /\ DOMAIN q = 1..n /\ DOMAIN a = 1..(n + 1) /\ a[n + 1] = x
          /\ \A i \in 1..n : a[i] = q[i]
      BY <2>1, <2>2
    <2>4. ToSet(q) = {q[i] : i \in 1..n} /\ ToSet(a) = {a[i] : i \in 1..(n + 1)}
      BY <2>3 DEF ToSet
    <2>5. \A i \in 1..(n + 1) : i \in 1..n \/ i = n + 1
      BY <2>3
    <2>6. n + 1 \in 1..(n + 1) /\ \A i \in 1..n : i \in 1..(n + 1)
      BY <2>3
    <2>7. {a[i] : i \in 1..(n + 1)} = {q[i] : i \in 1..n} \cup {x}
      BY <2>3, <2>5, <2>6
    <2> QED
      BY <2>1, <2>4, <2>7
  <1>3. ASSUME q # <<>> PROVE Head(q) \in S /\ ToSet(q) = {Head(q)} \cup ToSet(Tail(q))
    <2>1. /\ Len(q) \in Nat /\ Len(q) > 0 /\ Tail(q) \in Seq(S) /\ Len(Tail(q)) = Len(q) - 1
          /\ \A i \in 1..(Len(q) - 1) : Tail(q)[i] = q[i + 1]
          /\ Head(q) = q[1] /\ 1 \in 1..Len(q)
      BY <1>3
    <2>2. ToSet(q) = {q[i] : i \in 1..Len(q)} /\ ToSet(Tail(q)) = {Tail(q)[i] : i \in 1..(Len(q) - 1)}
      <3>1. DOMAIN q = 1..Len(q) /\ DOMAIN Tail(q) = 1..(Len(q) - 1)
        BY <2>1
      <3> QED
        BY <3>1 DEF ToSet
    <2>3. ASSUME NEW i \in 1..Len(q) PROVE q[i] \in {Head(q)} \cup ToSet(Tail(q))
      <3>1. CASE i = 1
        BY <2>1, <3>1
      <3>2. CASE i # 1
        <4>1. i - 1 \in 1..(Len(q) - 1) /\ (i - 1) + 1 = i
          BY <2>1, <3>2
        <4> QED
          BY <2>1, <2>2, <4>1
      <3> QED
        BY <3>1, <3>2
    <2>4. ASSUME NEW i \in 1..(Len(q) - 1) PROVE Tail(q)[i] \in ToSet(q)
      <3>1. i + 1 \in 1..Len(q)
        BY <2>1
      <3> QED
        BY <2>1, <2>2, <3>1
    <2> QED
      BY <2>1, <2>2, <2>3, <2>4
  <1> QED
    BY <1>1, <1>2, <1>3

(* Nothing of this changes when the book and the open orders stay.         *)
LEMMA SameBook ==
    ASSUME UNCHANGED <<levels, prices>>
    PROVE  (Book!Resting)' = Book!Resting
  BY DEF Book!Resting

LEMMA MirrorInit == Init => Mirror
  <1> SUFFICES ASSUME Init PROVE Mirror
    OBVIOUS
  <1>1. Book!Resting = {}
    BY DEF Init, Book!Init, Book!Resting
  <1>2. ~Placing /\ DOMAIN openOrders = {} /\ ToSet(removed) = {}
    BY DEF Init, Placing, ToSet
  <1>3. AtRest
    BY <1>1, <1>2 DEF AtRest
  <1> QED
    BY <1>2, <1>3, MirrorAtRest

(* An order is accepted: its id is new.                                    *)
LEMMA MirrorPlace ==
    ASSUME TypeInv, Mirror, NEW r \in Book!Request, NEW quote \in Quotes, PlaceOrder(r, quote)
    PROVE  Mirror'
  <1>1. ReserveFor(r, quote) /\ Book!PlaceStart(r) /\ phase' = "placing"
        /\ UNCHANGED <<removed, copies, settled, touched, faults>>
    BY DEF PlaceOrder
  <1>2. /\ phase = "idle" /\ r.id \notin issued /\ issued' = issued \cup {r.id}
        /\ UNCHANGED openOrders
    BY <1>1, ReserveForEffect
  <1>3. settled = 0 /\ ~Placing /\ AtRest /\ ToSet(removed) = {}
    <2>1. settled = 0 /\ ~Placing /\ removed = <<>> /\ removed \in Seq(OrderIds)
      BY <1>2 DEF TypeInv, TypeOK, CallOK, Placing
    <2> QED
      BY <2>1, ListAsSet, MirrorAtRest
  <1>4. (Book!Resting)' = Book!Resting /\ trades' = <<>> /\ incoming'.id = r.id
    BY <1>1, TypesKnown, StartEffect
  <1>5. Pending' = {}
    <2>1. Len(trades') = 0 /\ settled' = 0
      BY <1>1, <1>3, <1>4
    <2> QED
      BY <2>1 DEF Pending
  <1>6. IdsOK'
    BY <1>1, <1>2, <1>3, <1>4 DEF AtRest, IdsOK, Placing
  <1>7. TradesOK'
    BY <1>5 DEF TradesOK
  <1>8. OrdersOK'
    BY <1>1, <1>2, <1>3, <1>4, <1>5 DEF AtRest, OrdersOK, Agrees
  <1> QED
    BY <1>6, <1>7, <1>8 DEF Mirror

(* A call that fails, ends or saves leaves both sides as they were.        *)
LEMMA MirrorStays ==
    ASSUME TypeInv, Mirror, ~Placing, ~Placing', UNCHANGED <<levels, prices, openOrders>>,
           ToSet(removed') = ToSet(removed), issued \subseteq issued'
    PROVE  Mirror'
  <1>1. AtRest /\ (Book!Resting)' = Book!Resting
    BY MirrorAtRest, SameBook
  <1>2. AtRest'
    BY <1>1 DEF AtRest
  <1> QED
    BY <1>2, MirrorAtRestNext

LEMMA MirrorSame ==
    ASSUME Mirror, UNCHANGED <<bookVars, openOrders, phase, settled, removed, issued>>
    PROVE  Mirror'
  <1>1. (Book!Resting)' = Book!Resting /\ UNCHANGED <<incoming, trades>>
    BY SameBook DEF bookVars
  <1>2. Pending' = Pending
    BY <1>1 DEF Pending, Placing
  <1> QED
    BY <1>1, <1>2 DEF Mirror, IdsOK, TradesOK, OrdersOK, TradeOK, Agrees, Maker, Placing, Book!Rests

(* A trade in the book: the open order of the maker waits for it.          *)
LEMMA MirrorMatch ==
    ASSUME TypeInv, Mirror, Match
    PROVE  Mirror'
  <1>1. PICK m, q, t, R, R2, n, after :
           /\ m = Book!BestOrder(Book!Opposite(incoming.side)) /\ q = Book!Fill(incoming, m)
           /\ t = [price |-> m.price, qty |-> q, aggressor |-> incoming.side,
                   buyOrder  |-> (IF incoming.side = "buy" THEN incoming ELSE m).id,
                   sellOrder |-> (IF incoming.side = "buy" THEN m ELSE incoming).id,
                   buyer     |-> (IF incoming.side = "buy" THEN incoming ELSE m).player,
                   seller    |-> (IF incoming.side = "buy" THEN m ELSE incoming).player]
           /\ R = Book!Resting /\ R2 = (Book!Resting)' /\ n = Len(trades)
           /\ after = [m EXCEPT !.rem = m.rem - q]
    OBVIOUS
  <1>2. /\ Book!MatchStep
        /\ removed' = IF m.rem = q THEN Append(removed, m.id) ELSE removed
        /\ UNCHANGED <<openOrders, phase, settled, issued>>
    BY <1>1 DEF Match
  <1>3. /\ incoming \in Book!Order /\ trades \in Seq(Book!Trade) /\ BP!IInv
        /\ removed \in Seq(OrderIds)
    BY TypesKnown DEF TypeOK
  <1>4. /\ m \in R /\ m \in Book!Order /\ m.side # incoming.side
        /\ q \in Nat /\ q > 0 /\ q <= m.rem /\ q <= incoming.rem
        /\ q = m.rem \/ q = incoming.rem
        /\ R2 = (R \ {m}) \cup (IF m.rem = q THEN {} ELSE {after})
        /\ incoming' = [incoming EXCEPT !.rem = incoming.rem - q]
        /\ trades' = Append(trades, t)
        /\ pc = "matching" /\ incoming.rem > 0
    BY <1>1, <1>2, <1>3, MatchEffect
  <1>5. /\ phase = "placing" /\ settled = 0 /\ phase' = "placing" /\ settled' = 0
        /\ incoming.rem \in Nat /\ m.rem \in Nat /\ m.side \in Book!Side /\ incoming.side \in Book!Side
        /\ m.id \in OrderIds
    BY <1>2, <1>3, <1>4 DEF TypeInv, CallOK, Book!Order, Book!Side
  <1>6. /\ incoming'.id = incoming.id /\ incoming'.side = incoming.side
        /\ incoming'.player = incoming.player /\ incoming'.rem = incoming.rem - q
        /\ incoming'.type = incoming.type
        /\ after.id = m.id /\ after.player = m.player /\ after.side = m.side
        /\ after.price = m.price /\ after.rem = m.rem - q
    BY <1>1, <1>3, <1>4 DEF Book!Order
  <1>7. /\ n \in Nat /\ Len(trades') = n + 1 /\ trades'[n + 1] = t
        /\ \A i \in 1..n : trades'[i] = trades[i]
    BY <1>1, <1>3, <1>4
  <1>8. Pending = 1..n /\ Pending' = 1..(n + 1)
    BY <1>1, <1>5, <1>7 DEF Pending, Placing
  <1>9. /\ \A i \in Pending' : i \in Pending \/ i = n + 1
        /\ \A i \in Pending : i # n + 1 /\ trades'[i] = trades[i] /\ i \in Pending'
        /\ n + 1 \in Pending' /\ trades'[n + 1] = t
    BY <1>7, <1>8
  <1>10. /\ Maker(t) = m.id /\ t.qty = q /\ t.aggressor = incoming.side /\ t.price = m.price
         /\ (IF t.aggressor = "buy" THEN t.buyOrder ELSE t.sellOrder) = incoming.id
         /\ (IF t.aggressor = "buy" THEN t.buyer ELSE t.seller) = incoming.player
         /\ (IF t.aggressor = "buy" THEN t.seller ELSE t.buyer) = m.player
    BY <1>1 DEF Maker
  <1>11. /\ \A o \in R : o.id \in issued /\ o.id # incoming.id
         /\ \A o, x \in R : o.id = x.id => o = x
         /\ DOMAIN openOrders \subseteq issued
         /\ incoming.id \in issued \ (DOMAIN openOrders \cup ToSet(removed))
    BY <1>1, <1>5 DEF Mirror, IdsOK, Placing
  <1>12. /\ \A i \in Pending : TradeOK(trades[i])
         /\ \A i, j \in Pending : Maker(trades[i]) = Maker(trades[j]) => i = j
         /\ \A i \in Pending, o \in R : Maker(trades[i]) # o.id
    BY <1>1, <1>4, <1>5 DEF Mirror, TradesOK
  <1>13. /\ \A o \in R : /\ o.id \in DOMAIN openOrders /\ openOrders[o.id].rem = o.rem
                         /\ openOrders[o.id].player = o.player /\ openOrders[o.id].side = o.side
                         /\ openOrders[o.id].price = o.price
         /\ \A id \in DOMAIN openOrders :
               (\A o \in R : o.id # id) => id \in ToSet(removed) /\ Agrees(id, 0)
         /\ \A id \in ToSet(removed), o \in R : o.id # id
    BY <1>1, <1>5, <1>12 DEF Mirror, OrdersOK, Agrees
  <1>14. \A o \in R2 : o \in R \ {m} \/ (o = after /\ m.rem # q)
    BY <1>4
  <1>15. ToSet(removed') = ToSet(removed) \cup (IF m.rem = q THEN {m.id} ELSE {})
    <2>1. ToSet(Append(removed, m.id)) = ToSet(removed) \cup {m.id}
      BY <1>3, <1>5, ListAsSet
    <2> QED
      BY <1>2, <2>1
  <1>16. \A i, j \in Pending : Maker(trades[i]) = Maker(trades[j]) => i = j
    BY <1>12
  <1>17. \A i \in Pending' :
            \/ i = n + 1 /\ trades'[i] = t /\ Maker(trades'[i]) = m.id /\ trades'[i].qty = q
            \/ /\ i \in Pending /\ i # n + 1 /\ trades'[i] = trades[i]
               /\ Maker(trades'[i]) = Maker(trades[i]) /\ Maker(trades[i]) # m.id
    BY <1>4, <1>9, <1>10, <1>12
  <1>18. IdsOK'
    <2>1. \A o \in R2 : o.id \in issued /\ o.id # incoming.id
      BY <1>4, <1>6, <1>11, <1>14
    <2>2. \A o, x \in R2 : o.id = x.id => o = x
      BY <1>4, <1>6, <1>11, <1>14
    <2>3. incoming.id \notin ToSet(removed')
      BY <1>4, <1>11, <1>15
    <2> QED
      BY <1>1, <1>2, <1>5, <1>6, <1>11, <2>1, <2>2, <2>3 DEF IdsOK, Placing
  <1>19. TradesOK'
    <2>1. ASSUME NEW i \in Pending', NEW u, u = trades'[i] PROVE TradeOK(u)'
      <3>1. CASE i \in Pending
        <4>1. u = trades[i] /\ TradeOK(u)
          BY <1>9, <1>12, <2>1, <3>1
        <4> QED
          BY <1>2, <1>6, <4>1 DEF TradeOK
      <3>2. CASE i = n + 1
        <4>1. m.id \in DOMAIN openOrders /\ openOrders[m.id].player = m.player
              /\ openOrders[m.id].side = m.side /\ openOrders[m.id].price = m.price
          BY <1>4, <1>13
        <4>2. u = t /\ q > 0 /\ m.side # incoming.side
          BY <1>4, <1>9, <2>1, <3>2
        <4>3. UNCHANGED openOrders /\ incoming'.id = incoming.id
              /\ incoming'.side = incoming.side /\ incoming'.player = incoming.player
          BY <1>2, <1>6
        <4> QED
          BY <1>10, <4>1, <4>2, <4>3 DEF TradeOK
      <3> QED
        BY <1>9, <2>1, <3>1, <3>2
    <2>2. ASSUME NEW i \in Pending', NEW j \in Pending', Maker(trades'[i]) = Maker(trades'[j])
          PROVE  i = j
      <3>1. CASE i = n + 1
        <4>1. Maker(trades'[j]) = m.id
          BY <1>17, <2>2, <3>1
        <4>2. j = n + 1
          BY <1>17, <4>1
        <4> QED
          BY <3>1, <4>2
      <3>2. CASE i # n + 1
        <4>1. i \in Pending /\ Maker(trades'[i]) = Maker(trades[i]) /\ Maker(trades[i]) # m.id
          BY <1>17, <3>2
        <4>2. Maker(trades'[j]) # m.id
          BY ONLY <2>2, <4>1, Zenon
        <4>3. j \in Pending /\ Maker(trades'[j]) = Maker(trades[j])
          BY <1>17, <4>2
        <4> QED
          BY <1>16, <2>2, <4>1, <4>3
      <3> QED
        BY <3>1, <3>2
    <2>3. ASSUME NEW i \in Pending', NEW o \in R2, Maker(trades'[i]) = o.id PROVE incoming'.rem = 0
      <3>1. CASE i # n + 1
        BY <1>6, <1>12, <1>14, <1>17, <2>3, <3>1
      <3>2. CASE i = n + 1
        <4>1. o = after /\ m.rem # q
          BY <1>4, <1>11, <1>14, <1>17, <2>3, <3>2
        <4> QED
          BY <1>4, <1>5, <1>6, <4>1
      <3> QED
        BY <1>9, <3>1, <3>2
    <2> QED
      BY <1>1, <2>1, <2>2, <2>3 DEF TradesOK, Maker, TradeOK
  <1>20. OrdersOK'
    <2>1. ASSUME NEW o \in R2
          PROVE  /\ o.id \in DOMAIN openOrders' /\ openOrders'[o.id].player = o.player
                 /\ openOrders'[o.id].side = o.side /\ openOrders'[o.id].price = o.price
      BY <1>2, <1>4, <1>6, <1>13, <1>14
    <2>2. ASSUME NEW o \in R2, NEW i \in Pending', Maker(trades'[i]) = o.id
          PROVE  openOrders'[o.id].rem = o.rem + trades'[i].qty
      <3>1. CASE i # n + 1
        BY <1>6, <1>12, <1>14, <1>17, <2>2, <3>1
      <3>2. CASE i = n + 1
        <4>1. o = after
          BY <1>4, <1>11, <1>14, <1>17, <2>2, <3>2
        <4>2. openOrders[m.id].rem = m.rem
          BY <1>4, <1>13
        <4>3. openOrders'[o.id].rem = m.rem /\ o.rem = m.rem - q /\ trades'[i].qty = q
          BY <1>2, <1>6, <1>17, <3>2, <4>1, <4>2
        <4> QED
          BY <1>4, <1>5, <4>3
      <3> QED
        BY <1>9, <3>1, <3>2
    <2>3. ASSUME NEW o \in R2, \A i \in Pending' : Maker(trades'[i]) # o.id
          PROVE  openOrders'[o.id].rem = o.rem
      <3>1. o \in R
        BY <1>6, <1>9, <1>10, <1>14, <2>3
      <3> QED
        BY <1>2, <1>13, <3>1
    <2>4. ASSUME NEW id \in DOMAIN openOrders', \A o \in R2 : o.id # id
          PROVE  /\ id \in ToSet(removed')
                 /\ \A i \in Pending' : Maker(trades'[i]) = id =>
                                            openOrders'[id].rem = 0 + trades'[i].qty
                 /\ (\A i \in Pending' : Maker(trades'[i]) # id) => openOrders'[id].rem = 0
      <3>1. CASE id = m.id
        <4>1. m.rem = q
          BY <1>4, <1>6, <2>4, <3>1
        <4>2. id \in ToSet(removed')
          BY <1>15, <3>1, <4>1
        <4>3. openOrders'[id].rem = q
          BY <1>2, <1>4, <1>13, <3>1, <4>1
        <4>4. \A i \in Pending' : Maker(trades'[i]) = id => trades'[i].qty = q
          BY <1>17, <3>1
        <4>5. n + 1 \in Pending' /\ Maker(trades'[n + 1]) = id
          BY <1>9, <1>10, <3>1
        <4> QED
          <5>1. ASSUME NEW i \in Pending', Maker(trades'[i]) = id
                PROVE  openOrders'[id].rem = 0 + trades'[i].qty
            <6>1. trades'[i].qty = q
              BY <4>4, <5>1
            <6>2. q = 0 + q
              BY <1>4
            <6> QED
              BY <4>3, <6>1, <6>2
          <5> QED
            BY <4>2, <4>5, <5>1
      <3>2. CASE id # m.id
        <4>1. \A o \in R : o.id # id
          BY <1>4, <2>4, <3>2
        <4>2. id \in ToSet(removed) /\ Agrees(id, 0)
          BY <1>2, <1>13, <2>4, <4>1
        <4>3. \A i \in Pending' : Maker(trades'[i]) = id => i \in Pending
          BY <1>9, <1>10, <3>2
        <4> QED
          BY <1>2, <1>9, <1>15, <4>2, <4>3 DEF Agrees
      <3> QED
        BY <3>1, <3>2
    <2>5. ASSUME NEW id \in ToSet(removed'), NEW o \in R2 PROVE o.id # id
      <3>1. id \in ToSet(removed) \/ (id = m.id /\ m.rem = q)
        BY <1>15, <2>5
      <3> QED
        BY <1>4, <1>6, <1>11, <1>13, <1>14, <3>1
    <2> QED
      BY <1>1, <2>1, <2>2, <2>3, <2>4, <2>5 DEF OrdersOK, Agrees, Maker
  <1> QED
    BY <1>18, <1>19, <1>20 DEF Mirror

(* The book is done with the order: it rests now, or it does not.          *)
LEMMA MirrorFinish ==
    ASSUME TypeInv, Mirror, Finish
    PROVE  Mirror'
  <1>1. PICK R, R2 : R = Book!Resting /\ R2 = (Book!Resting)'
    OBVIOUS
  <1>2. /\ Book!PlaceFinish /\ phase' = "placed"
        /\ UNCHANGED <<openOrders, removed, settled, issued>>
    BY DEF Finish
  <1>3. /\ R2 = IF Book!Rests(incoming) THEN R \cup {incoming} ELSE R
        /\ pc = "matching" /\ UNCHANGED <<incoming, trades>>
    BY <1>1, <1>2, TypesKnown, FinishEffect
  <1>4. phase = "placing"
    BY <1>3 DEF TypeInv, CallOK
  <1>5. Pending' = Pending
    BY <1>2, <1>3, <1>4 DEF Pending, Placing
  <1>6. IdsOK'
    BY <1>1, <1>2, <1>3, <1>4 DEF Mirror, IdsOK, Placing, Book!Rests
  <1>7. TradesOK'
    BY <1>2, <1>3, <1>5 DEF Mirror, TradesOK, TradeOK, Maker
  <1>8. OrdersOK'
    <2>1. ASSUME NEW id \in ToSet(removed), NEW o \in R2 PROVE o.id # id
      BY <1>1, <1>2, <1>3, <1>4, <2>1 DEF Mirror, OrdersOK, IdsOK, Placing
    <2>2. \A o \in R2 : o \in R \/ o = incoming
      BY <1>3
    <2> QED
      BY <1>1, <1>2, <1>3, <1>4, <1>5, <2>1, <2>2 DEF Mirror, OrdersOK, Agrees, Maker
  <1> QED
    BY <1>6, <1>7, <1>8 DEF Mirror

(* What applying a trade does to the open orders: the maker's is filled.   *)
LEMMA ApplyFills ==
    ASSUME TypeInv, Mirror, ApplyTrade, NEW t, t = trades[settled + 1]
    PROVE  /\ settled + 1 \in Pending /\ TradeOK(t) /\ t \in Book!Trade
           /\ Pending' = Pending \ {settled + 1}
           /\ DOMAIN openOrders' = DOMAIN openOrders
           /\ \A id \in DOMAIN openOrders :
                 /\ openOrders'[id].player = openOrders[id].player
                 /\ openOrders'[id].side = openOrders[id].side
                 /\ openOrders'[id].price = openOrders[id].price
                 /\ openOrders'[id].rem = IF id = Maker(t) THEN openOrders[id].rem - t.qty
                                          ELSE openOrders[id].rem
                 /\ openOrders'[id].cash = IF id = Maker(t) /\ openOrders[id].side = "buy"
                                           THEN Less(openOrders[id].cash, BuyerPays(t))
                                           ELSE openOrders[id].cash
                 /\ openOrders'[id].shares = IF id = Maker(t) /\ openOrders[id].side = "sell"
                                             THEN Less(openOrders[id].shares, t.qty)
                                             ELSE openOrders[id].shares
  <1>1. /\ t \in Book!Trade /\ settled + 1 \in 1..Len(trades) /\ phase = "placed"
        /\ settled' = settled + 1 /\ UNCHANGED <<trades, phase>>
        /\ openOrders' = Filled(Filled(openOrders, t.buyOrder, t), t.sellOrder, t)
    BY ApplyTradeEffect DEF ApplyTrade, bookVars
  <1>2. settled \in Nat /\ Len(trades) \in Nat
    BY TypesKnown DEF TypeOK
  <1>3. /\ Pending = (settled + 1)..Len(trades) /\ Pending' = (settled + 2)..Len(trades)
    BY <1>1, <1>2 DEF Pending, Placing
  <1>4. settled + 1 \in Pending /\ Pending' = Pending \ {settled + 1}
    BY <1>1, <1>2, <1>3
  <1>5. TradeOK(t) /\ incoming.id \notin DOMAIN openOrders
    BY <1>1, <1>4 DEF Mirror, TradesOK, IdsOK, Placing
  <1>6. PICK one : one = Filled(openOrders, t.buyOrder, t)
    OBVIOUS
  <1>7. PICK two : two = Filled(one, t.sellOrder, t)
    OBVIOUS
  <1>8. openOrders' = two /\ OpenTyped(openOrders)
    BY <1>1, <1>6, <1>7, TypesKnown
  <1>9. CASE t.aggressor = "buy"
    <2>1. t.buyOrder = incoming.id /\ t.sellOrder = Maker(t) /\ Maker(t) # incoming.id
      BY <1>5, <1>9 DEF TradeOK, Maker
    <2>2. one = openOrders
      BY <1>6, <2>1 DEF Filled, IsIncoming
    <2>3. two = Filled(openOrders, Maker(t), t) /\ ~IsIncoming(Maker(t))
      BY <1>7, <2>1, <2>2 DEF IsIncoming
    <2> QED
      BY <1>1, <1>4, <1>5, <1>8, <2>3, FilledFields
  <1>10. CASE t.aggressor # "buy"
    <2>1. t.sellOrder = incoming.id /\ t.buyOrder = Maker(t) /\ Maker(t) # incoming.id
      BY <1>5, <1>10 DEF TradeOK, Maker
    <2>2. one = Filled(openOrders, Maker(t), t) /\ ~IsIncoming(Maker(t))
      BY <1>6, <2>1 DEF IsIncoming
    <2>3. two = one
      BY <1>7, <2>1 DEF Filled, IsIncoming
    <2> QED
      BY <1>1, <1>4, <1>5, <1>8, <2>2, <2>3, FilledFields
  <1> QED
    BY <1>9, <1>10

LEMMA MirrorApply ==
    ASSUME TypeInv, Mirror, ApplyTrade
    PROVE  Mirror'
  <1>1. PICK t, k, R : t = trades[k] /\ k = settled + 1 /\ R = Book!Resting
    OBVIOUS
  <1>2. /\ (Book!Resting)' = R /\ phase = "placed"
        /\ UNCHANGED <<incoming, trades, phase, removed, issued>>
    BY <1>1, SameBook DEF ApplyTrade, bookVars
  <1>3. /\ k \in Pending /\ TradeOK(t) /\ t \in Book!Trade /\ Pending' = Pending \ {k}
        /\ DOMAIN openOrders' = DOMAIN openOrders
        /\ \A id \in DOMAIN openOrders :
              /\ openOrders'[id].player = openOrders[id].player
              /\ openOrders'[id].side = openOrders[id].side
              /\ openOrders'[id].price = openOrders[id].price
              /\ openOrders'[id].rem = IF id = Maker(t) THEN openOrders[id].rem - t.qty
                                       ELSE openOrders[id].rem
    BY <1>1, ApplyFills
  <1>4. t.qty \in Nat
    BY <1>3 DEF Book!Trade
  <1>5. \A i \in Pending : i # k => i \in Pending' /\ Maker(trades[i]) # Maker(t)
    BY <1>1, <1>3 DEF Mirror, TradesOK
  <1>6. IdsOK'
    BY <1>1, <1>2, <1>3 DEF Mirror, IdsOK, Placing, Book!Rests
  <1>7. TradesOK'
    <2>1. ASSUME NEW u, TradeOK(u) PROVE TradeOK(u)'
      <3>1. Maker(u) \in DOMAIN openOrders
        BY <2>1 DEF TradeOK
      <3> QED
        BY <1>2, <1>3, <2>1, <3>1 DEF TradeOK
    <2>2. ASSUME NEW i \in Pending', NEW u, u = trades[i] PROVE TradeOK(u)'
      BY <1>3, <2>1, <2>2 DEF Mirror, TradesOK
    <2>3. \A i, j \in Pending' : Maker(trades[i]) = Maker(trades[j]) => i = j
      BY <1>3 DEF Mirror, TradesOK
    <2> QED
      BY <1>2, <2>2, <2>3 DEF TradesOK, TradeOK, Maker
  <1>8. ASSUME NEW id \in DOMAIN openOrders, NEW rem \in Int, Agrees(id, rem)
        PROVE  /\ \A i \in Pending' : Maker(trades[i]) = id =>
                                          openOrders'[id].rem = rem + trades[i].qty
               /\ (\A i \in Pending' : Maker(trades[i]) # id) => openOrders'[id].rem = rem
    <2>1. CASE id = Maker(t)
      <3>1. openOrders[id].rem = rem + t.qty
        BY <1>1, <1>3, <1>8, <2>1 DEF Agrees
      <3>2. openOrders'[id].rem = rem
        BY <1>3, <1>4, <2>1, <3>1
      <3> QED
        BY <1>3, <1>5, <2>1, <3>2
    <2>2. CASE id # Maker(t)
      BY <1>1, <1>3, <1>5, <1>8, <2>2 DEF Agrees
    <2> QED
      BY <2>1, <2>2
  <1>9. \A o \in R : o.rem \in Int
    BY <1>1, TypesKnown, RestingTypes DEF Book!Order
  <1>10. OrdersOK'
    <2>1. ASSUME NEW o \in R
          PROVE  \/ o = incoming
                 \/ /\ o.id \in DOMAIN openOrders /\ Agrees(o.id, o.rem)
                    /\ openOrders[o.id].player = o.player /\ openOrders[o.id].side = o.side
                    /\ openOrders[o.id].price = o.price
      BY <1>1 DEF Mirror, OrdersOK
    <2>2. ASSUME NEW id \in DOMAIN openOrders, \A o \in R : o.id # id
          PROVE  id \in ToSet(removed) /\ Agrees(id, 0)
      BY <1>1, <2>2 DEF Mirror, OrdersOK
    <2>3. \A id \in ToSet(removed), o \in R : o.id # id
      BY <1>1 DEF Mirror, OrdersOK
    <2> HIDE <1>3
    <2>4. ASSUME NEW o \in R
          PROVE  \/ o = incoming
                 \/ /\ o.id \in DOMAIN openOrders'
                    /\ \A i \in Pending' : Maker(trades[i]) = o.id =>
                                               openOrders'[o.id].rem = o.rem + trades[i].qty
                    /\ (\A i \in Pending' : Maker(trades[i]) # o.id) =>
                                               openOrders'[o.id].rem = o.rem
                    /\ openOrders'[o.id].player = o.player /\ openOrders'[o.id].side = o.side
                    /\ openOrders'[o.id].price = o.price
      BY <1>3, <1>8, <1>9, <2>1
    <2>5. ASSUME NEW id \in DOMAIN openOrders', \A o \in R : o.id # id
          PROVE  /\ id \in ToSet(removed)
                 /\ \A i \in Pending' : Maker(trades[i]) = id =>
                                            openOrders'[id].rem = 0 + trades[i].qty
                 /\ (\A i \in Pending' : Maker(trades[i]) # id) => openOrders'[id].rem = 0
      <3>1. id \in DOMAIN openOrders
        BY <1>3
      <3> QED
        BY <1>8, <2>2, <2>5, <3>1
    <2> QED
      BY <1>2, <2>3, <2>4, <2>5 DEF OrdersOK, Agrees, Maker
  <1> QED
    BY <1>6, <1>7, <1>10 DEF Mirror

(* All trades are applied: the incoming order rests or is gone.            *)
LEMMA NonePending == ASSUME TypeInv, settled = Len(trades) PROVE Pending = {}
  <1>1. Len(trades) \in Nat
    BY TypesKnown
  <1> QED
    BY <1>1 DEF Pending

LEMMA MirrorRest ==
    ASSUME TypeInv, Mirror, RestIncoming
    PROVE  Mirror'
  <1>1. PICK R : R = Book!Resting
    OBVIOUS
  <1>2. /\ phase = "placed" /\ phase' = "closing" /\ Book!Rests(incoming)
        /\ settled = Len(trades) /\ RestedOrder \in OpenOrder /\ incoming.rem > 0
        /\ DOMAIN openOrders' = DOMAIN openOrders \cup {incoming.id}
        /\ \A id \in DOMAIN openOrders' :
              openOrders'[id] = IF id = incoming.id THEN Trimmed(RestedOrder) ELSE openOrders[id]
        /\ UNCHANGED <<bookVars, removed, issued>>
    BY RestIncomingEffect
  <1>3. Pending = {} /\ ~Placing' /\ (Book!Resting)' = R
    BY <1>1, <1>2, NonePending, SameBook DEF Placing, bookVars
  <1>4. PICK x : x = Trimmed(RestedOrder)
    OBVIOUS
  <1>5. /\ x.player = incoming.player /\ x.side = incoming.side /\ x.price = incoming.price
        /\ x.rem = incoming.rem
    <2>1. RestedOrder.rem > 0
      BY <1>2 DEF RestedOrder
    <2>2. /\ x.player = RestedOrder.player /\ x.side = RestedOrder.side
          /\ x.price = RestedOrder.price /\ x.rem = RestedOrder.rem
      BY <1>2, <1>4, <2>1, TrimmedType
    <2> QED
      BY <2>2 DEF RestedOrder
  <1>6. /\ incoming \in R /\ \A o \in R : o.id = incoming.id => o = incoming
        /\ \A o \in R : o.id \in issued
        /\ \A o, m \in R : o.id = m.id => o = m
        /\ DOMAIN openOrders \subseteq issued /\ incoming.id \in issued
    BY <1>1, <1>2 DEF Mirror, IdsOK, Placing
  <1>7. /\ \A o \in R : o # incoming =>
              /\ o.id \in DOMAIN openOrders /\ openOrders[o.id].rem = o.rem
              /\ openOrders[o.id].player = o.player /\ openOrders[o.id].side = o.side
              /\ openOrders[o.id].price = o.price
        /\ \A id \in DOMAIN openOrders :
              (\A o \in R : o.id # id) => id \in ToSet(removed) /\ openOrders[id].rem = 0
        /\ \A id \in ToSet(removed), o \in R : o.id # id
    BY <1>1, <1>2, <1>3 DEF Mirror, OrdersOK, Agrees
  <1>8. AtRest'
    <2>1. DOMAIN openOrders' \subseteq issued'
      BY <1>2, <1>6
    <2>2. ASSUME NEW o \in R
          PROVE  /\ o.id \in DOMAIN openOrders' /\ openOrders'[o.id].rem = o.rem
                 /\ openOrders'[o.id].player = o.player /\ openOrders'[o.id].side = o.side
                 /\ openOrders'[o.id].price = o.price
      <3>1. CASE o = incoming
        BY <1>2, <1>4, <1>5, <3>1
      <3>2. CASE o # incoming
        BY <1>2, <1>6, <1>7, <3>2
      <3> QED
        BY <3>1, <3>2
    <2>3. ASSUME NEW id \in DOMAIN openOrders', \A o \in R : o.id # id
          PROVE  id \in ToSet(removed') /\ openOrders'[id].rem = 0
      BY <1>2, <1>6, <1>7, <2>3
    <2> QED
      BY <1>2, <1>3, <1>6, <1>7, <2>1, <2>2, <2>3 DEF AtRest
  <1> QED
    BY <1>3, <1>8, MirrorAtRestNext

LEMMA MirrorRelease ==
    ASSUME TypeInv, Mirror, ReleaseIncoming
    PROVE  Mirror'
  <1>1. PICK R : R = Book!Resting
    OBVIOUS
  <1>2. /\ phase = "placed" /\ phase' = "closing" /\ ~Book!Rests(incoming)
        /\ settled = Len(trades) /\ UNCHANGED <<bookVars, openOrders, removed, issued>>
    BY DEF ReleaseIncoming
  <1>3. Pending = {} /\ ~Placing' /\ (Book!Resting)' = R
    BY <1>1, <1>2, NonePending, SameBook DEF Placing, bookVars
  <1>4. incoming \notin R
    BY <1>1, <1>2 DEF Mirror, IdsOK
  <1>5. AtRest'
    BY <1>1, <1>2, <1>3, <1>4 DEF Mirror, IdsOK, OrdersOK, Agrees, AtRest
  <1> QED
    BY <1>3, <1>5, MirrorAtRestNext

(* Closing the call: a removed order is dropped, a touched one is trimmed. *)
LEMMA MirrorCleanup ==
    ASSUME TypeInv, AtRest, NEW id, Cleanup(id), \A o \in Book!Resting : o.id # id,
           UNCHANGED <<levels, prices, issued>>,
           ToSet(removed) \subseteq {id} \cup ToSet(removed'), ToSet(removed') \subseteq ToSet(removed)
    PROVE  AtRest'
  <1>1. (Book!Resting)' = Book!Resting
    BY SameBook
  <1>2. /\ DOMAIN openOrders' = DOMAIN openOrders \ {id}
        /\ \A i \in DOMAIN openOrders' : openOrders'[i] = openOrders[i]
    BY CleanupTypes
  <1> QED
    BY <1>1, <1>2 DEF AtRest

LEMMA MirrorClean ==
    ASSUME TypeInv, Mirror, CleanRemoved
    PROVE  Mirror'
  <1>1. /\ phase = "closing" /\ phase' = "closing" /\ removed # <<>> /\ removed' = Tail(removed)
        /\ Cleanup(Head(removed)) /\ UNCHANGED <<levels, prices, issued>>
    BY DEF CleanRemoved, bookVars
  <1>2. ~Placing /\ ~Placing' /\ AtRest
    BY <1>1, MirrorAtRest DEF Placing
  <1>3. removed \in Seq(OrderIds)
    BY TypesKnown DEF TypeOK
  <1>4. ToSet(removed) = {Head(removed)} \cup ToSet(removed')
    BY <1>1, <1>3, ListAsSet
  <1>5. \A o \in Book!Resting : o.id # Head(removed)
    BY <1>2, <1>4 DEF AtRest
  <1>6. AtRest'
    BY <1>1, <1>2, <1>4, <1>5, MirrorCleanup
  <1> QED
    BY <1>2, <1>6, MirrorAtRestNext

LEMMA MirrorNormalize ==
    ASSUME TypeInv, Mirror, NEW id \in OrderIds, NormalizeTouched(id)
    PROVE  Mirror'
  <1>1. /\ phase = "closing" /\ phase' = "closing" /\ Normalize(id)
        /\ UNCHANGED <<levels, prices, issued, removed, accounts>>
    BY DEF NormalizeTouched, bookVars
  <1>2. ~Placing /\ ~Placing' /\ AtRest /\ (Book!Resting)' = Book!Resting
    BY <1>1, MirrorAtRest, SameBook DEF Placing
  <1>3. removed = <<>> /\ ToSet(removed) = {}
    BY TypesKnown, ListAsSet DEF TypeOK, NormalizeTouched
  <1>4. CASE id \notin DOMAIN openOrders \/ openOrders[id].rem <= 0
    <2>1. Cleanup(id)
      BY <1>1, <1>4, NormalizeCleans
    <2>2. ASSUME NEW o \in Book!Resting PROVE o.id # id
      <3>1. o.id \in DOMAIN openOrders /\ openOrders[o.id].rem = o.rem
        BY <1>2 DEF AtRest
      <3>2. o.rem \in Nat /\ o.rem > 0
        BY TypesKnown, RestingTypes DEF Book!Order
      <3> QED
        BY <1>4, <3>1, <3>2
    <2>3. AtRest'
      BY <1>1, <1>2, <1>3, <2>1, <2>2, MirrorCleanup
    <2> QED
      BY <1>2, <2>3, MirrorAtRestNext
  <1>5. CASE id \in DOMAIN openOrders /\ ~(openOrders[id].rem <= 0)
    <2>1. PICK o : o = openOrders[id]
      OBVIOUS
    <2>2. o \in OpenOrder
      BY <1>5, <2>1, TypesKnown DEF OpenTyped
    <2>3. o.rem > 0
      BY <1>5, <2>1, <2>2 DEF OpenOrder
    <2>4. openOrders' = [openOrders EXCEPT ![id] = Trimmed(o)]
      BY <1>1, <1>5, <2>1 DEF Normalize
    <2>5. PICK x : x = Trimmed(o)
      OBVIOUS
    <2>6. x.player = o.player /\ x.side = o.side /\ x.price = o.price /\ x.rem = o.rem
      BY <2>2, <2>3, <2>5, TrimmedType
    <2>7. /\ DOMAIN openOrders' = DOMAIN openOrders
          /\ \A i \in DOMAIN openOrders :
                /\ openOrders'[i].player = openOrders[i].player
                /\ openOrders'[i].side = openOrders[i].side
                /\ openOrders'[i].price = openOrders[i].price
                /\ openOrders'[i].rem = openOrders[i].rem
      BY <1>5, <2>1, <2>4, <2>5, <2>6
    <2>8. AtRest'
      BY <1>1, <1>2, <2>7 DEF AtRest
    <2> QED
      BY <1>2, <2>8, MirrorAtRestNext
  <1> QED
    BY <1>4, <1>5

LEMMA MirrorCancel ==
    ASSUME TypeInv, Mirror, NEW p, NEW id \in OrderIds, CancelOrder(p, id)
    PROVE  Mirror'
  <1>1. /\ phase = "idle" /\ Book!Cancel(id) /\ openOrders' = Without(id)
        /\ UNCHANGED <<phase, removed, issued>>
    BY DEF CancelOrder, callVars
  <1>2. PICK m \in Book!Resting : m.id = id /\ (Book!Resting)' = Book!Resting \ {m}
    BY <1>1, TypesKnown, CancelEffect
  <1>3. ~Placing /\ ~Placing' /\ AtRest
    BY <1>1, MirrorAtRest DEF Placing
  <1>4. /\ DOMAIN openOrders' = DOMAIN openOrders \ {id}
        /\ \A i \in DOMAIN openOrders' : openOrders'[i] = openOrders[i]
    BY <1>1 DEF Without
  <1>5. AtRest'
    BY <1>1, <1>2, <1>3, <1>4 DEF AtRest
  <1> QED
    BY <1>3, <1>5, MirrorAtRestNext

LEMMA MirrorCrash ==
    ASSUME TypeInv, Crash
    PROVE  Mirror'
  <1>1. (Book!Resting)' = {}
    BY TypesKnown, BookEmptied DEF Crash
  <1>2. ~Placing' /\ ToSet(removed') = {} /\ DOMAIN openOrders' = {}
    BY CallEndsTypes DEF Crash, Placing, ToSet
  <1>3. AtRest'
    BY <1>1, <1>2 DEF AtRest
  <1> QED
    BY <1>2, <1>3, MirrorAtRestNext

LEMMA MirrorStep ==
    ASSUME TypeInv, Mirror, [Next]_vars, "cache" \notin faults'
    PROVE  Mirror'
  <1>1. removed \in Seq(OrderIds) /\ (phase = "idle" => removed = <<>>)
    BY DEF TypeInv, TypeOK, CallOK
  <1>2. ToSet(<<>>) = {}
    BY <1>1, ListAsSet
  <1>3. ASSUME NEW r \in Book!Request, NEW quote \in Quotes, PlaceRejected(r, quote) PROVE Mirror'
    <2>1. /\ ReserveFor(r, quote) /\ removed' = <<>> /\ phase' = "closing"
          /\ UNCHANGED <<levels, prices>>
      BY <1>3 DEF PlaceRejected, Undo, Book!PlaceInvalid
    <2>2. phase = "idle" /\ issued' = issued \cup {r.id} /\ UNCHANGED openOrders
      BY <2>1, ReserveForEffect
    <2> QED
      BY <1>1, <2>1, <2>2, MirrorStays DEF Placing
  <1>4. ASSUME NEW r \in Book!Request, NEW quote \in Quotes, PlaceUnsaved(r, quote) PROVE Mirror'
    <2>1. ReserveFor(r, quote) /\ UNCHANGED <<levels, prices, removed, phase>>
      BY <1>4 DEF PlaceUnsaved, bookVars, callVars
    <2>2. phase = "idle" /\ issued' = issued \cup {r.id} /\ UNCHANGED openOrders
      BY <2>1, ReserveForEffect
    <2> QED
      BY <2>1, <2>2, MirrorStays DEF Placing
  <1>5. ~CacheFails
    BY DEF CacheFails, GoesWrong
  <1>6. ASSUME NEW p \in Players, Save(p) \/ SaveFails(p) PROVE Mirror'
    <2>1. /\ phase = "closing" /\ removed = <<>> /\ phase' \in {"closing", "idle"}
          /\ removed' = <<>> /\ UNCHANGED <<levels, prices, openOrders, issued>>
      BY <1>6, CallEndsTypes DEF Save, SaveFails, Saving, bookVars
    <2> QED
      BY <2>1, MirrorStays DEF Placing
  <1>7. ASSUME LotsExpire \/ UNCHANGED vars PROVE Mirror'
    BY <1>7, MirrorSame DEF LotsExpire, vars, callVars
  <1> QED
    BY <1>3, <1>4, <1>5, <1>6, <1>7, MirrorPlace, MirrorMatch, MirrorFinish, MirrorApply, MirrorRest,
       MirrorRelease, MirrorClean, MirrorNormalize, MirrorCancel, MirrorCrash
    DEF Next

MirrorInv == "cache" \notin faults => Mirror

LEMMA FaultsStay == ASSUME [Next]_vars PROVE faults \subseteq faults'
  BY DEF Next, vars, PlaceOrder, PlaceRejected, PlaceUnsaved, GoesWrong, Match, Finish, CacheFails,
         ApplyTrade, RestIncoming, ReleaseIncoming, CleanRemoved, NormalizeTouched, Save, SaveFails,
         CancelOrder, LotsExpire, Crash

LEMMA MirrorHolds == Spec => []MirrorInv
  <1>1. Init => MirrorInv
    BY MirrorInit DEF MirrorInv
  <1>2. TypeInv /\ MirrorInv /\ [Next]_vars => MirrorInv'
    BY MirrorStep, FaultsStay DEF MirrorInv
  <1> QED
    BY <1>1, <1>2, TypesHold, PTL DEF Spec

(* Between two calls the engine's record of the open orders says exactly   *)
(* what the book says (unless the cache has failed): the trades waiting to *)
(* be applied are the difference between the two while a call settles.     *)
THEOREM OrdersMirrored == Spec => []OpenOrdersMirrorBook
  <1>1. TypeInv /\ MirrorInv => OpenOrdersMirrorBook
    <2> SUFFICES ASSUME TypeInv, MirrorInv, phase = "idle", "cache" \notin faults
                 PROVE  /\ DOMAIN openOrders = {o.id : o \in Book!Resting}
                        /\ \A o \in Book!Resting :
                              /\ openOrders[o.id].player = o.player
                              /\ openOrders[o.id].side = o.side
                              /\ openOrders[o.id].price = o.price
                              /\ openOrders[o.id].rem = o.rem
      BY DEF OpenOrdersMirrorBook
    <2>1. AtRest
      BY MirrorAtRest DEF MirrorInv, Placing
    <2>2. ToSet(removed) = {}
      BY TypesKnown, ListAsSet DEF TypeOK, CallOK
    <2>3. \A id \in DOMAIN openOrders : \E o \in Book!Resting : o.id = id
      BY <2>1, <2>2 DEF AtRest
    <2>4. \A o \in Book!Resting : o.id \in DOMAIN openOrders
      BY <2>1 DEF AtRest
    <2>5. DOMAIN openOrders = {o.id : o \in Book!Resting}
      BY <2>3, <2>4
    <2> QED
      BY <2>1, <2>5 DEF AtRest
  <1> QED
    BY <1>1, TypesHold, MirrorHolds, PTL

----------------------------------------------------------------------------
(* What is reserved for the incoming order and for the open orders         *)

OwnShares(p) == IF Placing /\ incoming.player = p THEN reserved.shares ELSE 0

OwnCash(p) ==
    IF Placing /\ incoming.player = p /\ incoming.side = "buy" THEN reserved.cash ELSE 0

(* What the orders of a player need reserved.                              *)
SharesClaimed(p) == Offered(p) + OwnShares(p)

CashClaimed(p) == CashOfBuys(p) + OwnCash(p)

PendingShares == SumFunctionOnSet([i \in DOMAIN trades |-> trades[i].qty], Pending)

OpenHeld ==
    \A id \in DOMAIN openOrders :
        /\ openOrders[id].shares = IF openOrders[id].side = "sell" THEN openOrders[id].rem ELSE 0
        /\ openOrders[id].rem >= 0
        /\ openOrders[id].side = "buy" =>
               openOrders[id].cash <= openOrders[id].price * openOrders[id].rem

IncomingHeld ==
    Placing => reserved.shares = IF incoming.side = "sell" THEN incoming.rem + PendingShares ELSE 0

(* An account whose reservation covers n shares and is itself covered.     *)
Covers(a, n) ==
    /\ n <= a.reservedShares
    /\ a.reservedShares <= a.shares
    /\ SumFunction(a.lots) <= a.shares

SharesInv ==
    /\ OpenHeld /\ IncomingHeld
    /\ \A p \in Players : /\ Covers(Ledger(p), SharesClaimed(p))
                          /\ Covers(accounts[p], SharesClaimed(p))
                          /\ Covers(stored[p], 0)

(* The invariant the steps keep unless the cache fails.                    *)
Sound == TypeInv /\ IsFiniteSet(issued) /\ Mirror /\ SharesInv

(* Sums over sets that differ in one element.                              *)
LEMMA SumMoves ==
    ASSUME NEW S, NEW T, IsFiniteSet(S), IsFiniteSet(T), NEW x, S \ {x} = T \ {x},
           NEW f, NEW h, \A y \in S : f[y] \in Int, \A y \in T : h[y] \in Int,
           \A y \in S \ {x} : f[y] = h[y]
    PROVE  /\ SumFunctionOnSet(f, S) \in Int /\ SumFunctionOnSet(h, T) \in Int
           /\ SumFunctionOnSet(h, T) - (IF x \in T THEN h[x] ELSE 0) =
                  SumFunctionOnSet(f, S) - (IF x \in S THEN f[x] ELSE 0)
  <1>1. IsFiniteSet(S \ {x}) /\ IsFiniteSet(T \ {x})
    BY FS_Subset
  <1>2. SumFunctionOnSet(f, S \ {x}) = SumFunctionOnSet(h, T \ {x})
    BY <1>1, SumAlike
  <1>3. SumFunctionOnSet(f, S \ {x}) \in Int
    BY <1>1, SumOut
  <1>4. PICK a, b, c : /\ a = SumFunctionOnSet(f, S) /\ b = SumFunctionOnSet(h, T)
                       /\ c = SumFunctionOnSet(f, S \ {x})
    OBVIOUS
  <1>5. a \in Int /\ b \in Int /\ c \in Int
    BY <1>3, <1>4, SumOut
  <1>6. IF x \in S THEN a = f[x] + c /\ f[x] \in Int ELSE a = c
    <2>1. CASE x \in S
      BY <1>4, <2>1, SumOut
    <2>2. CASE x \notin S
      <3>1. S \ {x} = S
        BY <2>2
      <3> QED
        BY <1>4, <2>2, <3>1
    <2> QED
      BY <2>1, <2>2
  <1>7. IF x \in T THEN b = h[x] + c /\ h[x] \in Int ELSE b = c
    <2>1. CASE x \in T
      BY <1>2, <1>4, <2>1, SumOut
    <2>2. CASE x \notin T
      <3>1. T \ {x} = T
        BY <2>2
      <3> QED
        BY <1>2, <1>4, <2>2, <3>1
    <2> QED
      BY <2>1, <2>2
  <1>8. b - (IF x \in T THEN h[x] ELSE 0) = c /\ a - (IF x \in S THEN f[x] ELSE 0) = c
    BY <1>5, <1>6, <1>7
  <1> QED
    BY <1>4, <1>5, <1>8

(* What one open order adds to the sums of its player.                     *)
Offer(open, x, p) ==
    IF x \in DOMAIN open /\ open[x].player = p /\ open[x].side = "sell" THEN open[x].rem ELSE 0

Bid(open, x, p) ==
    IF x \in DOMAIN open /\ open[x].player = p /\ open[x].side = "buy" THEN open[x].cash ELSE 0

LEMMA OpenSums ==
    ASSUME OpenTyped(openOrders), IsFiniteSet(DOMAIN openOrders), NEW p
    PROVE  /\ Offered(p) \in Int /\ CashOfBuys(p) \in Nat
           /\ \A id \in DOMAIN openOrders : Bid(openOrders, id, p) <= CashOfBuys(p)
           /\ OpenHeld => /\ Offered(p) \in Nat
                          /\ \A id \in DOMAIN openOrders : Offer(openOrders, id, p) <= Offered(p)
  <1>1. PICK f, S : /\ f = [id \in DOMAIN openOrders |-> openOrders[id].rem]
                    /\ S = OpenOrdersOf(p, "sell")
    OBVIOUS
  <1>2. PICK g, B : /\ g = [id \in DOMAIN openOrders |-> openOrders[id].cash]
                    /\ B = OpenOrdersOf(p, "buy")
    OBVIOUS
  <1>3. Offered(p) = SumFunctionOnSet(f, S) /\ CashOfBuys(p) = SumFunctionOnSet(g, B)
    BY <1>1, <1>2 DEF Offered, CashOfBuys
  <1>4. S \subseteq DOMAIN openOrders /\ B \subseteq DOMAIN openOrders
    BY <1>1, <1>2 DEF OpenOrdersOf
  <1>5. IsFiniteSet(S) /\ IsFiniteSet(B)
    BY <1>4, FS_Subset
  <1>6. \A id \in DOMAIN openOrders : openOrders[id].rem \in Int /\ openOrders[id].cash \in Nat
    BY DEF OpenTyped, OpenOrder
  <1>7. /\ \A id \in S : f[id] \in Int /\ f[id] = openOrders[id].rem
        /\ \A id \in B : g[id] \in Nat
    BY <1>1, <1>2, <1>4, <1>6
  <1>8. Offered(p) \in Int /\ CashOfBuys(p) \in Nat
    BY <1>3, <1>5, <1>7, SumOut, SumOfNaturals
  <1>10. ASSUME NEW id \in DOMAIN openOrders PROVE Bid(openOrders, id, p) <= CashOfBuys(p)
    <2>1. \A i \in B : g[i] <= CashOfBuys(p)
      BY <1>3, <1>5, <1>7, SumOfNaturals
    <2> QED
      BY <1>2, <1>7, <1>8, <2>1 DEF Bid, OpenOrdersOf
  <1>9. ASSUME OpenHeld
        PROVE  /\ Offered(p) \in Nat
               /\ \A id \in DOMAIN openOrders : Offer(openOrders, id, p) <= Offered(p)
    <2>1. \A id \in S : f[id] \in Nat
      BY <1>4, <1>6, <1>7, <1>9 DEF OpenHeld
    <2>2. Offered(p) \in Nat /\ \A id \in S : f[id] <= Offered(p)
      BY <1>3, <1>5, <2>1, SumOfNaturals
    <2>3. ASSUME NEW id \in DOMAIN openOrders PROVE Offer(openOrders, id, p) <= Offered(p)
      BY <1>1, <1>7, <2>2 DEF Offer, OpenOrdersOf
    <2> QED
      BY <2>2, <2>3
  <1> QED
    BY <1>8, <1>9, <1>10

LEMMA OpenSumsNext ==
    ASSUME OpenTyped(openOrders'), IsFiniteSet(DOMAIN openOrders'), NEW p
    PROVE  Offered(p)' \in Int /\ CashOfBuys(p)' \in Nat
  <1>1. PICK open : open = openOrders'
    OBVIOUS
  <1>2. PICK f, S, g, B :
           /\ f = [id \in DOMAIN open |-> open[id].rem]
           /\ S = {id \in DOMAIN open : open[id].player = p /\ open[id].side = "sell"}
           /\ g = [id \in DOMAIN open |-> open[id].cash]
           /\ B = {id \in DOMAIN open : open[id].player = p /\ open[id].side = "buy"}
    OBVIOUS
  <1>3. Offered(p)' = SumFunctionOnSet(f, S) /\ CashOfBuys(p)' = SumFunctionOnSet(g, B)
    BY <1>1, <1>2 DEF Offered, CashOfBuys, OpenOrdersOf
  <1>4. IsFiniteSet(S) /\ IsFiniteSet(B)
    <2>1. S \subseteq DOMAIN open /\ B \subseteq DOMAIN open
      BY <1>2
    <2> QED
      BY <1>1, <2>1, FS_Subset
  <1>5. \A id \in DOMAIN open : open[id].rem \in Int /\ open[id].cash \in Nat
    BY <1>1 DEF OpenTyped, OpenOrder
  <1>6. /\ \A id \in S : f[id] \in Int
        /\ \A id \in B : g[id] \in Nat
    BY <1>2, <1>5
  <1> QED
    BY <1>3, <1>4, <1>6, SumOut, SumOfNaturals

(* The sums when one open order changes, comes or goes.                    *)
OneChanges(x) ==
    /\ DOMAIN openOrders' \ {x} = DOMAIN openOrders \ {x}
    /\ \A id \in DOMAIN openOrders \ {x} :
          /\ openOrders'[id].player = openOrders[id].player
          /\ openOrders'[id].side = openOrders[id].side
          /\ openOrders'[id].rem = openOrders[id].rem
          /\ openOrders'[id].cash = openOrders[id].cash

LEMMA OffersMove ==
    ASSUME OpenTyped(openOrders), OpenTyped(openOrders'),
           IsFiniteSet(DOMAIN openOrders), IsFiniteSet(DOMAIN openOrders'),
           NEW x, OneChanges(x), NEW p
    PROVE  /\ Offered(p)' - Offer(openOrders', x, p) = Offered(p) - Offer(openOrders, x, p)
           /\ CashOfBuys(p)' - Bid(openOrders', x, p) = CashOfBuys(p) - Bid(openOrders, x, p)
  <1>1. PICK open, new : open = openOrders /\ new = openOrders'
    OBVIOUS
  <1>2. PICK f, h, S, T :
           /\ f = [id \in DOMAIN open |-> open[id].rem] /\ h = [id \in DOMAIN new |-> new[id].rem]
           /\ S = {id \in DOMAIN open : open[id].player = p /\ open[id].side = "sell"}
           /\ T = {id \in DOMAIN new : new[id].player = p /\ new[id].side = "sell"}
    OBVIOUS
  <1>3. PICK g, k, A, B :
           /\ g = [id \in DOMAIN open |-> open[id].cash] /\ k = [id \in DOMAIN new |-> new[id].cash]
           /\ A = {id \in DOMAIN open : open[id].player = p /\ open[id].side = "buy"}
           /\ B = {id \in DOMAIN new : new[id].player = p /\ new[id].side = "buy"}
    OBVIOUS
  <1>4. /\ Offered(p) = SumFunctionOnSet(f, S) /\ Offered(p)' = SumFunctionOnSet(h, T)
        /\ CashOfBuys(p) = SumFunctionOnSet(g, A) /\ CashOfBuys(p)' = SumFunctionOnSet(k, B)
    BY <1>1, <1>2, <1>3 DEF Offered, CashOfBuys, OpenOrdersOf
  <1>5. IsFiniteSet(S) /\ IsFiniteSet(T) /\ IsFiniteSet(A) /\ IsFiniteSet(B)
    <2>1. S \subseteq DOMAIN open /\ T \subseteq DOMAIN new /\ A \subseteq DOMAIN open /\ B \subseteq DOMAIN new
      BY <1>2, <1>3
    <2> QED
      BY <1>1, <2>1, FS_Subset
  <1>6. /\ \A id \in DOMAIN open : open[id].rem \in Int /\ open[id].cash \in Int
        /\ \A id \in DOMAIN new : new[id].rem \in Int /\ new[id].cash \in Int
    BY <1>1 DEF OpenTyped, OpenOrder
  <1>7. /\ \A id \in S : f[id] \in Int
        /\ \A id \in T : h[id] \in Int
        /\ \A id \in A : g[id] \in Int
        /\ \A id \in B : k[id] \in Int
    BY <1>2, <1>3, <1>6
  <1>8. /\ DOMAIN new \ {x} = DOMAIN open \ {x}
        /\ \A id \in DOMAIN open \ {x} :
              /\ new[id].player = open[id].player /\ new[id].side = open[id].side
              /\ new[id].rem = open[id].rem /\ new[id].cash = open[id].cash
    BY <1>1 DEF OneChanges
  <1>9. S \ {x} = T \ {x} /\ \A id \in S \ {x} : f[id] = h[id]
    BY <1>2, <1>8
  <1>10. A \ {x} = B \ {x} /\ \A id \in A \ {x} : g[id] = k[id]
    BY <1>3, <1>8
  <1>11. SumFunctionOnSet(h, T) - (IF x \in T THEN h[x] ELSE 0) =
             SumFunctionOnSet(f, S) - (IF x \in S THEN f[x] ELSE 0)
    <2>1. /\ IsFiniteSet(S) /\ IsFiniteSet(T) /\ S \ {x} = T \ {x}
          /\ \A y \in S : f[y] \in Int
          /\ \A y \in T : h[y] \in Int
          /\ \A y \in S \ {x} : f[y] = h[y]
      BY <1>5, <1>7, <1>9
    <2> QED
      BY ONLY <2>1, SumMoves
  <1>12. SumFunctionOnSet(k, B) - (IF x \in B THEN k[x] ELSE 0) =
             SumFunctionOnSet(g, A) - (IF x \in A THEN g[x] ELSE 0)
    <2>1. /\ IsFiniteSet(A) /\ IsFiniteSet(B) /\ A \ {x} = B \ {x}
          /\ \A y \in A : g[y] \in Int
          /\ \A y \in B : k[y] \in Int
          /\ \A y \in A \ {x} : g[y] = k[y]
      BY <1>5, <1>7, <1>10
    <2> QED
      BY ONLY <2>1, SumMoves
  <1>13. /\ Offer(new, x, p) = IF x \in T THEN h[x] ELSE 0
         /\ Offer(open, x, p) = IF x \in S THEN f[x] ELSE 0
    BY <1>2 DEF Offer
  <1>14. /\ Bid(new, x, p) = IF x \in B THEN k[x] ELSE 0
         /\ Bid(open, x, p) = IF x \in A THEN g[x] ELSE 0
    BY <1>3 DEF Bid
  <1> QED
    BY <1>1, <1>4, <1>11, <1>12, <1>13, <1>14

(* What reserving and releasing do to a covered account.                   *)
LEMMA CoverOps ==
    ASSUME NEW a \in Account, NEW what \in Reservation, NEW n \in Int, Covers(a, n)
    PROVE  /\ \A m \in Int : m <= n => Covers(a, m)
           /\ what.shares <= n =>
                  /\ Covers(Release(a, what), n - what.shares)
                  /\ Release(a, what).reservedShares = a.reservedShares - what.shares
           /\ what.shares <= a.shares - a.reservedShares => Covers(Reserve(a, what), n + what.shares)
           /\ Covers(Release(Reserve(a, what), what), n)
           /\ Release(Reserve(a, what), what).reservedShares = a.reservedShares
           /\ Release(Reserve(a, what), what).reservedCash = a.reservedCash
  <1>1. /\ a.reservedShares \in Nat /\ a.shares \in Nat /\ what.shares \in Nat
    BY DEF Account, Reservation
  <1>2. PICK b, c, d : /\ b = Release(a, what) /\ c = Reserve(a, what)
                       /\ d = Release(c, what)
    OBVIOUS
  <1>3. /\ b.shares = a.shares /\ b.lots = a.lots
        /\ b.reservedShares = Less(a.reservedShares, what.shares)
    BY <1>2, ReleaseType
  <1>4. /\ c \in Account /\ c.shares = a.shares /\ c.lots = a.lots
        /\ c.reservedShares = a.reservedShares + what.shares
    BY <1>2, ReserveType
  <1>5. /\ d.shares = c.shares /\ d.lots = c.lots
        /\ d.reservedShares = Less(c.reservedShares, what.shares)
    BY <1>2, <1>4, ReleaseType
  <1>6. d.reservedShares = a.reservedShares
    BY <1>1, <1>4, <1>5 DEF Less
  <1>11. d.reservedCash = a.reservedCash
    <2>1. c.reservedCash = a.reservedCash + what.cash /\ d.reservedCash = Less(c.reservedCash, what.cash)
      BY <1>2, <1>4, ReserveType, ReleaseType
    <2>2. a.reservedCash \in Nat /\ what.cash \in Nat
      BY DEF Account, Reservation
    <2> QED
      BY <2>1, <2>2 DEF Less
  <1>7. \A m \in Int : m <= n => Covers(a, m)
    BY <1>1 DEF Covers
  <1>8. ASSUME what.shares <= n
        PROVE  /\ Covers(b, n - what.shares)
               /\ b.reservedShares = a.reservedShares - what.shares
    <2>1. b.reservedShares = a.reservedShares - what.shares
      BY <1>1, <1>3, <1>8 DEF Covers, Less
    <2> QED
      BY <1>1, <1>3, <2>1 DEF Covers
  <1>9. what.shares <= a.shares - a.reservedShares => Covers(c, n + what.shares)
    BY <1>1, <1>4 DEF Covers
  <1>10. Covers(d, n)
    BY <1>4, <1>5, <1>6 DEF Covers
  <1> QED
    BY <1>2, <1>6, <1>7, <1>8, <1>9, <1>10, <1>11

PlayerOK(p) ==
    /\ Covers(Ledger(p), SharesClaimed(p))
    /\ Covers(accounts[p], SharesClaimed(p))
    /\ Covers(stored[p], 0)

(* No share and no cash is reserved that no order of the player claims.    *)
Exact(p) ==
    /\ Ledger(p).reservedShares <= SharesClaimed(p)
    /\ Ledger(p).reservedCash <= CashClaimed(p)

LEMMA SoundFacts ==
    ASSUME Sound, NEW p \in Players
    PROVE  /\ Ledger(p) \in Account /\ accounts[p] \in Account /\ stored[p] \in Account
           /\ Offered(p) \in Nat /\ OwnShares(p) \in Nat /\ SharesClaimed(p) \in Nat
           /\ CashOfBuys(p) \in Nat /\ OwnCash(p) \in Nat /\ CashClaimed(p) \in Nat
           /\ Ledger(p).reservedCash \in Nat
           /\ PlayerOK(p) /\ IsFiniteSet(DOMAIN openOrders) /\ OpenTyped(openOrders)
           /\ reserved \in Reservation /\ OpenHeld /\ IncomingHeld
           /\ \A id \in DOMAIN openOrders : Offer(openOrders, id, p) <= Offered(p)
           /\ \A id \in DOMAIN openOrders : Bid(openOrders, id, p) <= CashOfBuys(p)
  <1>1. /\ TypeInv /\ IsFiniteSet(issued) /\ DOMAIN openOrders \subseteq issued
        /\ OpenHeld /\ IncomingHeld /\ PlayerOK(p)
    BY DEF Sound, Mirror, IdsOK, SharesInv, PlayerOK
  <1>2. /\ Ledger(p) \in Account /\ accounts[p] \in Account /\ stored[p] \in Account
        /\ OpenTyped(openOrders) /\ reserved \in Reservation
    BY <1>1, TypesKnown DEF TypeOK, Reservation
  <1>3. IsFiniteSet(DOMAIN openOrders)
    BY <1>1, FS_Subset
  <1>4. /\ Offered(p) \in Nat /\ CashOfBuys(p) \in Nat
        /\ \A id \in DOMAIN openOrders : Offer(openOrders, id, p) <= Offered(p)
        /\ \A id \in DOMAIN openOrders : Bid(openOrders, id, p) <= CashOfBuys(p)
    BY <1>1, <1>2, <1>3, OpenSums
  <1>5. OwnShares(p) \in Nat /\ OwnCash(p) \in Nat
    BY <1>2 DEF OwnShares, OwnCash, Reservation
  <1>6. Ledger(p).reservedCash \in Nat
    BY <1>2 DEF Account
  <1>7. SharesClaimed(p) \in Nat /\ CashClaimed(p) \in Nat
    BY <1>4, <1>5 DEF SharesClaimed, CashClaimed
  <1> QED
    BY <1>1, <1>2, <1>3, <1>4, <1>5, <1>6, <1>7

LEMMA SameOpen ==
    ASSUME UNCHANGED openOrders, NEW p
    PROVE  Offered(p)' = Offered(p) /\ CashOfBuys(p)' = CashOfBuys(p) /\ (OpenHeld => OpenHeld')
  BY DEF Offered, CashOfBuys, OpenOrdersOf, OpenHeld

(* A player whose account and orders the step leaves alone, but for a save.*)
LEMMA PlayerSame ==
    ASSUME Sound, NEW p \in Players, SharesClaimed(p)' = SharesClaimed(p),
           CashClaimed(p)' = CashClaimed(p), Ledger(p)' = Ledger(p), accounts'[p] \in {accounts[p], Ledger(p)},
           stored'[p] \in {stored[p], accounts'[p]}
    PROVE  PlayerOK(p)' /\ (Exact(p) => Exact(p)')
  <1>1. PICK n, l, a : n = SharesClaimed(p) /\ l = Ledger(p) /\ a = accounts[p]
    OBVIOUS
  <1>2. /\ n \in Nat /\ l \in Account /\ a \in Account /\ Covers(l, n) /\ Covers(a, n)
        /\ Covers(stored[p], 0)
    BY <1>1, SoundFacts DEF PlayerOK
  <1>3. Covers(l, 0) /\ Covers(a, 0)
    BY <1>2 DEF Covers, Account
  <1>4. Covers(accounts'[p], n) /\ Covers(accounts'[p], 0)
    BY <1>1, <1>2, <1>3
  <1>5. Covers(stored'[p], 0)
    BY <1>2, <1>4
  <1> QED
    BY <1>1, <1>2, <1>4, <1>5 DEF PlayerOK, Exact

LEMMA SharesReserved ==
    ASSUME Sound, NEW r \in Book!Request, NEW quote \in Quotes,
           PlaceOrder(r, quote) \/ PlaceUnsaved(r, quote), NEW p \in Players
    PROVE  PlayerOK(p)' /\ (faults' = {} /\ Exact(p) => Exact(p)')
  <1>1. PICK need, l, n : need = ToReserve(r, quote) /\ l = Ledger(p) /\ n = SharesClaimed(p)
    OBVIOUS
  <1>2. ReserveFor(r, quote) /\ UNCHANGED copies /\ TypeInv
    BY DEF PlaceOrder, PlaceUnsaved, callVars, Sound
  <1>3. /\ Ledger(p)' = (IF p = r.player THEN Reserve(l, need) ELSE l)
        /\ Ledger(p)' = accounts'[p] /\ l = accounts[p] /\ need \in Reservation
    BY <1>1, <1>2, ReservedLedger
  <1>4. /\ phase = "idle" /\ UNCHANGED openOrders
        /\ r.side # "buy" => r.qty <= accounts[r.player].shares - accounts[r.player].reservedShares
    BY <1>2, ReserveForEffect
  <1>5. need.shares = IF r.side = "buy" THEN 0 ELSE r.qty
    BY <1>1, ToReserveType
  <1>6. /\ l \in Account /\ n \in Nat /\ Covers(l, n) /\ Covers(stored[p], 0)
        /\ l.shares \in Nat /\ l.reservedShares \in Nat
        /\ need.shares \in Nat /\ l.reservedShares <= l.shares
    BY <1>1, <1>3, SoundFacts DEF PlayerOK, Account, Reservation, Covers
  <1>7. n = Offered(p) /\ Offered(p)' = Offered(p)
    <2>1. OwnShares(p) = 0 /\ Offered(p) \in Nat
      BY <1>4, SoundFacts DEF OwnShares, Placing
    <2> QED
      BY <1>1, <1>4, <2>1, SameOpen DEF SharesClaimed
  <1>8. CASE p = r.player
    <2>1. need.shares <= l.shares - l.reservedShares
      BY <1>3, <1>4, <1>5, <1>6, <1>8
    <2>2. Covers(Reserve(l, need), n + need.shares)
          /\ Reserve(l, need) \in Account
          /\ Reserve(l, need).reservedShares = l.reservedShares + need.shares
      BY <1>3, <1>6, <2>1, CoverOps, ReserveType
    <2>3. \A m \in Int : m <= n + need.shares => Covers(Reserve(l, need), m)
      BY <1>6, <2>2 DEF Covers
    <2>4. CASE PlaceOrder(r, quote)
      <3>1. /\ incoming'.player = r.player /\ phase' = "placing" /\ reserved' = need
            /\ stored' = accounts'
        BY <1>1, <1>2, <2>4, TypesKnown, StartEffect DEF PlaceOrder
      <3>2. SharesClaimed(p)' = n + need.shares
        BY <1>7, <1>8, <3>1 DEF SharesClaimed, OwnShares, Placing
      <3>3. PlayerOK(p)' /\ Ledger(p)' = Reserve(l, need)
        BY <1>3, <1>6, <1>8, <2>2, <2>3, <3>1, <3>2 DEF PlayerOK
      <3>4. incoming'.side = r.side
        BY <1>2, <2>4, TypesKnown, StartEffect DEF PlaceOrder
      <3>5. CashClaimed(p)' = CashOfBuys(p) + need.cash
        <4>1. need.cash = IF r.side = "buy" THEN need.cash ELSE 0
          BY <1>1 DEF ToReserve
        <4>2. OwnCash(p)' = need.cash
          BY <1>8, <3>1, <3>4, <4>1 DEF OwnCash, Placing
        <4> QED
          BY <1>4, <4>2, SameOpen DEF CashClaimed
      <3>6. CashClaimed(p) = CashOfBuys(p) /\ CashOfBuys(p) \in Nat /\ l.reservedCash \in Nat
        <4>1. OwnCash(p) = 0 /\ CashOfBuys(p) \in Nat /\ l.reservedCash \in Nat
          BY <1>1, <1>4, SoundFacts DEF OwnCash, Placing
        <4> QED
          BY <4>1 DEF CashClaimed
      <3>7. Reserve(l, need).reservedCash = l.reservedCash + need.cash /\ need.cash \in Nat
        BY <1>3, <1>6, ReserveType DEF Reservation
      <3>8. Exact(p) => Exact(p)'
        BY <1>1, <1>6, <2>2, <3>2, <3>3, <3>5, <3>6, <3>7 DEF Exact
      <3> QED
        BY <3>3, <3>8
    <2>5. CASE PlaceUnsaved(r, quote)
      <3>1. UNCHANGED <<phase, stored>> /\ faults' # {}
        BY <2>5 DEF PlaceUnsaved, callVars, GoesWrong
      <3>2. SharesClaimed(p)' = n
        BY <1>4, <1>6, <1>7, <3>1 DEF SharesClaimed, OwnShares, Placing
      <3> QED
        BY <1>1, <1>3, <1>6, <1>8, <2>3, <3>1, <3>2 DEF PlayerOK
    <2> QED
      BY <2>4, <2>5
  <1>9. CASE p # r.player
    <2>1. Ledger(p)' = Ledger(p) /\ accounts'[p] = accounts[p] /\ stored'[p] \in {stored[p], accounts'[p]}
      BY <1>1, <1>3, <1>9 DEF PlaceOrder, PlaceUnsaved
    <2>2. OwnShares(p)' = 0
      <3>1. CASE PlaceOrder(r, quote)
        <4>1. incoming'.player = r.player
          BY <1>2, <3>1, TypesKnown, StartEffect DEF PlaceOrder
        <4> QED
          BY <1>9, <4>1 DEF OwnShares
      <3>2. CASE PlaceUnsaved(r, quote)
        BY <1>4, <3>2 DEF PlaceUnsaved, callVars, OwnShares, Placing
      <3> QED
        BY <3>1, <3>2
    <2>3. SharesClaimed(p)' = SharesClaimed(p)
      BY <1>1, <1>6, <1>7, <2>2 DEF SharesClaimed
    <2>4. OwnCash(p) = 0 /\ OwnCash(p)' = 0
      <3>1. CASE PlaceOrder(r, quote)
        <4>1. incoming'.player = r.player
          BY <1>2, <3>1, TypesKnown, StartEffect DEF PlaceOrder
        <4> QED
          BY <1>4, <1>9, <4>1 DEF OwnCash, Placing
      <3>2. CASE PlaceUnsaved(r, quote)
        BY <1>4, <3>2 DEF PlaceUnsaved, callVars, OwnCash, Placing
      <3> QED
        BY <3>1, <3>2
    <2>5. CashClaimed(p)' = CashClaimed(p)
      BY <1>4, <2>4, SameOpen DEF CashClaimed
    <2> QED
      BY <2>1, <2>3, <2>5, PlayerSame
  <1> QED
    BY <1>8, <1>9

LEMMA SharesRejected ==
    ASSUME Sound, NEW r \in Book!Request, NEW quote \in Quotes, PlaceRejected(r, quote),
           NEW p \in Players
    PROVE  PlayerOK(p)' /\ (Exact(p) => Exact(p)')
  <1>1. PICK need, l, n : need = ToReserve(r, quote) /\ l = Ledger(p) /\ n = SharesClaimed(p)
    OBVIOUS
  <1>2. /\ ReserveFor(r, quote) /\ TypeInv /\ phase' = "closing" /\ stored' = accounts'
    BY DEF PlaceRejected, Undo, Sound
  <1>3. /\ Ledger(p)' = IF p = r.player THEN Release(Reserve(l, need), need) ELSE l
        /\ accounts'[p] = IF p = r.player THEN Reserve(l, need) ELSE l
        /\ l = accounts[p] /\ need \in Reservation
    BY <1>1, <1>2, RejectedLedger
  <1>4. /\ phase = "idle" /\ UNCHANGED openOrders
        /\ r.side # "buy" => r.qty <= accounts[r.player].shares - accounts[r.player].reservedShares
    BY <1>2, ReserveForEffect
  <1>5. need.shares = IF r.side = "buy" THEN 0 ELSE r.qty
    BY <1>1, ToReserveType
  <1>6. /\ l \in Account /\ n \in Nat /\ Covers(l, n)
        /\ l.shares \in Nat /\ l.reservedShares \in Nat
        /\ need.shares \in Nat /\ l.reservedShares <= l.shares
    BY <1>1, <1>3, SoundFacts DEF PlayerOK, Account, Reservation, Covers
  <1>7. SharesClaimed(p)' = n /\ CashClaimed(p)' = CashClaimed(p)
    <2>1. OwnShares(p) = 0 /\ OwnShares(p)' = 0 /\ OwnCash(p) = 0 /\ OwnCash(p)' = 0
      BY <1>2, <1>4 DEF OwnShares, OwnCash, Placing
    <2> QED
      BY <1>1, <1>4, <2>1, SameOpen DEF SharesClaimed, CashClaimed
  <1>8. CASE p = r.player
    <2>1. need.shares <= l.shares - l.reservedShares
      BY <1>3, <1>4, <1>5, <1>6, <1>8
    <2>2. /\ Covers(Reserve(l, need), n + need.shares)
          /\ Covers(Release(Reserve(l, need), need), n)
          /\ Release(Reserve(l, need), need).reservedShares = l.reservedShares
          /\ Reserve(l, need) \in Account
          /\ Reserve(l, need).reservedShares = l.reservedShares + need.shares
          /\ Release(Reserve(l, need), need).reservedCash = l.reservedCash
      BY <1>3, <1>6, <2>1, CoverOps, ReserveType
    <2>3. \A m \in Int : m <= n + need.shares => Covers(Reserve(l, need), m)
      BY <1>6, <2>2 DEF Covers
    <2> QED
      BY <1>1, <1>2, <1>3, <1>6, <1>7, <1>8, <2>2, <2>3 DEF PlayerOK, Exact
  <1>9. CASE p # r.player
    BY <1>1, <1>2, <1>3, <1>7, <1>9, PlayerSame
  <1> QED
    BY <1>8, <1>9

(* A trade in the book: the shares pending grow by what the order loses.   *)
LEMMA SharesMatch ==
    ASSUME Sound, Match
    PROVE  IncomingHeld'
  <1>1. PICK n, q, t : n = Len(trades) /\ Book!MatchStep /\ UNCHANGED <<phase, settled, reserved>>
                       /\ trades' = Append(trades, t) /\ t.qty = q /\ q \in Nat
                       /\ incoming' = [incoming EXCEPT !.rem = incoming.rem - q] /\ pc = "matching"
    <2>1. Book!MatchStep /\ BP!IInv
      BY TypesKnown DEF Match, Sound
    <2>2. PICK m, q : m = Book!BestOrder(Book!Opposite(incoming.side)) /\ q = Book!Fill(incoming, m)
      OBVIOUS
    <2>3. PICK buy, sell : /\ buy  = IF incoming.side = "buy" THEN incoming ELSE m
                           /\ sell = IF incoming.side = "buy" THEN m ELSE incoming
      OBVIOUS
    <2>4.    /\ q \in Nat /\ incoming' = [incoming EXCEPT !.rem = incoming.rem - q]
             /\ trades' = Append(trades, [price |-> m.price, qty |-> q, aggressor |-> incoming.side,
                                          buyOrder |-> buy.id, sellOrder |-> sell.id,
                                          buyer |-> buy.player, seller |-> sell.player])
             /\ pc = "matching"
      BY <2>1, <2>2, <2>3, MatchEffect
    <2>5. PICK t : t = [price |-> m.price, qty |-> q, aggressor |-> incoming.side,
                        buyOrder |-> buy.id, sellOrder |-> sell.id,
                        buyer |-> buy.player, seller |-> sell.player]
      OBVIOUS
    <2>6. t.qty = q
      BY <2>5
    <2> QED
      BY <2>1, <2>4, <2>5, <2>6 DEF Match
  <1>2. /\ TypeInv /\ IncomingHeld /\ trades \in Seq(Book!Trade) /\ incoming \in Book!Order
    BY TypesKnown DEF Sound, SharesInv
  <1>3. phase = "placing" /\ settled = 0 /\ n \in Nat
    BY <1>1, <1>2 DEF TypeInv, CallOK
  <1>4. Pending = 1..n /\ Pending' = 1..(n + 1)
    <2>1. Len(trades') = n + 1
      BY <1>1, <1>2
    <2> QED
      BY <1>1, <1>3, <2>1 DEF Pending, Placing
  <1>5. PICK f, h : /\ f = [i \in DOMAIN trades |-> trades[i].qty]
                    /\ h = [i \in DOMAIN trades' |-> trades'[i].qty]
    OBVIOUS
  <1>6. /\ \A i \in 1..n : f[i] \in Int /\ h[i] = f[i]
        /\ h[n + 1] = q
    <2>1. /\ DOMAIN trades = 1..n /\ DOMAIN trades' = 1..(n + 1) /\ trades'[n + 1] = t
          /\ \A i \in 1..n : trades'[i] = trades[i] /\ trades[i] \in Book!Trade
      BY <1>1, <1>2, <1>3
    <2>2. n + 1 \in 1..(n + 1) /\ \A i \in 1..n : i \in 1..(n + 1)
      BY <1>3
    <2>3. \A i \in 1..n : trades[i].qty \in Int
      BY <2>1 DEF Book!Trade
    <2> QED
      BY <1>1, <1>5, <2>1, <2>2, <2>3
  <1>7. \A i \in 1..(n + 1) : h[i] \in Int
    <2>1. \A i \in 1..(n + 1) : i \in 1..n \/ i = n + 1
      BY <1>3
    <2> QED
      BY <1>1, <1>6, <2>1
  <1>8. /\ PendingShares = SumFunctionOnSet(f, 1..n)
        /\ PendingShares' = SumFunctionOnSet(h, 1..(n + 1))
    BY <1>4, <1>5 DEF PendingShares
  <1>9. SumFunctionOnSet(h, 1..(n + 1)) = h[n + 1] + SumFunctionOnSet(h, 1..n)
        /\ SumFunctionOnSet(h, 1..n) \in Int
    BY <1>3, <1>7, SumAppend
  <1>10. SumFunctionOnSet(h, 1..n) = SumFunctionOnSet(f, 1..n)
    <2>1. IsFiniteSet(1..n) /\ \A i \in 1..n : h[i] = f[i]
      BY <1>3, <1>6, FS_Interval
    <2> QED
      BY <2>1, SumAlike
  <1>11. PendingShares' = q + PendingShares /\ PendingShares \in Int
    BY <1>6, <1>8, <1>9, <1>10
  <1>12. incoming'.rem = incoming.rem - q /\ incoming'.side = incoming.side /\ incoming.rem \in Int
    BY <1>1, <1>2 DEF Book!Order
  <1> QED
    BY <1>1, <1>2, <1>3, <1>11, <1>12 DEF IncomingHeld, Placing

(* The shares pending before and after a trade is applied.                 *)
LEMMA PendingMoves ==
    ASSUME TypeInv, Mirror, ApplyTrade, NEW t, t = trades[settled + 1]
    PROVE  /\ PendingShares' = PendingShares - t.qty /\ PendingShares \in Nat
           /\ t.qty \in Nat /\ t.qty <= PendingShares
  <1>1. PICK f, S : f = [i \in DOMAIN trades |-> trades[i].qty] /\ S = Pending
    OBVIOUS
  <1>2. PICK k : k = settled + 1
    OBVIOUS
  <1>3. k \in S /\ t \in Book!Trade /\ Pending' = S \ {k} /\ UNCHANGED trades
    BY <1>1, <1>2, ApplyFills DEF ApplyTrade, bookVars
  <1>4. trades \in Seq(Book!Trade) /\ settled \in Nat /\ Len(trades) \in Nat
    BY TypesKnown DEF TypeOK
  <1>5. S \subseteq 1..Len(trades)
    BY <1>1, <1>4 DEF Pending
  <1>6. IsFiniteSet(S)
    <2>1. IsFiniteSet(1..Len(trades))
      BY <1>4, FS_Interval
    <2> QED
      BY <1>5, <2>1, FS_Subset
  <1>7. \A i \in S : f[i] \in Nat
    <2>1. \A i \in S : trades[i] \in Book!Trade /\ f[i] = trades[i].qty
      BY <1>1, <1>4, <1>5
    <2> QED
      BY <2>1 DEF Book!Trade
  <1>8. f[k] = t.qty
    BY <1>1, <1>2, <1>3, <1>4, <1>5
  <1>9. PendingShares = SumFunctionOnSet(f, S) /\ PendingShares' = SumFunctionOnSet(f, S \ {k})
    BY <1>1, <1>3 DEF PendingShares
  <1>10. /\ SumFunctionOnSet(f, S) = f[k] + SumFunctionOnSet(f, S \ {k})
         /\ SumFunctionOnSet(f, S) \in Nat /\ f[k] <= SumFunctionOnSet(f, S)
    BY <1>3, <1>6, <1>7, SumOut, SumOfNaturals
  <1>11. SumFunctionOnSet(f, S \ {k}) \in Nat
    <2>1. IsFiniteSet(S \ {k}) /\ \A i \in S \ {k} : f[i] \in Nat
      BY <1>6, <1>7, FS_Subset
    <2> QED
      BY <2>1, SumOfNaturals
  <1>12. PICK a, b, c : a = SumFunctionOnSet(f, S) /\ b = SumFunctionOnSet(f, S \ {k}) /\ c = f[k]
    OBVIOUS
  <1>13. a \in Nat /\ b \in Nat /\ c \in Nat /\ a = c + b
    BY <1>3, <1>7, <1>10, <1>11, <1>12
  <1> QED
    BY <1>8, <1>9, <1>12, <1>13

(* A player of whose reservation part is given back.                       *)
LEMMA PlayerReleases ==
    ASSUME Sound, NEW p \in Players, NEW what \in Reservation,
           Ledger(p)' = Release(Ledger(p), what), what.shares <= SharesClaimed(p),
           SharesClaimed(p)' = SharesClaimed(p) - what.shares,
           CashClaimed(p)' \in Nat, CashClaimed(p)' >= CashClaimed(p) - what.cash,
           accounts'[p] \in {accounts[p], Ledger(p)'}, stored'[p] \in {stored[p], accounts'[p]}
    PROVE  PlayerOK(p)' /\ (Exact(p) => Exact(p)')
  <1>1. PICK n, m, l, new, a : /\ n = SharesClaimed(p) /\ m = n - what.shares
                               /\ l = Ledger(p) /\ new = Release(l, what) /\ a = accounts[p]
    OBVIOUS
  <1>2. /\ n \in Nat /\ l \in Account /\ a \in Account /\ Covers(l, n) /\ Covers(a, n)
        /\ Covers(stored[p], 0) /\ what.shares \in Nat
    BY <1>1, SoundFacts DEF PlayerOK, Reservation
  <1>3. m \in Nat /\ m <= n
    BY <1>1, <1>2
  <1>4. Covers(new, m) /\ new.reservedShares = l.reservedShares - what.shares /\ new \in Account
    BY <1>1, <1>2, CoverOps, ReleaseType
  <1>5. Covers(new, 0) /\ Covers(a, m) /\ Covers(a, 0)
    <2>1. Covers(a, m) /\ Covers(a, 0)
      BY <1>2, <1>3 DEF Covers, Account
    <2>2. new.reservedShares \in Nat
      BY <1>4 DEF Account
    <2> QED
      BY <1>4, <2>1, <2>2 DEF Covers
  <1>6. Covers(accounts'[p], m) /\ Covers(accounts'[p], 0)
    BY <1>1, <1>4, <1>5
  <1>7. Covers(stored'[p], 0)
    BY <1>2, <1>6
  <1>8. PlayerOK(p)'
    BY <1>1, <1>4, <1>6, <1>7 DEF PlayerOK
  <1>9. ASSUME Exact(p) PROVE Exact(p)'
    <2>1. l.reservedShares <= n /\ l.reservedCash <= CashClaimed(p)
      BY <1>1, <1>9 DEF Exact
    <2>2. new.reservedCash = Less(l.reservedCash, what.cash)
      BY <1>1, <1>2, ReleaseType
    <2>3. l.reservedCash \in Nat /\ what.cash \in Nat /\ CashClaimed(p) \in Nat
      BY <1>1, SoundFacts DEF Reservation
    <2>4. new.reservedCash <= CashClaimed(p)'
      BY <2>1, <2>2, <2>3 DEF Less
    <2>5. new.reservedShares <= m
      BY <1>1, <1>2, <1>4, <2>1 DEF Account
    <2> QED
      BY <1>1, <2>4, <2>5 DEF Exact
  <1> QED
    BY <1>8, <1>9

(* An open order that is closed takes what it holds along.                 *)
LEMMA OrderCloses ==
    ASSUME Sound, ~Placing, ~Placing', NEW id \in DOMAIN openOrders,
           DOMAIN openOrders' = DOMAIN openOrders \ {id},
           \A i \in DOMAIN openOrders' : openOrders'[i] = openOrders[i],
           NEW p \in Players
    PROVE  /\ OpenHeld' /\ IncomingHeld'
           /\ p = openOrders[id].player =>
                 /\ HeldFor(id).shares <= SharesClaimed(p)
                 /\ SharesClaimed(p)' = SharesClaimed(p) - HeldFor(id).shares
                 /\ CashClaimed(p)' \in Nat /\ CashClaimed(p)' >= CashClaimed(p) - HeldFor(id).cash
           /\ p # openOrders[id].player =>
                 SharesClaimed(p)' = SharesClaimed(p) /\ CashClaimed(p)' = CashClaimed(p)
  <1>1. /\ OpenHeld /\ OpenTyped(openOrders) /\ IsFiniteSet(DOMAIN openOrders)
        /\ Offered(p) \in Nat /\ CashOfBuys(p) \in Nat
        /\ Offer(openOrders, id, p) <= Offered(p) /\ Bid(openOrders, id, p) <= CashOfBuys(p)
    BY SoundFacts
  <1>2. OpenTyped(openOrders') /\ IsFiniteSet(DOMAIN openOrders')
    <2>1. DOMAIN openOrders' \subseteq DOMAIN openOrders
      OBVIOUS
    <2> QED
      BY <1>1, <2>1, FS_Subset DEF OpenTyped
  <1>3. OneChanges(id)
    BY DEF OneChanges
  <1>4. Offer(openOrders', id, p) = 0 /\ Bid(openOrders', id, p) = 0
    BY DEF Offer, Bid
  <1>5. PICK o : o = openOrders[id]
    OBVIOUS
  <1>6. /\ o.shares = (IF o.side = "sell" THEN o.rem ELSE 0) /\ o.cash \in Nat /\ o.shares \in Nat
        /\ HeldFor(id).shares = o.shares /\ HeldFor(id).cash = o.cash
    BY <1>1, <1>5 DEF OpenHeld, OpenTyped, OpenOrder, HeldFor
  <1>7. PICK x, y : x = Offer(openOrders, id, p) /\ y = Bid(openOrders, id, p)
    OBVIOUS
  <1>8. /\ x = IF p = o.player THEN o.shares ELSE 0
        /\ y = IF p = o.player /\ o.side = "buy" THEN o.cash ELSE 0
    BY <1>5, <1>6, <1>7 DEF Offer, Bid
  <1>9. x \in Nat /\ y \in Nat /\ x <= Offered(p) /\ y <= CashOfBuys(p)
    BY <1>1, <1>6, <1>7, <1>8
  <1>10. Offered(p)' = Offered(p) - x /\ CashOfBuys(p)' = CashOfBuys(p) - y
    <2>1. /\ Offered(p)' - 0 = Offered(p) - x /\ CashOfBuys(p)' - 0 = CashOfBuys(p) - y
      BY <1>1, <1>2, <1>3, <1>4, <1>7, OffersMove
    <2>2. Offered(p)' \in Int /\ CashOfBuys(p)' \in Int
      BY <1>2, OpenSumsNext
    <2> QED
      BY <2>1, <2>2
  <1>11. /\ SharesClaimed(p)' = Offered(p)' /\ SharesClaimed(p) = Offered(p)
         /\ CashClaimed(p)' = CashOfBuys(p)' /\ CashClaimed(p) = CashOfBuys(p)
    <2>1. OwnShares(p) = 0 /\ OwnShares(p)' = 0 /\ OwnCash(p) = 0 /\ OwnCash(p)' = 0
      BY DEF OwnShares, OwnCash
    <2>2. Offered(p)' \in Int /\ CashOfBuys(p)' \in Int
      BY <1>2, OpenSumsNext
    <2> QED
      BY <1>1, <2>1, <2>2 DEF SharesClaimed, CashClaimed
  <1>12. OpenHeld' /\ IncomingHeld'
    BY <1>1 DEF OpenHeld, IncomingHeld
  <1> QED
    BY <1>1, <1>5, <1>6, <1>8, <1>9, <1>10, <1>11, <1>12

(* The steps after the trades: each gives back what its order need not     *)
(* hold any longer.                                                        *)
LEMMA SharesCleanup ==
    ASSUME Sound, ~Placing, ~Placing', NEW id, Cleanup(id), UNCHANGED <<accounts, stored>>,
           NEW p \in Players
    PROVE  OpenHeld' /\ IncomingHeld' /\ PlayerOK(p)' /\ (Exact(p) => Exact(p)')
  <1>1. TypeInv
    BY DEF Sound
  <1>2. CASE id \notin DOMAIN openOrders
    <2>1. UNCHANGED <<copies, openOrders>>
      BY <1>2 DEF Cleanup
    <2>2. OpenHeld' /\ Offered(p)' = Offered(p) /\ CashOfBuys(p)' = CashOfBuys(p)
      BY <2>1, SoundFacts, SameOpen
    <2>3. OwnShares(p)' = OwnShares(p) /\ OwnCash(p)' = OwnCash(p) /\ IncomingHeld'
      BY DEF OwnShares, OwnCash, IncomingHeld
    <2>4. Ledger(p)' = Ledger(p)
      BY <2>1 DEF Ledger
    <2> QED
      BY <2>2, <2>3, <2>4, PlayerSame DEF SharesClaimed, CashClaimed
  <1>3. CASE id \in DOMAIN openOrders
    <2>1. /\ Ledger(p)' = (IF p = openOrders[id].player THEN Release(Ledger(p), HeldFor(id)) ELSE Ledger(p))
          /\ HeldFor(id) \in Reservation
      BY <1>1, <1>3, CleanupLedger
    <2>2. /\ DOMAIN openOrders' = DOMAIN openOrders \ {id}
          /\ \A i \in DOMAIN openOrders' : openOrders'[i] = openOrders[i]
      BY <1>1, CleanupTypes
    <2>3. /\ OpenHeld' /\ IncomingHeld'
          /\ p = openOrders[id].player =>
                 /\ HeldFor(id).shares <= SharesClaimed(p)
                 /\ SharesClaimed(p)' = SharesClaimed(p) - HeldFor(id).shares
                 /\ CashClaimed(p)' \in Nat /\ CashClaimed(p)' >= CashClaimed(p) - HeldFor(id).cash
          /\ p # openOrders[id].player =>
                 SharesClaimed(p)' = SharesClaimed(p) /\ CashClaimed(p)' = CashClaimed(p)
      BY <1>3, <2>2, OrderCloses
    <2>4. CASE p = openOrders[id].player
      BY <2>1, <2>3, <2>4, PlayerReleases
    <2>5. CASE p # openOrders[id].player
      BY <2>1, <2>3, <2>5, PlayerSame
    <2> QED
      BY <2>3, <2>4, <2>5
  <1> QED
    BY <1>2, <1>3

LEMMA SharesCancel ==
    ASSUME Sound, NEW x \in Players, NEW id \in OrderIds, CancelOrder(x, id), NEW p \in Players
    PROVE  OpenHeld' /\ IncomingHeld' /\ PlayerOK(p)' /\ (Exact(p) => Exact(p)')
  <1>1. /\ Ledger(p)' = accounts'[p] /\ Ledger(p) = accounts[p]
        /\ Ledger(p)' = (IF p = x THEN Release(Ledger(p), HeldFor(id)) ELSE Ledger(p))
        /\ id \in DOMAIN openOrders /\ openOrders[id].player = x /\ HeldFor(id) \in Reservation
    BY CancelLedger DEF Sound
  <1>2. /\ ~Placing /\ ~Placing' /\ openOrders' = Without(id)
        /\ stored' = accounts' \/ stored' = stored
    BY DEF CancelOrder, Placing, callVars
  <1>3. /\ DOMAIN openOrders' = DOMAIN openOrders \ {id}
        /\ \A i \in DOMAIN openOrders' : openOrders'[i] = openOrders[i]
    BY <1>2 DEF Without
  <1>4. /\ OpenHeld' /\ IncomingHeld'
        /\ p = x => /\ HeldFor(id).shares <= SharesClaimed(p)
                    /\ SharesClaimed(p)' = SharesClaimed(p) - HeldFor(id).shares
                    /\ CashClaimed(p)' \in Nat /\ CashClaimed(p)' >= CashClaimed(p) - HeldFor(id).cash
        /\ p # x => SharesClaimed(p)' = SharesClaimed(p) /\ CashClaimed(p)' = CashClaimed(p)
    BY <1>1, <1>2, <1>3, OrderCloses
  <1>5. accounts'[p] \in {accounts[p], Ledger(p)'} /\ stored'[p] \in {stored[p], accounts'[p]}
    BY <1>1, <1>2
  <1>6. CASE p = x
    BY <1>1, <1>4, <1>5, <1>6, PlayerReleases
  <1>7. CASE p # x
    BY <1>1, <1>4, <1>5, <1>7, PlayerSame
  <1> QED
    BY <1>4, <1>6, <1>7

(* An order that holds what it must holds no share too many.               *)
LEMMA NoneTooMany ==
    ASSUME NEW o \in OpenOrder, o.rem > 0, o.shares = IF o.side = "sell" THEN o.rem ELSE 0
    PROVE  /\ Excess(o).shares = 0 /\ Trimmed(o).shares = o.shares
           /\ Excess(o).cash \in Nat /\ Excess(o).cash <= o.cash
           /\ o.side # "buy" => Excess(o).cash = 0
  <1>1. o.rem \in Int /\ o.shares \in Nat
    BY DEF OpenOrder
  <1>2. /\ Excess(o).shares = IF o.side = "sell" THEN Less(o.shares, o.rem) ELSE 0
        /\ Excess(o).cash = IF o.side = "buy" THEN Less(o.cash, o.price * o.rem) ELSE 0
        /\ Excess(o).cash \in Nat
    BY ExcessType DEF Reservation
  <1>3. Excess(o).shares = 0
    BY <1>1, <1>2 DEF Less
  <1>4. Trimmed(o).shares = o.shares - Excess(o).shares /\ Excess(o).cash <= o.cash
    BY TrimmedType
  <1> QED
    BY <1>1, <1>2, <1>3, <1>4

LEMMA SharesNormalize ==
    ASSUME Sound, NEW id \in OrderIds, NormalizeTouched(id), NEW p \in Players
    PROVE  OpenHeld' /\ IncomingHeld' /\ PlayerOK(p)' /\ (Exact(p) => Exact(p)')
  <1>1. /\ TypeInv /\ Normalize(id) /\ UNCHANGED <<accounts, stored>> /\ ~Placing /\ ~Placing'
    BY DEF Sound, NormalizeTouched, Placing
  <1>2. CASE id \notin DOMAIN openOrders \/ openOrders[id].rem <= 0
    BY <1>1, <1>2, NormalizeCleans, SharesCleanup
  <1>3. CASE id \in DOMAIN openOrders /\ ~(openOrders[id].rem <= 0)
    <2>1. PICK o, x, new : o = openOrders[id] /\ x = Excess(o) /\ new = Trimmed(o)
      OBVIOUS
    <2>2. o \in OpenOrder /\ o.rem \in Int /\ o.rem > 0
      <3>1. o \in OpenOrder
        BY <1>1, <1>3, <2>1, TypesKnown DEF OpenTyped
      <3> QED
        BY <1>3, <2>1, <3>1 DEF OpenOrder
    <2>3. /\ Ledger(p)' = (IF p = o.player THEN Release(Ledger(p), x) ELSE Ledger(p))
          /\ openOrders' = [openOrders EXCEPT ![id] = new] /\ x \in Reservation
      BY <1>1, <1>3, <2>1, <2>2, NormalizeLedger
    <2>4. /\ OpenHeld /\ OpenTyped(openOrders) /\ IsFiniteSet(DOMAIN openOrders)
          /\ SharesClaimed(p) \in Nat /\ CashClaimed(p) \in Nat
          /\ Offered(p) \in Nat /\ CashOfBuys(p) \in Nat
          /\ Bid(openOrders, id, p) <= CashOfBuys(p)
      BY <1>3, SoundFacts
    <2>5. o.shares = IF o.side = "sell" THEN o.rem ELSE 0
      BY <1>3, <2>1, <2>4 DEF OpenHeld
    <2>6. /\ x.shares = 0 /\ x.cash \in Nat /\ x.cash <= o.cash /\ new.shares = o.shares
          /\ o.side # "buy" => x.cash = 0
      BY <2>1, <2>2, <2>5, NoneTooMany
    <2>7. /\ new \in OpenOrder /\ new.player = o.player /\ new.side = o.side
          /\ new.price = o.price /\ new.rem = o.rem /\ new.cash = o.cash - x.cash
          /\ o.side = "buy" => new.cash <= o.price * o.rem
      BY <2>1, <2>2, TrimmedType
    <2>8. /\ DOMAIN openOrders' = DOMAIN openOrders /\ openOrders'[id] = new
          /\ \A i \in DOMAIN openOrders : i # id => openOrders'[i] = openOrders[i]
      BY <1>3, <2>3
    <2>9. OpenHeld' /\ IncomingHeld'
      <3>1. /\ new.shares = (IF new.side = "sell" THEN new.rem ELSE 0) /\ new.rem >= 0
            /\ new.side = "buy" => new.cash <= new.price * new.rem
        BY <2>2, <2>5, <2>6, <2>7
      <3> QED
        BY <1>1, <2>4, <2>8, <3>1 DEF OpenHeld, IncomingHeld
    <2>10. OpenTyped(openOrders') /\ OneChanges(id)
      BY <2>4, <2>7, <2>8 DEF OpenTyped, OneChanges
    <2>11. /\ Offered(p)' - Offer(openOrders', id, p) = Offered(p) - Offer(openOrders, id, p)
           /\ CashOfBuys(p)' - Bid(openOrders', id, p) = CashOfBuys(p) - Bid(openOrders, id, p)
           /\ Offered(p)' \in Int /\ CashOfBuys(p)' \in Nat
      BY <2>4, <2>8, <2>10, OffersMove, OpenSumsNext
    <2>12. /\ Offer(openOrders', id, p) = Offer(openOrders, id, p) /\ Offer(openOrders, id, p) \in Int
           /\ Bid(openOrders, id, p) \in Int
           /\ Bid(openOrders', id, p) = Bid(openOrders, id, p) - (IF p = o.player THEN x.cash ELSE 0)
      <3>1. o.cash \in Nat /\ x.cash \in Nat /\ o.rem \in Int
        BY <2>2, <2>6 DEF OpenOrder
      <3>2. /\ Offer(openOrders, id, p) = (IF o.player = p /\ o.side = "sell" THEN o.rem ELSE 0)
            /\ Offer(openOrders', id, p) = (IF o.player = p /\ o.side = "sell" THEN o.rem ELSE 0)
            /\ Bid(openOrders, id, p) = (IF o.player = p /\ o.side = "buy" THEN o.cash ELSE 0)
            /\ Bid(openOrders', id, p) = (IF o.player = p /\ o.side = "buy" THEN o.cash - x.cash ELSE 0)
        BY <1>3, <2>1, <2>7, <2>8 DEF Offer, Bid
      <3> QED
        BY <2>6, <3>1, <3>2
    <2>13. /\ Offered(p)' = Offered(p)
           /\ CashOfBuys(p)' = CashOfBuys(p) - (IF p = o.player THEN x.cash ELSE 0)
      BY <2>4, <2>6, <2>11, <2>12
    <2>14. /\ SharesClaimed(p)' = Offered(p)' /\ SharesClaimed(p) = Offered(p)
           /\ CashClaimed(p)' = CashOfBuys(p)' /\ CashClaimed(p) = CashOfBuys(p)
      <3>1. OwnShares(p) = 0 /\ OwnShares(p)' = 0 /\ OwnCash(p) = 0 /\ OwnCash(p)' = 0
        BY <1>1 DEF OwnShares, OwnCash
      <3> QED
        BY <2>4, <2>11, <3>1 DEF SharesClaimed, CashClaimed
    <2>15. CASE p = o.player
      <3>1. /\ SharesClaimed(p)' = SharesClaimed(p) - x.shares /\ x.shares <= SharesClaimed(p)
            /\ CashClaimed(p)' \in Nat /\ CashClaimed(p)' >= CashClaimed(p) - x.cash
        BY <2>4, <2>6, <2>11, <2>13, <2>14, <2>15
      <3> QED
        BY <1>1, <2>3, <2>9, <2>15, <3>1, PlayerReleases
    <2>16. CASE p # o.player
      <3>1. SharesClaimed(p)' = SharesClaimed(p) /\ CashClaimed(p)' = CashClaimed(p)
        BY <2>4, <2>13, <2>14, <2>16
      <3> QED
        BY <1>1, <2>3, <2>9, <2>16, <3>1, PlayerSame
    <2> QED
      BY <2>15, <2>16
  <1> QED
    BY <1>2, <1>3

(* The incoming order comes to rest: its reservation becomes the order's.  *)
LEMMA SharesRest ==
    ASSUME Sound, RestIncoming, NEW p \in Players
    PROVE  OpenHeld' /\ IncomingHeld' /\ PlayerOK(p)' /\ (Exact(p) => Exact(p)')
  <1>1. PICK id, o, x, new : /\ id = incoming.id /\ o = RestedOrder /\ x = Excess(o)
                             /\ new = Trimmed(o)
    OBVIOUS
  <1>2. /\ o \in OpenOrder /\ incoming.rem > 0 /\ settled = Len(trades)
        /\ Touch(o.player, Release(Ledger(o.player), x))
        /\ phase = "placed" /\ phase' = "closing"
        /\ DOMAIN openOrders' = DOMAIN openOrders \cup {id} /\ OpenTyped(openOrders')
        /\ \A i \in DOMAIN openOrders' : openOrders'[i] = IF i = id THEN new ELSE openOrders[i]
        /\ UNCHANGED <<accounts, stored>> /\ TypeInv
    BY <1>1, RestIncomingEffect DEF Sound, RestedOrder
  <1>3. /\ o.player = incoming.player /\ o.side = incoming.side /\ o.rem = incoming.rem
        /\ o.price = incoming.price /\ o.cash = reserved.cash /\ o.shares = reserved.shares
    BY <1>1 DEF RestedOrder
  <1>4. Placing /\ ~Placing' /\ id \notin DOMAIN openOrders
    BY <1>1, <1>2 DEF Placing, Sound, Mirror, IdsOK
  <1>5. o.shares = IF o.side = "sell" THEN o.rem ELSE 0
    <2>1. PendingShares = 0
      BY <1>2, NonePending, SumEmpty DEF PendingShares
    <2>2. o.rem \in Int
      BY <1>2 DEF OpenOrder
    <2> QED
      BY <1>3, <1>4, <2>1, <2>2, SoundFacts DEF IncomingHeld
  <1>6. o.rem \in Int /\ o.rem > 0 /\ o.cash \in Nat /\ o.shares \in Nat /\ x \in Reservation
    BY <1>1, <1>2, <1>3, ExcessType DEF OpenOrder
  <1>7. /\ x.shares = 0 /\ x.cash \in Nat /\ x.cash <= o.cash /\ new.shares = o.shares
        /\ o.side # "buy" => x.cash = 0
    BY <1>1, <1>2, <1>5, <1>6, NoneTooMany
  <1>8. /\ new \in OpenOrder /\ new.player = o.player /\ new.side = o.side
        /\ new.price = o.price /\ new.rem = o.rem /\ new.cash = o.cash - x.cash
        /\ o.side = "buy" => new.cash <= o.price * o.rem
    BY <1>1, <1>2, <1>6, TrimmedType
  <1>9. Ledger(p)' = IF p = o.player THEN Release(Ledger(p), x) ELSE Ledger(p)
    BY <1>2, TouchedLedger
  <1>10. /\ OpenHeld /\ OpenTyped(openOrders) /\ IsFiniteSet(DOMAIN openOrders)
         /\ SharesClaimed(p) \in Nat /\ CashClaimed(p) \in Nat
         /\ Offered(p) \in Nat /\ CashOfBuys(p) \in Nat
    BY SoundFacts
  <1>11. OpenHeld' /\ IncomingHeld'
    <2>1. /\ new.shares = (IF new.side = "sell" THEN new.rem ELSE 0) /\ new.rem >= 0
          /\ new.side = "buy" => new.cash <= new.price * new.rem
      BY <1>5, <1>6, <1>7, <1>8
    <2> QED
      BY <1>2, <1>4, <1>10, <2>1 DEF OpenHeld, IncomingHeld
  <1>12. OneChanges(id) /\ IsFiniteSet(DOMAIN openOrders')
    BY <1>2, <1>10, FS_AddElement DEF OneChanges
  <1>13. /\ Offered(p)' - Offer(openOrders', id, p) = Offered(p) - Offer(openOrders, id, p)
         /\ CashOfBuys(p)' - Bid(openOrders', id, p) = CashOfBuys(p) - Bid(openOrders, id, p)
         /\ Offered(p)' \in Int /\ CashOfBuys(p)' \in Nat
    BY <1>2, <1>10, <1>12, OffersMove, OpenSumsNext
  <1>14. /\ Offer(openOrders, id, p) = 0 /\ Bid(openOrders, id, p) = 0
         /\ Offer(openOrders', id, p) = (IF o.player = p /\ o.side = "sell" THEN o.rem ELSE 0)
         /\ Bid(openOrders', id, p) = (IF o.player = p /\ o.side = "buy" THEN o.cash - x.cash ELSE 0)
    BY <1>2, <1>4, <1>8 DEF Offer, Bid
  <1>15. /\ OwnShares(p) = (IF p = o.player THEN o.shares ELSE 0) /\ OwnShares(p)' = 0
         /\ OwnCash(p) = (IF p = o.player /\ o.side = "buy" THEN o.cash ELSE 0) /\ OwnCash(p)' = 0
    BY <1>3, <1>4 DEF OwnShares, OwnCash
  <1>16. PICK s, c, t, d : s = Offered(p) /\ c = CashOfBuys(p) /\ t = Offered(p)' /\ d = CashOfBuys(p)'
    OBVIOUS
  <1>17. /\ t = s + (IF o.player = p /\ o.side = "sell" THEN o.rem ELSE 0)
         /\ d = c + (IF o.player = p /\ o.side = "buy" THEN o.cash - x.cash ELSE 0)
         /\ t \in Int /\ d \in Nat /\ s \in Nat /\ c \in Nat
    BY <1>6, <1>7, <1>10, <1>13, <1>14, <1>16
  <1>18. /\ SharesClaimed(p) = s + (IF p = o.player THEN o.shares ELSE 0)
         /\ SharesClaimed(p)' = t + 0
         /\ CashClaimed(p) = c + (IF p = o.player /\ o.side = "buy" THEN o.cash ELSE 0)
         /\ CashClaimed(p)' = d + 0
    BY <1>15, <1>16 DEF SharesClaimed, CashClaimed
  <1>19. CASE p = o.player
    <2>1. /\ SharesClaimed(p)' = SharesClaimed(p) - x.shares /\ x.shares <= SharesClaimed(p)
          /\ CashClaimed(p)' \in Nat /\ CashClaimed(p)' >= CashClaimed(p) - x.cash
      BY <1>5, <1>6, <1>7, <1>17, <1>18, <1>19
    <2> QED
      BY <1>2, <1>6, <1>9, <1>11, <1>19, <2>1, PlayerReleases
  <1>20. CASE p # o.player
    <2>1. SharesClaimed(p)' = SharesClaimed(p) /\ CashClaimed(p)' = CashClaimed(p)
      BY <1>17, <1>18, <1>20
    <2> QED
      BY <1>2, <1>9, <1>11, <1>20, <2>1, PlayerSame
  <1> QED
    BY <1>19, <1>20

(* ... or its reservation ends.                                            *)
LEMMA SharesRelease ==
    ASSUME Sound, ReleaseIncoming, NEW p \in Players
    PROVE  OpenHeld' /\ IncomingHeld' /\ PlayerOK(p)' /\ (Exact(p) => Exact(p)')
  <1>1. PICK x, what : x = incoming.player /\ what = reserved
    OBVIOUS
  <1>2. /\ Touch(x, Release(Ledger(x), what)) /\ Placing /\ ~Placing'
        /\ UNCHANGED <<accounts, stored, openOrders>>
    BY <1>1 DEF ReleaseIncoming, Placing
  <1>3. Ledger(p)' = IF p = x THEN Release(Ledger(p), what) ELSE Ledger(p)
    BY <1>2, TouchedLedger
  <1>4. /\ what \in Reservation /\ what.shares \in Nat /\ what.cash \in Nat /\ OpenHeld
        /\ Offered(p) \in Nat /\ CashOfBuys(p) \in Nat
    BY <1>1, SoundFacts DEF Reservation
  <1>5. OpenHeld' /\ Offered(p)' = Offered(p) /\ CashOfBuys(p)' = CashOfBuys(p) /\ IncomingHeld'
    BY <1>2, <1>4, SameOpen DEF IncomingHeld
  <1>6. /\ OwnShares(p) = (IF p = x THEN what.shares ELSE 0) /\ OwnShares(p)' = 0
        /\ OwnCash(p) = (IF p = x /\ incoming.side = "buy" THEN what.cash ELSE 0) /\ OwnCash(p)' = 0
    BY <1>1, <1>2 DEF OwnShares, OwnCash
  <1>7. /\ SharesClaimed(p) = Offered(p) + (IF p = x THEN what.shares ELSE 0)
        /\ SharesClaimed(p)' = Offered(p) + 0
        /\ CashClaimed(p) = CashOfBuys(p) + (IF p = x /\ incoming.side = "buy" THEN what.cash ELSE 0)
        /\ CashClaimed(p)' = CashOfBuys(p) + 0
    BY <1>5, <1>6 DEF SharesClaimed, CashClaimed
  <1>8. CASE p = x
    <2>1. /\ SharesClaimed(p)' = SharesClaimed(p) - what.shares /\ what.shares <= SharesClaimed(p)
          /\ CashClaimed(p)' \in Nat /\ CashClaimed(p)' >= CashClaimed(p) - what.cash
      BY <1>4, <1>7, <1>8
    <2> QED
      BY <1>2, <1>3, <1>4, <1>5, <1>8, <2>1, PlayerReleases
  <1>9. CASE p # x
    <2>1. SharesClaimed(p)' = SharesClaimed(p) /\ CashClaimed(p)' = CashClaimed(p)
      BY <1>4, <1>7, <1>9
    <2> QED
      BY <1>2, <1>3, <1>5, <1>9, <2>1, PlayerSame
  <1> QED
    BY <1>8, <1>9

(* Applying a trade: the open order it fills still offers what it sells.   *)
LEMMA FillFits ==
    ASSUME TypeInv, Mirror, ApplyTrade, NEW t, t = trades[settled + 1]
    PROVE  /\ openOrders[Maker(t)].rem >= t.qty
           /\ t.aggressor = "buy" => openOrders[Maker(t)].side = "sell"
           /\ t.aggressor # "buy" => openOrders[Maker(t)].side = "buy"
           /\ Known(t.buyOrder) /\ Known(t.sellOrder)
  <1>1. /\ settled + 1 \in Pending /\ TradeOK(t) /\ t \in Book!Trade
    BY ApplyFills
  <1>2. PICK x : x = Maker(t)
    OBVIOUS
  <1>3. t.qty \in Nat /\ x \in DOMAIN openOrders /\ openOrders[x] \in OpenOrder
    BY <1>1, <1>2, TypesKnown DEF Book!Trade, TradeOK, OpenTyped
  <1>4. openOrders[x].rem >= t.qty
    <2>1. CASE \A o \in Book!Resting : o.id # x
      <3>1. Agrees(x, 0)
        BY <1>3, <2>1 DEF Mirror, OrdersOK
      <3>2. openOrders[x].rem = 0 + t.qty
        BY <1>1, <1>2, <3>1 DEF Agrees
      <3> QED
        BY <1>3, <3>2
    <2>2. CASE \E o \in Book!Resting : o.id = x
      <3>1. PICK o \in Book!Resting : o.id = x
        BY <2>2
      <3>2. o # incoming
        BY <1>2, <1>3, <3>1 DEF Mirror, IdsOK, Placing, ApplyTrade
      <3>3. Agrees(x, o.rem)
        BY <3>1, <3>2 DEF Mirror, OrdersOK
      <3>4. openOrders[x].rem = o.rem + t.qty
        BY <1>1, <1>2, <3>3 DEF Agrees
      <3>5. o.rem \in Nat
        BY TypesKnown, RestingTypes DEF Book!Order
      <3> QED
        BY <1>3, <3>4, <3>5
    <2> QED
      BY <2>1, <2>2
  <1>5. /\ t.aggressor = incoming.side /\ openOrders[x].side # incoming.side
        /\ openOrders[x].side \in {"buy", "sell"} /\ incoming.side \in {"buy", "sell"}
    BY <1>1, <1>2, <1>3, TypesKnown DEF TradeOK, OpenOrder, Book!Order, Book!Side
  <1>6. Known(t.buyOrder) /\ Known(t.sellOrder)
    BY <1>1, <1>2, <1>3 DEF Known, IsIncoming, TradeOK, Maker
  <1> QED
    BY <1>2, <1>4, <1>5, <1>6

(* ... and keeps no more than it must hold.                                *)
LEMMA FillHolds ==
    ASSUME NEW price \in Nat, NEW rem \in Nat, NEW qty \in Nat, qty <= rem,
           NEW cash \in Nat, cash <= price * rem, NEW pays \in Nat, price * qty <= pays
    PROVE  Less(cash, pays) <= price * (rem - qty)
  <1>1. price * rem \in Nat /\ price * qty \in Nat
    OBVIOUS
  <1>2. price * (rem - qty) = price * rem - price * qty
    OBVIOUS
  <1>3. price * (rem - qty) >= 0
    <2>1. rem - qty \in Nat
      OBVIOUS
    <2> QED
      BY <2>1
  <1>4. PICK a, b, c : a = price * rem /\ b = price * qty /\ c = price * (rem - qty)
    OBVIOUS
  <1>5. a \in Nat /\ b \in Nat /\ c = a - b /\ c >= 0 /\ cash <= a /\ b <= pays
    BY <1>1, <1>2, <1>3, <1>4
  <1> QED
    BY <1>4, <1>5 DEF Less

LEMMA ApplyHolds ==
    ASSUME Sound, ApplyTrade
    PROVE  OpenHeld'
  <1>1. PICK t : t = trades[settled + 1]
    OBVIOUS
  <1>2. /\ TypeInv /\ Mirror /\ OpenHeld /\ OpenTyped(openOrders)
    BY TypesKnown DEF Sound, SharesInv
  <1>3. /\ TradeOK(t) /\ t \in Book!Trade /\ DOMAIN openOrders' = DOMAIN openOrders
        /\ \A id \in DOMAIN openOrders :
              /\ openOrders'[id].side = openOrders[id].side
              /\ openOrders'[id].price = openOrders[id].price
              /\ openOrders'[id].rem = (IF id = Maker(t) THEN openOrders[id].rem - t.qty
                                        ELSE openOrders[id].rem)
              /\ openOrders'[id].cash = (IF id = Maker(t) /\ openOrders[id].side = "buy"
                                         THEN Less(openOrders[id].cash, BuyerPays(t))
                                         ELSE openOrders[id].cash)
              /\ openOrders'[id].shares = (IF id = Maker(t) /\ openOrders[id].side = "sell"
                                           THEN Less(openOrders[id].shares, t.qty)
                                           ELSE openOrders[id].shares)
    BY <1>1, <1>2, ApplyFills
  <1>4. PICK q, pays : q = t.qty /\ pays = BuyerPays(t)
    OBVIOUS
  <1>5. q \in Nat /\ pays \in Nat /\ t.price \in Nat /\ t.price * q <= pays
    <2>1. 0 \in Int
      OBVIOUS
    <2> QED
      BY <1>3, <1>4, <2>1, PricesOfTrade DEF Book!Trade
  <1>6. ASSUME NEW id \in DOMAIN openOrders
        PROVE  /\ openOrders'[id].shares = (IF openOrders'[id].side = "sell" THEN openOrders'[id].rem
                                            ELSE 0)
               /\ openOrders'[id].rem >= 0
               /\ openOrders'[id].side = "buy" =>
                      openOrders'[id].cash <= openOrders'[id].price * openOrders'[id].rem
    <2>1. PICK o, new : o = openOrders[id] /\ new = openOrders'[id]
      OBVIOUS
    <2>2. /\ o.shares = (IF o.side = "sell" THEN o.rem ELSE 0) /\ o.rem >= 0 /\ o.rem \in Int
          /\ o.side = "buy" => o.cash <= o.price * o.rem
          /\ o.cash \in Nat /\ o.shares \in Nat /\ o.price \in Prices
      BY <1>2, <2>1 DEF OpenHeld, OpenTyped, OpenOrder
    <2>3. CASE id # Maker(t)
      <3>1. /\ new.side = o.side /\ new.price = o.price /\ new.rem = o.rem /\ new.cash = o.cash
            /\ new.shares = o.shares
        BY <1>3, <2>1, <2>3
      <3> QED
        BY <2>1, <2>2, <3>1
    <2>4. CASE id = Maker(t)
      <3>1. /\ new.side = o.side /\ new.price = o.price /\ new.rem = o.rem - q
            /\ new.cash = (IF o.side = "buy" THEN Less(o.cash, pays) ELSE o.cash)
            /\ new.shares = (IF o.side = "sell" THEN Less(o.shares, q) ELSE o.shares)
        BY <1>3, <1>4, <2>1, <2>4
      <3>2. o.rem >= q /\ o.price = t.price
        BY <1>1, <1>2, <1>3, <1>4, <2>1, <2>4, FillFits DEF TradeOK
      <3>3. o.side = "buy" => Less(o.cash, pays) <= o.price * (o.rem - q)
        <4>1. o.rem \in Nat
          BY <2>2
        <4> QED
          BY <1>5, <2>2, <3>2, <4>1, FillHolds
      <3>4. new.shares = (IF o.side = "sell" THEN o.rem - q ELSE 0) /\ o.rem - q >= 0
        BY <1>5, <2>2, <3>1, <3>2 DEF Less
      <3> QED
        BY <2>1, <3>1, <3>3, <3>4
    <2> QED
      BY <2>3, <2>4
  <1> QED
    BY <1>3, <1>6 DEF OpenHeld

(* What the orders of a player claim before and after a trade is applied.  *)
LEMMA ApplyClaims ==
    ASSUME Sound, ApplyTrade, NEW t, t = trades[settled + 1], NEW p \in Players
    PROVE  /\ IncomingHeld'
           /\ p = t.seller => t.qty <= SharesClaimed(p)
           /\ SharesClaimed(p)' = SharesClaimed(p) - (IF p = t.seller THEN t.qty ELSE 0)
           /\ CashClaimed(p)' \in Nat
           /\ CashClaimed(p)' >= CashClaimed(p) - (IF p = t.buyer THEN BuyerPays(t) ELSE 0)
  <1>1. /\ TypeInv /\ Mirror /\ OpenHeld /\ IncomingHeld /\ OpenTyped(openOrders)
        /\ IsFiniteSet(DOMAIN openOrders) /\ Offered(p) \in Nat /\ CashOfBuys(p) \in Nat
        /\ OwnShares(p) \in Nat /\ OwnCash(p) \in Nat /\ reserved \in Reservation
        /\ \A id \in DOMAIN openOrders : Offer(openOrders, id, p) <= Offered(p)
        /\ \A id \in DOMAIN openOrders : Bid(openOrders, id, p) <= CashOfBuys(p)
    BY SoundFacts DEF Sound
  <1>2. PICK q, pays, x : q = t.qty /\ pays = BuyerPays(t) /\ x = Maker(t)
    OBVIOUS
  <1>3. PICK o, new : o = openOrders[x] /\ new = openOrders'[x]
    OBVIOUS
  <1>4. TradeOK(t) /\ t \in Book!Trade
    BY <1>1, ApplyFills
  <1>5. q \in Nat /\ pays \in Nat
    <2>1. 0 \in Int
      OBVIOUS
    <2> QED
      BY <1>2, <1>4, <2>1, PricesOfTrade DEF Book!Trade
  <1>6. /\ x \in DOMAIN openOrders /\ DOMAIN openOrders' = DOMAIN openOrders
        /\ new.player = o.player /\ new.side = o.side /\ new.rem = o.rem - q
        /\ new.cash = (IF o.side = "buy" THEN Less(o.cash, pays) ELSE o.cash)
        /\ OneChanges(x)
    BY <1>1, <1>2, <1>3, <1>4, ApplyFills DEF TradeOK, OneChanges
  <1>7. /\ OpenTyped(openOrders') /\ IsFiniteSet(DOMAIN openOrders')
        /\ o.rem \in Int /\ o.cash \in Nat
    BY <1>1, <1>3, <1>6, ApplyTradeEffect DEF OpenTyped, OpenOrder
  <1>8. PICK a, b, c, d : /\ a = Offer(openOrders, x, p) /\ b = Offer(openOrders', x, p)
                          /\ c = Bid(openOrders, x, p) /\ d = Bid(openOrders', x, p)
    OBVIOUS
  <1>9. /\ a = (IF o.player = p /\ o.side = "sell" THEN o.rem ELSE 0)
        /\ b = (IF o.player = p /\ o.side = "sell" THEN o.rem - q ELSE 0)
        /\ c = (IF o.player = p /\ o.side = "buy" THEN o.cash ELSE 0)
        /\ d = (IF o.player = p /\ o.side = "buy" THEN Less(o.cash, pays) ELSE 0)
    BY <1>3, <1>6, <1>8 DEF Offer, Bid
  <1>10. /\ Offered(p)' - b = Offered(p) - a /\ CashOfBuys(p)' - d = CashOfBuys(p) - c
         /\ Offered(p)' \in Int /\ CashOfBuys(p)' \in Nat
    BY <1>1, <1>6, <1>7, <1>8, OffersMove, OpenSumsNext
  <1>11. /\ phase = "placed" /\ UNCHANGED <<incoming, phase, trades>> /\ Placing /\ Placing'
         /\ reserved'.cash = (IF IsIncoming(t.buyOrder) THEN Less(reserved.cash, pays)
                              ELSE reserved.cash)
         /\ reserved'.shares = (IF IsIncoming(t.sellOrder) THEN Less(reserved.shares, q)
                                ELSE reserved.shares)
    BY <1>2 DEF ApplyTrade, bookVars, Placing
  <1>12. PICK i, r, z : i = incoming.player /\ r = reserved.shares /\ z = reserved.cash
    OBVIOUS
  <1>13. r \in Nat /\ z \in Nat
    BY <1>1, <1>12 DEF Reservation
  <1>14. PendingShares' = PendingShares - q /\ PendingShares \in Nat /\ q <= PendingShares
    BY <1>1, <1>2, PendingMoves
  <1>15. PICK s, g, s2, g2 : /\ s = Offered(p) /\ g = CashOfBuys(p)
                             /\ s2 = Offered(p)' /\ g2 = CashOfBuys(p)'
    OBVIOUS
  <1>16. /\ s \in Nat /\ g \in Nat /\ s2 \in Int /\ g2 \in Nat /\ s2 - b = s - a /\ g2 - d = g - c
         /\ a <= s /\ c <= g
    BY <1>1, <1>6, <1>8, <1>10, <1>15
  <1>17. x # incoming.id
    BY <1>6, <1>11 DEF Sound, Mirror, IdsOK
  <1>18. CASE t.aggressor = "buy"
    <2>1. /\ incoming.side = "buy" /\ t.buyOrder = incoming.id /\ t.sellOrder = x
          /\ t.buyer = i /\ o.player = t.seller /\ o.side = "sell" /\ o.rem >= q
      BY <1>1, <1>2, <1>3, <1>4, <1>12, <1>18, FillFits DEF TradeOK, Maker
    <2>2. reserved'.cash = Less(z, pays) /\ reserved'.shares = r
      BY <1>11, <1>12, <1>17, <2>1 DEF IsIncoming
    <2>3. /\ OwnShares(p) = (IF p = i THEN r ELSE 0) /\ OwnShares(p)' = (IF p = i THEN r ELSE 0)
          /\ OwnCash(p) = (IF p = i THEN z ELSE 0)
          /\ OwnCash(p)' = (IF p = i THEN Less(z, pays) ELSE 0)
      BY <1>11, <1>12, <2>1, <2>2 DEF OwnShares, OwnCash
    <2>4. /\ SharesClaimed(p) = s + (IF p = i THEN r ELSE 0)
          /\ SharesClaimed(p)' = s2 + (IF p = i THEN r ELSE 0)
          /\ CashClaimed(p) = g + (IF p = i THEN z ELSE 0)
          /\ CashClaimed(p)' = g2 + (IF p = i THEN Less(z, pays) ELSE 0)
      BY <1>15, <2>3 DEF SharesClaimed, CashClaimed
    <2>5. s2 = s - (IF p = t.seller THEN q ELSE 0) /\ (p = t.seller => q <= s) /\ g2 = g
      BY <1>5, <1>7, <1>9, <1>16, <2>1
    <2>6. /\ p = t.seller => q <= SharesClaimed(p)
          /\ SharesClaimed(p)' = SharesClaimed(p) - (IF p = t.seller THEN q ELSE 0)
      BY <1>5, <1>13, <1>16, <2>4, <2>5
    <2>7. /\ CashClaimed(p)' \in Nat
          /\ CashClaimed(p)' >= CashClaimed(p) - (IF p = t.buyer THEN pays ELSE 0)
      BY <1>5, <1>13, <1>16, <2>1, <2>4, <2>5 DEF Less
    <2>8. IncomingHeld'
      BY <1>1, <1>11, <1>12, <2>1, <2>2 DEF IncomingHeld
    <2> QED
      BY <1>2, <2>6, <2>7, <2>8
  <1>19. CASE t.aggressor # "buy"
    <2>1. /\ incoming.side # "buy" /\ t.sellOrder = incoming.id /\ t.buyOrder = x
          /\ t.seller = i /\ o.player = t.buyer /\ o.side = "buy"
      BY <1>1, <1>2, <1>3, <1>4, <1>12, <1>19, FillFits DEF TradeOK, Maker
    <2>2. incoming.side = "sell" /\ incoming.rem \in Nat
      BY <1>1, <2>1, TypesKnown DEF Book!Order, Book!Side
    <2>3. reserved'.cash = z /\ reserved'.shares = Less(r, q)
      BY <1>11, <1>12, <1>17, <2>1 DEF IsIncoming
    <2>4. r = incoming.rem + PendingShares
      BY <1>1, <1>11, <1>12, <2>2 DEF IncomingHeld
    <2>5. q <= r /\ reserved'.shares = r - q
      BY <1>5, <1>13, <1>14, <2>2, <2>3, <2>4 DEF Less
    <2>6. /\ OwnShares(p) = (IF p = i THEN r ELSE 0) /\ OwnShares(p)' = (IF p = i THEN r - q ELSE 0)
          /\ OwnCash(p) = 0 /\ OwnCash(p)' = 0
      BY <1>11, <1>12, <2>1, <2>5 DEF OwnShares, OwnCash
    <2>7. /\ SharesClaimed(p) = s + (IF p = i THEN r ELSE 0)
          /\ SharesClaimed(p)' = s2 + (IF p = i THEN r - q ELSE 0)
          /\ CashClaimed(p) = g + 0 /\ CashClaimed(p)' = g2 + 0
      BY <1>15, <2>6 DEF SharesClaimed, CashClaimed
    <2>8. s2 = s /\ g2 >= g - (IF p = t.buyer THEN pays ELSE 0)
      BY <1>5, <1>7, <1>9, <1>16, <2>1 DEF Less
    <2>9. /\ p = t.seller => q <= SharesClaimed(p)
          /\ SharesClaimed(p)' = SharesClaimed(p) - (IF p = t.seller THEN q ELSE 0)
      BY <1>5, <1>13, <1>16, <2>1, <2>5, <2>7, <2>8
    <2>10. /\ CashClaimed(p)' \in Nat
           /\ CashClaimed(p)' >= CashClaimed(p) - (IF p = t.buyer THEN pays ELSE 0)
      BY <1>5, <1>16, <2>7, <2>8
    <2>11. IncomingHeld'
      <3>1. r - q = incoming.rem + (PendingShares - q)
        BY <1>5, <1>13, <1>14, <2>2, <2>4
      <3> QED
        BY <1>11, <1>14, <2>2, <2>5, <3>1 DEF IncomingHeld
    <2> QED
      BY <1>2, <2>9, <2>10, <2>11
  <1> QED
    BY <1>18, <1>19

(* A covered account that trades stays covered: the floor at zero is never *)
(* reached.                                                                *)
LEMMA TradeCovers ==
    ASSUME NEW a \in Account, NEW p, NEW t \in Book!Trade,
           placed \in 1..MaxOrders, expired \in 0..MaxOrders,
           NEW n \in Nat, Covers(a, n), Known(t.sellOrder), p = t.seller => t.qty <= n
    PROVE  /\ Traded(a, p, t) \in Account
           /\ Covers(Traded(a, p, t), n - (IF p = t.seller THEN t.qty ELSE 0))
           /\ Traded(a, p, t).reservedShares =
                  a.reservedShares - (IF p = t.seller THEN t.qty ELSE 0)
           /\ Traded(a, p, t).shares =
                  a.shares + (IF p = t.buyer THEN t.qty ELSE 0)
                           - (IF p = t.seller THEN t.qty ELSE 0)
  <1>1. PICK q, new, kept : q = t.qty /\ new = Traded(a, p, t) /\ kept = LotsKept(a, p, t)
    OBVIOUS
  <1>2. /\ new \in Account
        /\ new.shares = (IF p = t.seller THEN Less(SharesHeld(a, p, t), q) ELSE SharesHeld(a, p, t))
        /\ new.lots = (IF p = t.buyer THEN WithLot(kept, q) ELSE kept)
        /\ new.reservedShares = (IF p = t.seller THEN Less(a.reservedShares, q)
                                 ELSE a.reservedShares)
    BY <1>1, TradedFields
  <1>3. /\ q \in Nat /\ a.shares \in Nat /\ a.reservedShares \in Nat
        /\ a.lots \in [1..MaxOrders -> Nat]
    BY <1>1 DEF Book!Trade, Account
  <1>4. /\ n <= a.reservedShares /\ a.reservedShares <= a.shares
        /\ SumFunction(a.lots) <= a.shares
    BY DEF Covers
  <1>5. PICK sum : sum = SumFunction(a.lots)
    OBVIOUS
  <1>6. /\ sum \in Nat /\ kept \in [1..MaxOrders -> Nat]
        /\ SumFunction(kept) = (IF p = t.seller THEN sum - Least(q, sum) ELSE sum)
    BY <1>1, <1>3, <1>5, LotsConsumed, LotsAfterSaleType DEF LotsKept
  <1>7. SumFunction(new.lots) = SumFunction(kept) + (IF p = t.buyer THEN q ELSE 0)
    <2>1. CASE p = t.buyer
      <3>1. PICK more : more = [kept EXCEPT ![placed] = kept[placed] + q]
        OBVIOUS
      <3>2. SumFunction(more) = SumFunction(kept) + q
        BY <1>3, <1>6, <3>1, LotAdded
      <3>3. new.lots = more
        BY <1>2, <2>1, <3>1 DEF WithLot
      <3> QED
        BY <2>1, <3>2, <3>3
    <2>2. CASE p # t.buyer
      <3>1. SumFunction(kept) \in Int
        BY <1>3, <1>6 DEF Least
      <3> QED
        BY <1>2, <2>2, <3>1
    <2> QED
      BY <2>1, <2>2
  <1>8. PICK b, s : b = (IF p = t.buyer THEN q ELSE 0) /\ s = (IF p = t.seller THEN q ELSE 0)
    OBVIOUS
  <1>9. b \in Nat /\ s \in Nat /\ s <= n /\ (p = t.seller => s = q) /\ (p # t.seller => s = 0)
    BY <1>1, <1>3, <1>8
  <1>10. SharesHeld(a, p, t) = a.shares + b
    BY <1>1, <1>8 DEF SharesHeld
  <1>11. /\ new.shares = a.shares + b - s /\ new.reservedShares = a.reservedShares - s
    <2>1. CASE p = t.seller
      <3>1. new.shares = Less(a.shares + b, q) /\ new.reservedShares = Less(a.reservedShares, q)
        BY <1>2, <1>10, <2>1
      <3>2. s = q /\ q <= a.reservedShares /\ q <= a.shares + b
        BY <1>3, <1>4, <1>9, <2>1
      <3> QED
        BY <1>3, <1>9, <3>1, <3>2 DEF Less
    <2>2. CASE p # t.seller
      BY <1>2, <1>3, <1>9, <1>10, <2>2
    <2> QED
      BY <2>1, <2>2
  <1>12. SumFunction(new.lots) <= a.shares + b - s
    <2>1. PICK left : left = SumFunction(kept)
      OBVIOUS
    <2>2. left \in Nat /\ left <= a.shares - s
      <3>1. CASE p = t.seller
        <4>1. left = sum - Least(q, sum) /\ s = q
          BY <1>6, <1>9, <2>1, <3>1
        <4> QED
          BY <1>3, <1>4, <1>5, <1>6, <1>9, <4>1 DEF Least
      <3>2. CASE p # t.seller
        BY <1>3, <1>4, <1>5, <1>6, <1>9, <2>1, <3>2
      <3> QED
        BY <3>1, <3>2
    <2>3. SumFunction(new.lots) = left + b
      BY <1>7, <1>8, <2>1
    <2> QED
      BY <1>3, <1>9, <2>2, <2>3
  <1>13. Covers(new, n - s)
    BY <1>3, <1>4, <1>9, <1>11, <1>12 DEF Covers
  <1> QED
    BY <1>1, <1>2, <1>8, <1>11, <1>13

LEMMA SharesApply ==
    ASSUME Sound, ApplyTrade, NEW p \in Players
    PROVE  /\ IncomingHeld' /\ PlayerOK(p)' /\ (Exact(p) => Exact(p)')
           /\ Ledger(p)'.shares =
                  Ledger(p).shares + (IF p = trades[settled + 1].buyer THEN trades[settled + 1].qty ELSE 0)
                                   - (IF p = trades[settled + 1].seller THEN trades[settled + 1].qty ELSE 0)
  <1>1. PICK t, l, n : t = trades[settled + 1] /\ l = Ledger(p) /\ n = SharesClaimed(p)
    OBVIOUS
  <1>2. /\ TypeInv /\ Mirror /\ l \in Account /\ n \in Nat /\ Covers(l, n)
        /\ Covers(accounts[p], n) /\ accounts[p] \in Account /\ Covers(stored[p], 0)
        /\ CashClaimed(p) \in Nat
    BY <1>1, SoundFacts DEF Sound, PlayerOK
  <1>3. /\ t \in Book!Trade /\ placed \in 1..MaxOrders /\ expired \in 0..MaxOrders
        /\ UNCHANGED <<accounts, stored>>
    BY <1>1, <1>2, ApplyTradeEffect DEF ApplyTrade
  <1>4. /\ Known(t.buyOrder) /\ Known(t.sellOrder)
    BY <1>1, <1>2, FillFits
  <1>5. PICK q, pays, s : /\ q = t.qty /\ pays = BuyerPays(t)
                          /\ s = (IF p = t.seller THEN q ELSE 0)
    OBVIOUS
  <1>6. /\ IncomingHeld' /\ (p = t.seller => q <= n) /\ SharesClaimed(p)' = n - s
        /\ CashClaimed(p)' \in Nat
        /\ CashClaimed(p)' >= CashClaimed(p) - (IF p = t.buyer THEN pays ELSE 0)
    BY <1>1, <1>5, ApplyClaims
  <1>7. q \in Nat /\ pays \in Nat /\ s \in Nat /\ s <= n
    <2>1. q \in Nat /\ 0 \in Int
      BY <1>3, <1>5 DEF Book!Trade
    <2>2. pays \in Nat
      BY <1>3, <1>5, <2>1, PricesOfTrade
    <2> QED
      BY <1>2, <1>5, <1>6, <2>1, <2>2
  <1>8. PICK new : new = Traded(l, p, t)
    OBVIOUS
  <1>9. /\ new \in Account /\ Covers(new, n - s) /\ new.reservedShares = l.reservedShares - s
        /\ new.shares = l.shares + (IF p = t.buyer THEN q ELSE 0) - s
    BY <1>2, <1>3, <1>4, <1>5, <1>6, <1>8, TradeCovers
  <1>10. new.reservedCash = (IF p = t.buyer THEN Less(l.reservedCash, pays) ELSE l.reservedCash)
    BY <1>2, <1>3, <1>4, <1>5, <1>8, TradedFields
  <1>11. Ledger(p)' = IF p \in {t.buyer, t.seller} THEN new ELSE l
    BY <1>1, <1>2, <1>8, TradedLedger
  <1>12. /\ l.shares \in Nat /\ l.reservedShares \in Nat /\ l.reservedCash \in Nat
    BY <1>2 DEF Account
  <1>13. PICK after : after = Ledger(p)'
    OBVIOUS
  <1>14. /\ Covers(after, n - s) /\ after.reservedShares = l.reservedShares - s
         /\ after.shares = l.shares + (IF p = t.buyer THEN q ELSE 0) - s
         /\ after.reservedCash = (IF p = t.buyer THEN Less(l.reservedCash, pays) ELSE l.reservedCash)
    <2>1. CASE p \in {t.buyer, t.seller}
      BY <1>9, <1>10, <1>11, <1>13, <2>1
    <2>2. CASE p \notin {t.buyer, t.seller}
      <3>1. after = l /\ s = 0 /\ p # t.buyer
        BY <1>5, <1>11, <1>13, <2>2
      <3>2. Covers(l, n - s)
        BY <1>2, <3>1
      <3> QED
        BY <1>12, <3>1, <3>2
    <2> QED
      BY <2>1, <2>2
  <1>15. Covers(accounts[p], n - s)
    <2>1. n - s \in Int /\ n - s <= n
      BY <1>2, <1>7
    <2> QED
      BY <1>2, <2>1 DEF Covers, Account
  <1>16. PlayerOK(p)'
    BY <1>2, <1>3, <1>6, <1>13, <1>14, <1>15 DEF PlayerOK
  <1>17. ASSUME Exact(p) PROVE Exact(p)'
    <2>1. l.reservedShares <= n /\ l.reservedCash <= CashClaimed(p)
      BY <1>1, <1>17 DEF Exact
    <2>2. after.reservedCash <= CashClaimed(p)'
      BY <1>2, <1>6, <1>7, <1>12, <1>14, <2>1 DEF Less
    <2>3. after.reservedShares <= n - s
      BY <1>2, <1>7, <1>12, <1>14, <2>1
    <2> QED
      BY <1>6, <1>13, <2>2, <2>3 DEF Exact
  <1> QED
    BY <1>1, <1>5, <1>6, <1>13, <1>14, <1>16, <1>17

(* Saving the copies, and the end of a call that cannot.                   *)
LEMMA SharesSaved ==
    ASSUME Sound, NEW x \in Players, Save(x) \/ SaveFails(x), NEW p \in Players
    PROVE  OpenHeld' /\ IncomingHeld' /\ PlayerOK(p)' /\ (Save(x) /\ Exact(p) => Exact(p)')
  <1>1. /\ TypeInv /\ ~Placing /\ phase' \in {"idle", "closing"} /\ UNCHANGED openOrders
        /\ stored' = stored \/ stored' = accounts'
    BY CallEndsTypes DEF Sound, Save, SaveFails, Saving, Placing
  <1>2. ~Placing'
    BY <1>1 DEF Placing
  <1>3. OpenHeld' /\ Offered(p)' = Offered(p) /\ CashOfBuys(p)' = CashOfBuys(p) /\ IncomingHeld'
    BY <1>1, <1>2, SoundFacts, SameOpen DEF IncomingHeld
  <1>4. SharesClaimed(p)' = SharesClaimed(p) /\ CashClaimed(p)' = CashClaimed(p)
    BY <1>1, <1>2, <1>3 DEF SharesClaimed, CashClaimed, OwnShares, OwnCash
  <1>5. CASE Save(x)
    <2>1. Ledger(p)' = Ledger(p) /\ accounts'[p] = IF p = x THEN Ledger(p) ELSE accounts[p]
      BY <1>1, <1>5, SavedLedger
    <2>2. accounts'[p] \in {accounts[p], Ledger(p)} /\ stored'[p] \in {stored[p], accounts'[p]}
      BY <1>1, <2>1
    <2> QED
      BY <1>3, <1>4, <2>1, <2>2, PlayerSame
  <1>6. CASE SaveFails(x)
    <2>1. Ledger(p)' = accounts'[p] /\ accounts'[p] = IF p = x THEN Ledger(p) ELSE accounts[p]
      BY <1>1, <1>6, SaveFailsLedger
    <2>2. PICK n : n = SharesClaimed(p)
      OBVIOUS
    <2>3. /\ n \in Nat /\ Covers(Ledger(p), n) /\ Covers(accounts[p], n) /\ Covers(stored[p], 0)
      BY <2>2, SoundFacts DEF PlayerOK
    <2>4. Covers(accounts'[p], n) /\ stored' = stored
      BY <1>6, <2>1, <2>3 DEF SaveFails
    <2>5. PlayerOK(p)'
      BY <1>4, <2>1, <2>2, <2>3, <2>4 DEF PlayerOK
    <2>6. ~Save(x) \/ Ledger(p)' = Ledger(p)
      BY <1>1, SavedLedger
    <2> QED
      BY <1>3, <1>4, <2>5, <2>6 DEF Exact
  <1> QED
    BY <1>5, <1>6

(* A restart: what the file says is covered, and no order is open.         *)
LEMMA SharesCrash ==
    ASSUME Sound, Crash, NEW p \in Players
    PROVE  OpenHeld' /\ IncomingHeld' /\ PlayerOK(p)'
  <1>1. /\ CallEnds /\ DOMAIN openOrders' = {} /\ accounts' = stored /\ UNCHANGED stored
    BY DEF Crash
  <1>2. ~Placing' /\ Ledger(p)' = stored[p]
    BY <1>1, CallEndsTypes DEF Placing, Ledger
  <1>3. OpenHeld' /\ IncomingHeld'
    BY <1>1, <1>2 DEF OpenHeld, IncomingHeld
  <1>4. SharesClaimed(p)' = 0
    <2>1. OpenOrdersOf(p, "sell")' = {}
      BY <1>1 DEF OpenOrdersOf
    <2>2. Offered(p)' = 0
      BY <2>1, SumEmpty DEF Offered
    <2>3. OwnShares(p)' = 0
      BY <1>2 DEF OwnShares
    <2> QED
      BY <2>2, <2>3 DEF SharesClaimed
  <1>5. Covers(stored[p], 0)
    BY SoundFacts DEF PlayerOK
  <1> QED
    BY <1>1, <1>2, <1>3, <1>4, <1>5 DEF PlayerOK

LEMMA SharesStep ==
    ASSUME Sound, [Next]_vars, "cache" \notin faults', NEW p \in Players
    PROVE  OpenHeld' /\ IncomingHeld' /\ PlayerOK(p)' /\ (faults' = {} /\ Exact(p) => Exact(p)')
  <1>1. TypeInv /\ OpenHeld /\ IncomingHeld
    BY SoundFacts DEF Sound
  <1>2. ASSUME UNCHANGED <<openOrders, copies, accounts, stored, reserved>>,
               Placing' => Placing, Placing => Placing',
               incoming'.player = incoming.player, incoming'.side = incoming.side
        PROVE  OpenHeld' /\ PlayerOK(p)' /\ (Exact(p) => Exact(p)')
    <2>1. OpenHeld' /\ Offered(p)' = Offered(p) /\ CashOfBuys(p)' = CashOfBuys(p)
      BY <1>1, <1>2, SameOpen
    <2>2. OwnShares(p)' = OwnShares(p) /\ OwnCash(p)' = OwnCash(p) /\ Ledger(p)' = Ledger(p)
      BY <1>2 DEF OwnShares, OwnCash, Ledger
    <2> QED
      BY <1>2, <2>1, <2>2, PlayerSame DEF SharesClaimed, CashClaimed
  <1>3. ASSUME NEW r \in Book!Request, NEW quote \in Quotes,
               PlaceOrder(r, quote) \/ PlaceUnsaved(r, quote)
        PROVE  OpenHeld' /\ IncomingHeld' /\ PlayerOK(p)' /\ (faults' = {} /\ Exact(p) => Exact(p)')
    <2>1. PlayerOK(p)' /\ (faults' = {} /\ Exact(p) => Exact(p)')
      BY <1>3, SharesReserved
    <2>2. ReserveFor(r, quote)
      BY <1>3 DEF PlaceOrder, PlaceUnsaved
    <2>3. phase = "idle" /\ UNCHANGED openOrders
      BY <1>1, <2>2, ReserveForEffect
    <2>4. OpenHeld'
      BY <1>1, <2>3, SameOpen
    <2>5. IncomingHeld'
      <3>1. CASE PlaceOrder(r, quote)
        <4>1. /\ incoming'.rem = r.qty /\ incoming'.side = r.side /\ trades' = <<>> /\ r.qty \in Nat
              /\ reserved' = ToReserve(r, quote)
          BY <1>1, <3>1, TypesKnown, StartEffect DEF PlaceOrder
        <4>2. reserved'.shares = IF r.side = "buy" THEN 0 ELSE r.qty
          BY <4>1, ToReserveType
        <4>3. PendingShares' = 0
          <5>1. settled = 0 /\ settled' = settled /\ Len(trades') = 0
            BY <1>1, <2>3, <3>1, <4>1, IdleSettledNone DEF PlaceOrder
          <5>2. Pending' = {}
            BY <5>1 DEF Pending
          <5> QED
            BY <5>2, SumEmpty DEF PendingShares
        <4>4. r.side = "buy" \/ r.side = "sell"
          BY DEF Book!Request, Book!Side
        <4> QED
          BY <4>1, <4>2, <4>3, <4>4 DEF IncomingHeld
      <3>2. CASE PlaceUnsaved(r, quote)
        BY <2>3, <3>2 DEF PlaceUnsaved, callVars, IncomingHeld, Placing
      <3> QED
        BY <1>3, <3>1, <3>2
    <2> QED
      BY <2>1, <2>4, <2>5
  <1>4. ASSUME NEW r \in Book!Request, NEW quote \in Quotes, PlaceRejected(r, quote)
        PROVE  OpenHeld' /\ IncomingHeld' /\ PlayerOK(p)' /\ (Exact(p) => Exact(p)')
    <2>1. PlayerOK(p)' /\ (Exact(p) => Exact(p)')
      BY <1>4, SharesRejected
    <2>2. ReserveFor(r, quote) /\ phase' = "closing"
      BY <1>4 DEF PlaceRejected, Undo
    <2>3. UNCHANGED openOrders
      BY <1>1, <2>2, ReserveForEffect
    <2> QED
      BY <1>1, <2>1, <2>2, <2>3, SameOpen DEF IncomingHeld, Placing
  <1>5. ASSUME Match PROVE OpenHeld' /\ IncomingHeld' /\ PlayerOK(p)' /\ (Exact(p) => Exact(p)')
    <2>1. incoming'.player = incoming.player /\ incoming'.side = incoming.side
      <3>1. Book!MatchStep /\ BP!IInv /\ incoming \in Book!Order
        BY <1>1, <1>5, TypesKnown DEF Match
      <3>2. PICK q : incoming' = [incoming EXCEPT !.rem = incoming.rem - q]
        BY <3>1, MatchEffect
      <3> QED
        BY <3>1, <3>2 DEF Book!Order
    <2>2. UNCHANGED <<openOrders, copies, accounts, stored, reserved, phase>>
      BY <1>5 DEF Match
    <2> QED
      BY <1>2, <1>5, <2>1, <2>2, SharesMatch DEF Placing
  <1>6. ASSUME Finish PROVE OpenHeld' /\ IncomingHeld' /\ PlayerOK(p)' /\ (Exact(p) => Exact(p)')
    <2>1. /\ pc = "matching" /\ UNCHANGED <<incoming, trades>> /\ phase' = "placed"
          /\ UNCHANGED <<openOrders, copies, accounts, stored, reserved, settled>>
      BY <1>1, <1>6, TypesKnown, FinishEffect DEF Finish
    <2>2. phase = "placing"
      BY <1>1, <2>1 DEF TypeInv, CallOK
    <2>3. PendingShares' = PendingShares /\ Placing /\ Placing'
      BY <2>1, <2>2 DEF PendingShares, Pending, Placing
    <2>4. IncomingHeld'
      BY <1>1, <2>1, <2>3 DEF IncomingHeld
    <2> QED
      BY <1>2, <2>1, <2>3, <2>4
  <1>7. ~CacheFails
    BY DEF CacheFails, GoesWrong
  <1>8. ASSUME CleanRemoved
        PROVE  OpenHeld' /\ IncomingHeld' /\ PlayerOK(p)' /\ (Exact(p) => Exact(p)')
    <2>1. /\ ~Placing /\ ~Placing' /\ Cleanup(Head(removed)) /\ UNCHANGED <<accounts, stored>>
      BY <1>8 DEF CleanRemoved, Placing
    <2> QED
      BY <2>1, SharesCleanup
  <1>9. ASSUME LotsExpire \/ UNCHANGED vars
        PROVE  OpenHeld' /\ IncomingHeld' /\ PlayerOK(p)' /\ (Exact(p) => Exact(p)')
    <2>1. UNCHANGED <<openOrders, copies, accounts, stored, reserved, incoming, trades, settled, phase>>
      BY <1>9 DEF LotsExpire, vars, bookVars, callVars
    <2>2. IncomingHeld'
      BY <1>1, <2>1 DEF IncomingHeld, Placing, PendingShares, Pending
    <2> QED
      BY <1>2, <2>1, <2>2 DEF Placing
  <1>10. ASSUME Crash
         PROVE  OpenHeld' /\ IncomingHeld' /\ PlayerOK(p)' /\ (faults' = {} /\ Exact(p) => Exact(p)')
    <2>1. faults' # {}
      BY <1>10 DEF Crash, GoesWrong
    <2> QED
      BY <1>10, <2>1, SharesCrash
  <1>11. ASSUME NEW x \in Players, Save(x) \/ SaveFails(x)
         PROVE  OpenHeld' /\ IncomingHeld' /\ PlayerOK(p)' /\ (faults' = {} /\ Exact(p) => Exact(p)')
    <2>1. SaveFails(x) => faults' # {}
      BY DEF SaveFails, GoesWrong
    <2> QED
      BY <1>11, <2>1, SharesSaved
  <1>12. ASSUME ApplyTrade
         PROVE  OpenHeld' /\ IncomingHeld' /\ PlayerOK(p)' /\ (Exact(p) => Exact(p)')
    BY <1>12, ApplyHolds, SharesApply
  <1> QED
    BY <1>3, <1>4, <1>5, <1>6, <1>7, <1>8, <1>9, <1>10, <1>11, <1>12,
       SharesRest, SharesRelease, SharesNormalize, SharesCancel DEF Next

LEMMA IssuedStep ==
    ASSUME TypeInv, IsFiniteSet(issued), [Next]_vars
    PROVE  IsFiniteSet(issued')
  <1>1. ASSUME NEW r \in Book!Request, NEW quote \in Quotes, ReserveFor(r, quote)
        PROVE  IsFiniteSet(issued')
    <2>1. issued' = issued \cup {r.id}
      BY <1>1 DEF ReserveFor
    <2> QED
      BY <2>1, FS_AddElement
  <1>2. \/ \E r \in Book!Request, quote \in Quotes : ReserveFor(r, quote)
        \/ UNCHANGED issued
    BY DEF Next, vars, PlaceOrder, PlaceRejected, PlaceUnsaved, Match, Finish, CacheFails,
           ApplyTrade, RestIncoming, ReleaseIncoming, CleanRemoved, NormalizeTouched, Save,
           SaveFails, CancelOrder, LotsExpire, Crash
  <1> QED
    BY <1>1, <1>2

LEMMA SharesInit == ASSUME Init, NEW p \in Players PROVE PlayerOK(p) /\ Exact(p) /\ OpenHeld /\ IncomingHeld
  <1>1. TypeInv
    BY InitTypes
  <1>2. /\ phase = "idle" /\ DOMAIN openOrders = {} /\ stored = accounts /\ DOMAIN copies = {}
        /\ accounts = OpeningAccounts
    BY DEF Init
  <1>3. Ledger(p) = accounts[p] /\ OpenHeld /\ IncomingHeld
    BY <1>2 DEF Ledger, OpenHeld, IncomingHeld, Placing
  <1>4. Offered(p) = 0 /\ CashOfBuys(p) = 0
    <2>1. OpenOrdersOf(p, "sell") = {} /\ OpenOrdersOf(p, "buy") = {}
      BY <1>2 DEF OpenOrdersOf
    <2> QED
      BY <2>1, SumEmpty DEF Offered, CashOfBuys
  <1>5. SharesClaimed(p) = 0 /\ CashClaimed(p) = 0
    <2>1. OwnShares(p) = 0 /\ OwnCash(p) = 0
      BY <1>2 DEF OwnShares, OwnCash, Placing
    <2> QED
      BY <1>4, <2>1 DEF SharesClaimed, CashClaimed
  <1>6. PICK a : a = accounts[p]
    OBVIOUS
  <1>7. /\ a.reservedShares = 0 /\ a.reservedCash = 0 /\ a.shares \in Nat
        /\ a.lots = [n \in 1..MaxOrders |-> 0]
    BY <1>2, <1>6, OpeningSharesAssumption DEF OpeningAccounts
  <1>8. SumFunction(a.lots) = 0
    <2>1. PICK lots : lots = [n \in 1..MaxOrders |-> 0]
      OBVIOUS
    <2>2. SumFunctionOnSet(lots, 1..MaxOrders) = 0
      BY <2>1, BookAssumption, FS_Interval, SumOfZeros
    <2> QED
      BY <1>7, <2>1, <2>2 DEF SumFunction
  <1>9. Covers(a, 0)
    BY <1>7, <1>8 DEF Covers
  <1> QED
    BY <1>2, <1>3, <1>5, <1>6, <1>7, <1>9 DEF PlayerOK, Exact

(* The two invariants over all players.                                    *)
SoundInv == IsFiniteSet(issued) /\ ("cache" \notin faults => SharesInv)

ExactInv == faults = {} => \A p \in Players : Exact(p)

LEMMA SoundHolds == Spec => []SoundInv
  <1>1. Init => SoundInv
    <2> SUFFICES ASSUME Init PROVE SoundInv
      OBVIOUS
    <2>1. IsFiniteSet(issued)
      BY FS_EmptySet DEF Init
    <2>2. OpenHeld /\ IncomingHeld
      BY DEF Init, OpenHeld, IncomingHeld, Placing
    <2> QED
      BY <2>1, <2>2, SharesInit DEF SoundInv, SharesInv, PlayerOK
  <1>2. ASSUME TypeInv, MirrorInv, SoundInv, [Next]_vars PROVE SoundInv'
    <2>1. IsFiniteSet(issued')
      BY <1>2, IssuedStep DEF SoundInv
    <2>2. ASSUME "cache" \notin faults' PROVE SharesInv'
      <3>1. Sound /\ incoming.player \in Players
        BY <1>2, <2>2, FaultsStay, TypesKnown DEF SoundInv, MirrorInv, Sound, Book!Order
      <3>2. OpenHeld' /\ IncomingHeld'
        BY <1>2, <2>2, <3>1, SharesStep
      <3>3. ASSUME NEW p \in Players PROVE PlayerOK(p)'
        BY <1>2, <2>2, <3>1, SharesStep
      <3> QED
        BY <3>2, <3>3 DEF SharesInv, PlayerOK
    <2> QED
      BY <2>1, <2>2 DEF SoundInv
  <1> QED
    BY <1>1, <1>2, TypesHold, MirrorHolds, PTL DEF Spec

LEMMA ExactHolds == Spec => []ExactInv
  <1>1. Init => ExactInv
    BY SharesInit DEF ExactInv
  <1>2. ASSUME TypeInv, MirrorInv, SoundInv, ExactInv, [Next]_vars PROVE ExactInv'
    <2>1. ASSUME faults' = {}, NEW p \in Players PROVE Exact(p)'
      <3>1. faults = {} /\ Sound
        BY <1>2, <2>1, FaultsStay DEF SoundInv, MirrorInv, Sound
      <3> QED
        BY <1>2, <2>1, <3>1, SharesStep DEF ExactInv
    <2> QED
      BY <2>1 DEF ExactInv
  <1> QED
    BY <1>1, <1>2, TypesHold, MirrorHolds, SoundHolds, PTL DEF Spec

----------------------------------------------------------------------------
(* What the invariants say                                                 *)

LEMMA SoundState ==
    ASSUME TypeInv, MirrorInv, SoundInv, "cache" \notin faults
    PROVE  Sound
  BY DEF MirrorInv, SoundInv, Sound

(* A player never sells what it does not have: whatever save fails and     *)
(* whenever the process stops, what an account has reserved is there, in   *)
(* every step of a call, in memory and in the file, and between two calls  *)
(* all shares offered by open orders are reserved.                         *)
THEOREM ReservationsBacked == Spec => []ReservedSharesBacked
  <1>1. TypeInv /\ MirrorInv /\ SoundInv => ReservedSharesBacked
    <2> SUFFICES ASSUME TypeInv, MirrorInv, SoundInv, "cache" \notin faults, NEW p \in Players
                 PROVE  /\ Ledger(p).reservedShares <= Ledger(p).shares
                        /\ stored[p].reservedShares <= stored[p].shares
                        /\ phase = "idle" => Offered(p) <= accounts[p].reservedShares
      BY DEF ReservedSharesBacked
    <2>1. PlayerOK(p) /\ Offered(p) \in Nat
      BY SoundState, SoundFacts
    <2>2. ASSUME phase = "idle" PROVE Offered(p) <= accounts[p].reservedShares
      <3>1. SharesClaimed(p) = Offered(p)
        BY <2>1, <2>2 DEF SharesClaimed, OwnShares, Placing
      <3> QED
        BY <2>1, <3>1 DEF PlayerOK, Covers
    <2> QED
      BY <2>1, <2>2 DEF PlayerOK, Covers
  <1> QED
    BY <1>1, TypesHold, MirrorHolds, SoundHolds, PTL

(* As long as nothing fails, the shares reserved on an account between two *)
(* calls are exactly those its open orders offer.                          *)
THEOREM SharesInSync == Spec => []ShareReservationsInSync
  <1>1. TypeInv /\ MirrorInv /\ SoundInv /\ ExactInv => ShareReservationsInSync
    <2> SUFFICES ASSUME TypeInv, MirrorInv, SoundInv, ExactInv, phase = "idle", faults = {},
                        NEW p \in Players
                 PROVE  accounts[p].reservedShares = Offered(p)
      BY DEF ShareReservationsInSync
    <2>1. PlayerOK(p) /\ Offered(p) \in Nat /\ accounts[p] \in Account /\ Exact(p)
      BY SoundState, SoundFacts DEF ExactInv
    <2>2. SharesClaimed(p) = Offered(p) /\ Ledger(p) = accounts[p]
      BY <2>1, IdleLedger, IdleSettledNone DEF SharesClaimed, OwnShares, Placing
    <2> QED
      BY <2>1, <2>2 DEF PlayerOK, Covers, Exact, Account
  <1> QED
    BY <1>1, TypesHold, MirrorHolds, SoundHolds, ExactHolds, PTL

(* As long as nothing fails, no cash is locked for good: an account        *)
(* reserves no more between two calls than its open buy orders hold, and   *)
(* none of these more than its remaining quantity would cost.              *)
THEOREM CashNotLocked == Spec => []CashReservationsBounded
  <1>1. TypeInv /\ MirrorInv /\ SoundInv /\ ExactInv => CashReservationsBounded
    <2> SUFFICES ASSUME TypeInv, MirrorInv, SoundInv, ExactInv, phase = "idle", faults = {},
                        NEW p \in Players
                 PROVE  /\ accounts[p].reservedCash <= CashOfBuys(p)
                        /\ \A id \in OpenOrdersOf(p, "buy") :
                              openOrders[id].cash <= openOrders[id].price * openOrders[id].rem
      BY DEF CashReservationsBounded
    <2>1. CashOfBuys(p) \in Nat /\ Exact(p) /\ OpenHeld
      BY SoundState, SoundFacts DEF ExactInv
    <2>2. CashClaimed(p) = CashOfBuys(p) /\ Ledger(p) = accounts[p]
      BY <2>1, IdleLedger, IdleSettledNone DEF CashClaimed, OwnCash, Placing
    <2> QED
      BY <2>1, <2>2 DEF Exact, OpenHeld, OpenOrdersOf
  <1> QED
    BY <1>1, TypesHold, MirrorHolds, SoundHolds, ExactHolds, PTL

(* The lots kept for the rapid-flip tax never add up to more shares than   *)
(* the player holds.                                                       *)
THEOREM LotsHeld == Spec => []LotsWithinHoldings
  <1>1. TypeInv /\ MirrorInv /\ SoundInv => LotsWithinHoldings
    <2> SUFFICES ASSUME TypeInv, MirrorInv, SoundInv, "cache" \notin faults, NEW p \in Players
                 PROVE  SumFunction(Ledger(p).lots) <= Ledger(p).shares
      BY DEF LotsWithinHoldings
    <2> QED
      BY SoundState, SoundFacts DEF PlayerOK, Covers
  <1> QED
    BY <1>1, TypesHold, MirrorHolds, SoundHolds, PTL

----------------------------------------------------------------------------
(* All shares                                                              *)

SharesOut == [p \in Players |-> Ledger(p).shares]

LEMMA SharesOutFacts ==
    ASSUME TypeInv, TypeInv'
    PROVE  /\ SharesOut \in [Players -> Int] /\ SharesOut' \in [Players -> Int]
           /\ SumFunction(SharesOut) = SumFunctionOnSet(SharesOut, Players)
           /\ SumFunction(SharesOut') = SumFunctionOnSet(SharesOut', Players)
           /\ SumFunction(SharesOut) \in Int
  <1>1. \A p \in Players : Ledger(p).shares \in Int
    BY TypesKnown DEF Account
  <1>2. SharesOut \in [Players -> Int]
    BY <1>1 DEF SharesOut
  <1>3. SharesOut' \in [Players -> Int]
    <2>1. SharesOut' = [p \in Players |-> IF p \in DOMAIN copies' THEN copies'[p].shares
                                          ELSE accounts'[p].shares]
      BY DEF SharesOut, Ledger
    <2>2. /\ \A p \in DOMAIN copies' : copies'[p] \in Account
          /\ \A p \in Players : accounts'[p] \in Account
      BY DEF TypeInv, TypeOK
    <2>3. \A p \in Players : (IF p \in DOMAIN copies' THEN copies'[p].shares
                              ELSE accounts'[p].shares) \in Int
      BY <2>2 DEF Account
    <2> QED
      BY <2>1, <2>3
  <1>4. /\ SumFunction(SharesOut) = SumFunctionOnSet(SharesOut, Players)
        /\ SumFunction(SharesOut') = SumFunctionOnSet(SharesOut', Players)
    BY <1>2, <1>3 DEF SumFunction
  <1>5. SumFunctionOnSet(SharesOut, Players) \in Int
    BY <1>2, PlayersAssumption, SumOut
  <1> QED
    BY <1>2, <1>3, <1>4, <1>5

LEMMA SharesOutBy ==
    ASSUME NEW p \in Players
    PROVE  SharesOut[p] = Ledger(p).shares /\ SharesOut'[p] = Ledger(p)'.shares
  BY DEF SharesOut

(* A trade gives the buyer what it takes from the seller.                  *)
LEMMA TradeMovesShares ==
    ASSUME Sound, TypeInv', ApplyTrade
    PROVE  SumFunction(SharesOut') = SumFunction(SharesOut)
  <1>1. PICK t, q, b, s : t = trades[settled + 1] /\ q = t.qty /\ b = t.buyer /\ s = t.seller
    OBVIOUS
  <1>2. b \in Players /\ s \in Players /\ q \in Int /\ TypeInv
    BY <1>1, ApplyTradeEffect DEF Book!Trade, Sound
  <1>3. PICK f, h : f = SharesOut /\ h = SharesOut'
    OBVIOUS
  <1>4. /\ f \in [Players -> Int] /\ h \in [Players -> Int]
        /\ SumFunction(f) = SumFunctionOnSet(f, Players)
        /\ SumFunction(h) = SumFunctionOnSet(h, Players) /\ SumFunction(f) \in Int
    BY <1>2, <1>3, SharesOutFacts
  <1>5. ASSUME NEW p \in Players
        PROVE  h[p] = f[p] + (IF p = b THEN q ELSE 0) - (IF p = s THEN q ELSE 0)
    BY <1>1, <1>3, SharesApply, SharesOutBy
  <1>6. PICK mid : mid = [f EXCEPT ![b] = f[b] + q]
    OBVIOUS
  <1>7. mid \in [Players -> Int] /\ mid[b] = f[b] + q /\ \A p \in Players \ {b} : mid[p] = f[p]
    BY <1>2, <1>4, <1>6
  <1>8. \A p \in Players : f[p] \in Int
    BY <1>4
  <1>9. h[s] = mid[s] - q /\ \A p \in Players \ {s} : h[p] = mid[p]
    BY <1>2, <1>5, <1>7, <1>8
  <1>10. SumFunctionOnSet(mid, Players) = SumFunctionOnSet(f, Players) + (mid[b] - f[b])
    <2>1. \A p \in Players : f[p] \in Int /\ mid[p] \in Int
      BY <1>7, <1>8
    <2> QED
      BY <1>2, <1>7, <2>1, PlayersAssumption, SumChange
  <1>11. SumFunctionOnSet(h, Players) = SumFunctionOnSet(mid, Players) + (h[s] - mid[s])
    <2>1. \A p \in Players : mid[p] \in Int /\ h[p] \in Int
      BY <1>4, <1>7
    <2> QED
      BY <1>2, <1>9, <2>1, PlayersAssumption, SumChange
  <1>12. mid[b] - f[b] = q /\ h[s] - mid[s] = -q
    <2>1. f[b] \in Int /\ mid[s] \in Int
      BY <1>2, <1>4, <1>7
    <2> QED
      BY <1>2, <1>7, <1>9, <2>1
  <1> QED
    BY <1>2, <1>3, <1>4, <1>10, <1>11, <1>12

(* Trading moves shares between players and creates or destroys none, as   *)
(* long as nothing fails: the floor at zero in applyTrade never hides a    *)
(* sale of shares the seller lacks.                                        *)
THEOREM SharesKept == Spec => []SharesConserved
  <1>1. SharesConserved <=> (faults = {} => SumFunction(SharesOut) = SumFunction(OpeningShares))
    BY DEF SharesConserved, SharesOut
  <1>2. SharesConserved' <=> (faults' = {} => SumFunction(SharesOut') = SumFunction(OpeningShares))
    BY DEF SharesConserved, SharesOut
  <1>3. Init => SharesConserved
    <2> SUFFICES ASSUME Init PROVE SumFunction(SharesOut) = SumFunction(OpeningShares)
      BY <1>1
    <2>1. ASSUME NEW p \in Players PROVE Ledger(p).shares = OpeningShares[p]
      BY DEF Init, Ledger, OpeningAccounts
    <2>2. SharesOut = OpeningShares
      BY <2>1, OpeningSharesAssumption DEF SharesOut
    <2> QED
      BY <2>2
  <1>4. ASSUME TypeInv, TypeInv', MirrorInv, SoundInv, SharesConserved, [Next]_vars
        PROVE  SharesConserved'
    <2> SUFFICES ASSUME faults' = {} PROVE SumFunction(SharesOut') = SumFunction(OpeningShares)
      BY <1>2
    <2>1. faults = {} /\ Sound
      BY <1>4, FaultsStay, SoundState
    <2>2. SumFunction(SharesOut') = SumFunction(SharesOut)
      <3>1. CASE ApplyTrade
        BY <1>4, <2>1, <3>1, TradeMovesShares
      <3>2. CASE ~ApplyTrade
        <4>1. PICK f, h : f = SharesOut /\ h = SharesOut'
          OBVIOUS
        <4>2. /\ SumFunction(f) = SumFunctionOnSet(f, Players)
              /\ SumFunction(h) = SumFunctionOnSet(h, Players)
          BY <1>4, <4>1, SharesOutFacts
        <4>3. ASSUME NEW p \in Players PROVE h[p] = f[p]
          <5>1. Ledger(p)'.shares = Ledger(p).shares
            BY <1>4, <3>2, HoldingsMove DEF SameHoldings
          <5> QED
            BY <4>1, <5>1, SharesOutBy
        <4>4. SumFunctionOnSet(h, Players) = SumFunctionOnSet(f, Players)
          BY <4>3, PlayersAssumption, SumAlike
        <4> QED
          BY <4>1, <4>2, <4>4
      <3> QED
        BY <3>1, <3>2
    <2> QED
      BY <1>1, <1>4, <2>1, <2>2
  <1> QED
    BY <1>3, <1>4, TypesHold, MirrorHolds, SoundHolds, PTL DEF Spec
=============================================================================
