------------------------------ MODULE Settlement ------------------------------
(***************************************************************************)
(* The trading part of the gameplay engine, internal/gameplay/engine.go,   *)
(* composed with the order book of one symbol (OrderBook).                 *)
(*                                                                         *)
(* A place_order call reserves cash or shares on the player's account,     *)
(* saves it, places the order in the book (through exchange.Service),      *)
(* settles every trade on working copies of the accounts involved, closes  *)
(* the orders it filled and saves the copies one by one.  The engine keeps *)
(* its own record of each resting order with what is still reserved for it *)
(* (openOrders).  The engine's mutex is held for the whole call, so calls  *)
(* do not interleave; but the call has several steps, because              *)
(* exchange.Service may fail after the book has changed, and the process   *)
(* may stop between two of them.  Each iteration of a loop is a step.      *)
(*                                                                         *)
(* accounts is the player store in memory and stored its file.  Every save *)
(* changes an account in memory first and then writes the whole file; when *)
(* the write fails the two differ until the next save.                     *)
(***************************************************************************)
EXTENDS Integers, Sequences, FiniteSets, SequencesExt

CONSTANTS OrderIds, Players, Prices, Quantities, OpeningPrice, MaxOrders,  \* see OrderBook
          OpeningCash,   \* cash each player was created with
          OpeningShares, \* and shares of the symbol
          Quotes,        \* prices a market order is reserved at
          Faults,        \* what may go wrong, each once: "cache" (Redis fails),
                         \* "write" (the players' file), "crash" (a restart)
          MaxFaults      \* bound: how many of them in one behaviour

ASSUME BookAssumption ==   \* what OrderBook assumes of its constants
    /\ Prices \subseteq Nat \ {0} /\ Quantities \subseteq Nat
    /\ OpeningPrice \in Nat /\ MaxOrders \in Nat
ASSUME PlayersAssumption       == IsFiniteSet(Players)
ASSUME OpeningCashAssumption   == OpeningCash \in [Players -> Nat]
ASSUME OpeningSharesAssumption == OpeningShares \in [Players -> Nat]
ASSUME QuotesAssumption        == Quotes \subseteq Nat \ {0}
ASSUME FaultsAssumption        == Faults \subseteq {"cache", "write", "crash"} /\ MaxFaults \in Nat

VARIABLES levels, prices, lastTradePrice, sequence, pc,
          incoming, trades, outcome, placed,  \* see OrderBook
          accounts,    \* the player store: player -> cash, shares and reservations
          stored,      \* its file
          openOrders,  \* e.openOrders: order id -> what is reserved for it
          phase,       \* where the current ExecuteAction call is
          reserved,    \* what the current call has reserved and not settled yet
          removed,     \* result.Removed of the current call, as far as not cleaned up
          copies,      \* touchedPlayers: the settled accounts not saved yet
          settled,     \* how many trades of the current call are applied
          touched,     \* touchedOrders, as far as not normalized
          issued,      \* request ids used so far
          expired,     \* lots of the first this many orders are past the flip window
          faults       \* what has gone wrong

bookVars == <<levels, prices, lastTradePrice, sequence, pc, incoming, trades, outcome, placed>>
callVars == <<phase, reserved, removed, copies, settled, touched>>
vars == <<bookVars, accounts, stored, openOrders, callVars, issued, expired, faults>>

Book == INSTANCE OrderBook

----------------------------------------------------------------------------
(* Types                                                                   *)

(* Lots: how many of the shares held the trades of the n-th order bought.  *)
Account == [cash : Int, reservedCash : Nat, shares : Nat, reservedShares : Nat,
            lots : [1..MaxOrders -> Nat]]

OpenOrder == [player : Players, side : Book!Side, price : Prices, rem : Int,
              cash : Nat, shares : Nat]

NothingReserved == [cash |-> 0, shares |-> 0]

----------------------------------------------------------------------------
(* Charges                                                                 *)

(* bpsCharge: a share of the amount in basis points, rounded up.           *)
Charge(amount, bps) == IF amount <= 0 THEN 0 ELSE (amount * bps + 9999) \div 10000

ExchangeFee(notional)     == Charge(notional, 10)
MarketSurcharge(notional) == Charge(notional, 15)
RapidFlipTax(notional)    == Charge(notional, 35)

(* Reservations are reduced with a floor at zero.                          *)
Less(x, y) == IF x > y THEN x - y ELSE 0

Least(x, y) == IF x < y THEN x ELSE y

----------------------------------------------------------------------------
(* Reserving for an incoming order: reserveForIncoming                     *)

(* A limit order is reserved at its price, a market order with a quarter   *)
(* on top of the price sent with it or of the current price: the quote.    *)
(* A limit order without a price is reserved at the current price, and     *)
(* rejected by the book afterwards.                                        *)
CashNeeded(r, quote) ==
    LET base     == IF r.price > 0 THEN r.price ELSE quote
        price    == IF r.type = "market" THEN (base * 5) \div 4 ELSE base
        notional == price * r.qty
    IN  notional + ExchangeFee(notional)
          + (IF r.type = "market" THEN MarketSurcharge(notional) ELSE 0)

ToReserve(r, quote) ==
    IF r.side = "buy" THEN [cash |-> CashNeeded(r, quote), shares |-> 0]
    ELSE [cash |-> 0, shares |-> r.qty]

AffordsGross(a, r, need) ==   \* fault: what is already reserved counts as available
    IF r.side = "buy" THEN a.cash >= need.cash ELSE a.shares >= need.shares

Affords(a, r, need) ==
    IF r.side = "buy" THEN a.cash - a.reservedCash >= need.cash
    ELSE a.shares - a.reservedShares >= need.shares

Reserve(a, need) ==
    [a EXCEPT !.reservedCash = a.reservedCash + need.cash,
              !.reservedShares = a.reservedShares + need.shares]

ReleaseNothing(a, what) == a   \* fault: the reservation is kept

ReleaseUnfloored(a, what) ==   \* fault: no floor at zero
    [a EXCEPT !.reservedCash = a.reservedCash - what.cash,
              !.reservedShares = a.reservedShares - what.shares]

(* releaseIncomingReservation *)
Release(a, what) ==
    [a EXCEPT !.reservedCash = Less(a.reservedCash, what.cash),
              !.reservedShares = Less(a.reservedShares, what.shares)]

----------------------------------------------------------------------------
(* What a trade does to the accounts of its buyer and its seller           *)

LotsUntouched(lots, qty) == lots   \* fault: a sale leaves its lots

(* consumeLotsForSale, the lots left: a sale takes the oldest lots first.  *)
LotsAfterSale(lots, qty) ==
    [n \in DOMAIN lots |->
        lots[n] - Least(lots[n], Less(qty, SumFunctionOnSet(lots, 1..(n - 1))))]

(* ... and its result: how many of the shares sold are still in the flip   *)
(* window.                                                                 *)
FreshShares(lots) == SumFunctionOnSet(lots, (expired + 1)..MaxOrders)

FlippedShares(lots, qty) == FreshShares(lots) - FreshShares(LotsAfterSale(lots, qty))

IsIncoming(id) == id = incoming.id

SurchargeOn(id, cost) ==
    IF IsIncoming(id) /\ incoming.type = "market" THEN MarketSurcharge(cost) ELSE 0

BuyerPays(t) ==
    LET cost == t.price * t.qty IN cost + ExchangeFee(cost) + SurchargeOn(t.buyOrder, cost)

SellerGetsFee(t, flipped) ==   \* fault: the fee is added, not taken
    LET cost == t.price * t.qty IN cost + 2 * ExchangeFee(cost)

SellerGets(t, flipped) ==
    LET cost == t.price * t.qty
    IN  cost - ExchangeFee(cost) - SurchargeOn(t.sellOrder, cost) - RapidFlipTax(t.price * flipped)

(* A trade whose order is neither the incoming one nor an open one touches *)
(* no reservation.                                                         *)
Known(id) == IsIncoming(id) \/ id \in DOMAIN openOrders

Bought(a, t) ==
    [a EXCEPT !.cash = a.cash - BuyerPays(t),
              !.shares = a.shares + t.qty,
              !.lots[placed] = a.lots[placed] + t.qty,
              !.reservedCash = IF Known(t.buyOrder) THEN Less(a.reservedCash, BuyerPays(t))
                               ELSE a.reservedCash]

SoldReservationKept(a, t, flipped) ==   \* fault: a sale leaves its reservation
    [a EXCEPT !.cash = a.cash + SellerGets(t, flipped), !.shares = Less(a.shares, t.qty)]

Sold(a, t, flipped) ==
    [a EXCEPT !.cash = a.cash + SellerGets(t, flipped),
              !.shares = Less(a.shares, t.qty),
              !.reservedShares = IF Known(t.sellOrder) THEN Less(a.reservedShares, t.qty)
                                 ELSE a.reservedShares]

(* applyTrade, on the account a of player p: the lots sold go first, and   *)
(* who trades with itself buys before it sells.                            *)
Traded(a, p, t) ==
    LET consumed == IF p = t.seller THEN [a EXCEPT !.lots = LotsAfterSale(a.lots, t.qty)] ELSE a
        bought   == IF p = t.buyer THEN Bought(consumed, t) ELSE consumed
    IN  IF p = t.seller THEN Sold(bought, t, FlippedShares(a.lots, t.qty)) ELSE bought

----------------------------------------------------------------------------
(* What settling does to the open orders                                   *)

FilledNot(open, id, t) == open   \* fault: a fill does not reach the open order

(* The open order of a maker: what it still wants and has reserved.        *)
Filled(open, id, t) ==
    IF IsIncoming(id) \/ id \notin DOMAIN open THEN open
    ELSE [open EXCEPT
             ![id].rem    = open[id].rem - t.qty,
             ![id].cash   = IF open[id].side = "buy" THEN Less(open[id].cash, BuyerPays(t))
                            ELSE open[id].cash,
             ![id].shares = IF open[id].side = "sell" THEN Less(open[id].shares, t.qty)
                            ELSE open[id].shares]

ExcessKept(o) == NothingReserved   \* fault: what was reserved beyond the order's price stays

(* An open order keeps no more than its price times its remaining          *)
(* quantity, or its remaining quantity; the rest goes back to the player.  *)
Excess(o) == [cash   |-> IF o.side = "buy" THEN Less(o.cash, o.price * o.rem) ELSE 0,
              shares |-> IF o.side = "sell" THEN Less(o.shares, o.rem) ELSE 0]

Trimmed(o) == [o EXCEPT !.cash = o.cash - Excess(o).cash, !.shares = o.shares - Excess(o).shares]

Without(id) == [i \in DOMAIN openOrders \ {id} |-> openOrders[i]]

----------------------------------------------------------------------------
(* Initial state: the players exist and hold what they were created with   *)

OpeningAccounts ==
    [p \in Players |-> [cash |-> OpeningCash[p], reservedCash |-> 0,
                        shares |-> OpeningShares[p], reservedShares |-> 0,
                        lots |-> [n \in 1..MaxOrders |-> 0]]]

Init ==
    /\ Book!Init
    /\ accounts = OpeningAccounts
    /\ stored = accounts
    /\ openOrders = <<>>
    /\ phase = "idle"
    /\ reserved = NothingReserved
    /\ removed = <<>>
    /\ copies = <<>>
    /\ settled = 0 /\ touched = {}
    /\ issued = {}
    /\ expired = 0
    /\ faults = {}

----------------------------------------------------------------------------
(* place_order                                                             *)

(* Bound: requests and faults share one budget.                            *)
WithinBudget == Cardinality(issued) + Cardinality(faults) < MaxOrders

GoesWrong(kind) ==
    /\ kind \in Faults \ faults
    /\ Cardinality(faults) < MaxFaults
    /\ WithinBudget
    /\ faults' = faults \cup {kind}

(* The game clients number their requests, so no id is sent twice; which   *)
(* unused one comes next makes no difference.                              *)
NextId == CHOOSE id \in OrderIds : id \notin issued

Sendable(r) == OrderIds # issued /\ r.id = NextId /\ r.qty > 0 /\ WithinBudget

(* The first half of handlePlaceOrder: the reservation, on the account in  *)
(* memory.                                                                 *)
ReserveFor(r, quote) ==
    LET need == ToReserve(r, quote)
    IN  /\ phase = "idle"
        /\ Sendable(r)
        /\ Affords(accounts[r.player], r, need)
        /\ accounts' = [accounts EXCEPT ![r.player] = Reserve(accounts[r.player], need)]
        /\ issued' = issued \cup {r.id}
        /\ UNCHANGED <<openOrders, expired>>

(* It is saved and the order reaches the book, or is rejected there.       *)
PlaceOrder(r, quote) ==
    /\ ReserveFor(r, quote)
    /\ stored' = accounts'
    /\ Book!PlaceStart(r)
    /\ phase' = "placing"
    /\ reserved' = ToReserve(r, quote)
    /\ UNCHANGED <<removed, copies, settled, touched, faults>>

(* The answer to an error of the exchange: the call's copy of the player's *)
(* account without the reservation is still to be saved.                   *)
Undo(p, account, what) ==
    /\ copies' = [q \in {p} |-> Release(account, what)]
    /\ phase' = "closing"
    /\ reserved' = NothingReserved
    /\ removed' = <<>>
    /\ UNCHANGED <<settled, touched>>

PlaceRejected(r, quote) ==
    /\ ReserveFor(r, quote)
    /\ stored' = accounts'
    /\ Book!PlaceInvalid(r)
    /\ Undo(r.player, accounts'[r.player], ToReserve(r, quote))
    /\ UNCHANGED faults

(* The reservation cannot be written: the call ends in an error and leaves *)
(* it in memory.                                                           *)
PlaceUnsaved(r, quote) ==
    /\ ReserveFor(r, quote)
    /\ GoesWrong("write")
    /\ UNCHANGED <<bookVars, stored, callVars>>

(* An iteration of the book's matching loop; a filled maker is listed.     *)
Match ==
    /\ Book!MatchStep
    /\ LET maker == Book!BestOrder(Book!Opposite(incoming.side))
       IN  removed' = IF maker.rem = Book!Fill(incoming, maker) THEN Append(removed, maker.id)
                      ELSE removed
    /\ UNCHANGED <<accounts, stored, openOrders, phase, reserved, copies, settled, touched,
                   issued, expired, faults>>

Finish ==
    /\ Book!PlaceFinish
    /\ phase' = "placed"
    /\ UNCHANGED <<accounts, stored, openOrders, reserved, removed, copies, settled, touched,
                   issued, expired, faults>>

(* The cache fails in exchange.Service.PlaceOrder, after the book changed: *)
(* the call reports an error.                                              *)
CacheFails ==
    /\ phase = "placed" /\ settled = 0
    /\ GoesWrong("cache")
    /\ Undo(incoming.player, accounts[incoming.player], reserved)
    /\ UNCHANGED <<bookVars, accounts, stored, openOrders, issued, expired>>

----------------------------------------------------------------------------
(* Settling, after the exchange has answered                               *)

(* The account of a player as the call sees it: getTouchedPlayer.          *)
Ledger(p) == IF p \in DOMAIN copies THEN copies[p] ELSE accounts[p]

Touch(p, account) ==
    copies' = [q \in DOMAIN copies \cup {p} |-> IF q = p THEN account ELSE copies[q]]

(* One iteration of the loop over the trades.                              *)
ApplyTrade ==
    /\ phase = "placed"
    /\ settled < Len(trades)
    /\ settled' = settled + 1
    /\ LET t       == trades[settled + 1]
           traders == {t.buyer, t.seller}
           orders  == {t.buyOrder, t.sellOrder}
       IN  /\ copies' = [p \in DOMAIN copies \cup traders |->
                            IF p \in traders THEN Traded(Ledger(p), p, t) ELSE copies[p]]
           /\ openOrders' = Filled(Filled(openOrders, t.buyOrder, t), t.sellOrder, t)
           /\ reserved' =
                 [cash   |-> IF IsIncoming(t.buyOrder) THEN Less(reserved.cash, BuyerPays(t))
                             ELSE reserved.cash,
                  shares |-> IF IsIncoming(t.sellOrder) THEN Less(reserved.shares, t.qty)
                             ELSE reserved.shares]
           /\ touched' = touched \cup {id \in orders : ~IsIncoming(id) /\ id \in DOMAIN openOrders}
    /\ UNCHANGED <<bookVars, accounts, stored, phase, removed, issued, expired, faults>>

(* The incoming order becomes an open order: finalizeRestingReservation.   *)
RestIncoming ==
    /\ phase = "placed" /\ settled = Len(trades)
    /\ Book!Rests(incoming)
    /\ LET p == incoming.player
           o == [player |-> p, side |-> incoming.side, price |-> incoming.price,
                 rem |-> incoming.rem, cash |-> reserved.cash, shares |-> reserved.shares]
       IN  /\ Touch(p, Release(Ledger(p), Excess(o)))
           /\ openOrders' = [id \in DOMAIN openOrders \cup {incoming.id} |->
                                IF id = incoming.id THEN Trimmed(o) ELSE openOrders[id]]
    /\ touched' = touched \cup {incoming.id}
    /\ phase' = "closing" /\ reserved' = NothingReserved
    /\ UNCHANGED <<bookVars, accounts, stored, removed, settled, issued, expired, faults>>

(* ... or its reservation ends.                                            *)
ReleaseIncoming ==
    /\ phase = "placed" /\ settled = Len(trades)
    /\ ~Book!Rests(incoming)
    /\ Touch(incoming.player, Release(Ledger(incoming.player), reserved))
    /\ phase' = "closing" /\ reserved' = NothingReserved
    /\ UNCHANGED <<bookVars, accounts, stored, openOrders, removed, settled, touched,
                   issued, expired, faults>>

(* cleanupOpenOrder *)
Cleanup(id) ==
    IF id \notin DOMAIN openOrders THEN UNCHANGED <<copies, openOrders>>
    ELSE LET o == openOrders[id]
         IN  /\ Touch(o.player, Release(Ledger(o.player), [cash |-> o.cash, shares |-> o.shares]))
             /\ openOrders' = Without(id)

(* One iteration of the loop over the orders the exchange removed.         *)
CleanRemoved ==
    /\ phase = "closing" /\ removed # <<>>
    /\ removed' = Tail(removed)
    /\ Cleanup(Head(removed))
    /\ UNCHANGED <<bookVars, accounts, stored, phase, reserved, settled, touched,
                   issued, expired, faults>>

(* normalizeOpenOrder *)
Normalize(id) ==
    IF id \notin DOMAIN openOrders \/ openOrders[id].rem <= 0 THEN Cleanup(id)
    ELSE LET o == openOrders[id]
         IN  /\ Touch(o.player, Release(Ledger(o.player), Excess(o)))
             /\ openOrders' = [openOrders EXCEPT ![id] = Trimmed(o)]

(* One iteration of the loop over the orders touched, in map order.        *)
NormalizeTouched(id) ==
    /\ phase = "closing" /\ removed = <<>>
    /\ id \in touched
    /\ touched' = touched \ {id}
    /\ Normalize(id)
    /\ UNCHANGED <<bookVars, accounts, stored, phase, reserved, removed, settled,
                   issued, expired, faults>>

(* The variables of a call are gone when it ends.                          *)
CallEnds ==
    /\ phase' = "idle" /\ reserved' = NothingReserved /\ removed' = <<>> /\ copies' = <<>>
    /\ settled' = 0 /\ touched' = {}

Upsert(p) == accounts' = [accounts EXCEPT ![p] = copies[p]]

Saving(p) == phase = "closing" /\ removed = <<>> /\ touched = {} /\ p \in DOMAIN copies

(* One Upsert of the loop over the touched players, in map order.          *)
Save(p) ==
    /\ Saving(p)
    /\ Upsert(p)
    /\ stored' = accounts'
    /\ IF DOMAIN copies = {p} THEN CallEnds
       ELSE /\ copies' = [q \in DOMAIN copies \ {p} |-> copies[q]]
            /\ UNCHANGED <<phase, reserved, removed, settled, touched>>
    /\ UNCHANGED <<bookVars, openOrders, issued, expired, faults>>

(* One of them fails: its account has changed in memory, and the others of *)
(* the call are not saved at all.                                          *)
SaveFails(p) ==
    /\ Saving(p)
    /\ GoesWrong("write")
    /\ Upsert(p)
    /\ CallEnds
    /\ UNCHANGED <<bookVars, stored, openOrders, issued, expired>>

----------------------------------------------------------------------------
(* cancel_order, by the player who placed the order; its save may fail.    *)
CancelOrder(p, id) ==
    /\ phase = "idle"
    /\ id \in DOMAIN openOrders
    /\ openOrders[id].player = p
    /\ Book!Cancel(id)
    /\ LET o == openOrders[id]
       IN  accounts' = [accounts EXCEPT ![p] =
                           Release(accounts[p], [cash |-> o.cash, shares |-> o.shares])]
    /\ openOrders' = Without(id)
    /\ \/ stored' = accounts' /\ UNCHANGED faults
       \/ GoesWrong("write") /\ UNCHANGED stored
    /\ UNCHANGED <<callVars, issued, expired>>

(* Time passes: the oldest lots held leave the rapid-flip window.          *)
LotsExpire ==
    /\ phase = "idle"
    /\ expired' \in {n \in (expired + 1)..MaxOrders : \E p \in Players : accounts[p].lots[n] > 0}
    /\ UNCHANGED <<bookVars, accounts, stored, openOrders, callVars, issued, faults>>

(* The process stops and starts again: the book, the open orders and the   *)
(* copies are gone, the player store is loaded again.                      *)
Crash ==
    /\ GoesWrong("crash")
    /\ levels' = [s \in Book!Side |-> <<>>]
    /\ prices' = [s \in Book!Side |-> <<>>]
    /\ lastTradePrice' = OpeningPrice
    /\ sequence' = 0
    /\ pc' = "idle"
    /\ trades' = <<>>
    /\ openOrders' = <<>>
    /\ CallEnds
    /\ accounts' = stored
    /\ UNCHANGED <<incoming, outcome, placed, stored, issued, expired>>

----------------------------------------------------------------------------

Next ==
    \/ \E r \in Book!Request, quote \in Quotes :
          PlaceOrder(r, quote) \/ PlaceRejected(r, quote) \/ PlaceUnsaved(r, quote)
    \/ Match
    \/ Finish
    \/ CacheFails
    \/ ApplyTrade
    \/ RestIncoming
    \/ ReleaseIncoming
    \/ CleanRemoved
    \/ \E id \in OrderIds : NormalizeTouched(id)
    \/ \E p \in Players : Save(p) \/ SaveFails(p)
    \/ \E p \in Players, id \in OrderIds : CancelOrder(p, id)
    \/ LotsExpire
    \/ Crash

Spec == Init /\ [][Next]_vars

----------------------------------------------------------------------------
(* Properties                                                              *)

(* The open orders of a player on one side.                                *)
OpenOrdersOf(p, s) ==
    {id \in DOMAIN openOrders : openOrders[id].player = p /\ openOrders[id].side = s}

(* What the open sell orders of a player still offer.                      *)
Offered(p) ==
    SumFunctionOnSet([id \in DOMAIN openOrders |-> openOrders[id].rem], OpenOrdersOf(p, "sell"))

(* The cash its open buy orders have reserved.                             *)
CashOfBuys(p) ==
    SumFunctionOnSet([id \in DOMAIN openOrders |-> openOrders[id].cash], OpenOrdersOf(p, "buy"))

(* Every variable has its type; in particular no reservation and no        *)
(* holding goes below zero.                                                *)
TypeOK ==
    /\ accounts \in [Players -> Account]
    /\ stored \in [Players -> Account]
    /\ faults \subseteq Faults
    /\ DOMAIN openOrders \subseteq OrderIds
    /\ \A id \in DOMAIN openOrders : openOrders[id] \in OpenOrder
    /\ phase \in {"idle", "placing", "placed", "closing"}
    /\ reserved \in [cash : Nat, shares : Nat]
    /\ removed \in Seq(OrderIds)
    /\ DOMAIN copies \subseteq Players
    /\ \A p \in DOMAIN copies : copies[p] \in Account
    /\ settled \in 0..Len(trades)
    /\ touched \subseteq OrderIds
    /\ issued \subseteq OrderIds
    /\ expired \in 0..MaxOrders

(* Between two calls the engine's own record of open orders says exactly   *)
(* what the book says: the same orders, with the same owners, prices and   *)
(* remaining quantities, although the engine never reads the book but      *)
(* replays the trades on its copy.  A failing save changes nothing of      *)
(* this, nor does a restart, which ends both; only a failing cache does.   *)
OpenOrdersMirrorBook ==
    phase = "idle" /\ "cache" \notin faults =>
        /\ DOMAIN openOrders = {o.id : o \in Book!Resting}
        /\ \A o \in Book!Resting :
              /\ openOrders[o.id].player = o.player
              /\ openOrders[o.id].side = o.side
              /\ openOrders[o.id].price = o.price
              /\ openOrders[o.id].rem = o.rem

(* The shares reserved on an account are exactly those its resting sell    *)
(* orders still offer: none is offered twice, none is locked for good, as  *)
(* long as nothing fails (a failed call may lock shares, engine.go:365).   *)
ShareReservationsInSync ==
    phase = "idle" /\ faults = {} => \A p \in Players : accounts[p].reservedShares = Offered(p)

(* Whatever a restart or a failed save left behind, the shares offered by  *)
(* open orders are reserved, and what is reserved is there, in memory and  *)
(* in the file: a player never sells what it does not have, even after a   *)
(* stop or an error between the saves of one call.                         *)
ReservedSharesBacked ==
    "cache" \notin faults => \A p \in Players :
        /\ Ledger(p).reservedShares <= Ledger(p).shares
        /\ stored[p].reservedShares <= stored[p].shares
        /\ phase = "idle" => Offered(p) <= accounts[p].reservedShares

(* No cash is locked for good: an account reserves no more than its open   *)
(* orders account for, and these no more than they would cost.             *)
CashReservationsBounded ==
    phase = "idle" /\ faults = {} =>
        \A p \in Players :
            /\ accounts[p].reservedCash <= CashOfBuys(p)
            /\ \A id \in OpenOrdersOf(p, "buy") :
                  openOrders[id].cash <= openOrders[id].price * openOrders[id].rem

(* Trading moves shares between players and creates none: the floor at     *)
(* zero in applyTrade never hides a sale of shares the seller lacks.  (A   *)
(* call that ends between its saves settles one side of a trade only.)     *)
SharesConserved ==
    faults = {} => SumFunction([p \in Players |-> Ledger(p).shares]) = SumFunction(OpeningShares)

(* The lots kept for the rapid-flip tax never add up to more shares than   *)
(* the player holds, whatever save fails and whenever the process stops.   *)
(* (After a failing cache they may: a player can then trade with an order  *)
(* of its own for shares it has sold meanwhile.)                           *)
LotsWithinHoldings ==
    "cache" \notin faults =>
        \A p \in Players : SumFunction(Ledger(p).lots) <= Ledger(p).shares

(* Trading creates no money: what the players have together only shrinks,  *)
(* by the charges, also when the cache fails.  (A call that ends between   *)
(* its saves may pay the seller and not debit the buyer.)                  *)
TotalCash == SumFunction([p \in Players |-> Ledger(p).cash])
NoMoneyCreated == [][faults' \subseteq {"cache"} => TotalCash' <= TotalCash]_vars

(* "keeps player portfolio and reservation state in sync" (README.md of    *)
(* the repository): between two calls the cash reserved on an account is   *)
(* what its open buy orders have reserved.  It is not: an open order keeps *)
(* its price times its quantity, without the fee, but a trade takes the    *)
(* fee from the reservation too, at the expense of the other open orders.  *)
CashReservationsInSync ==
    phase = "idle" => \A p \in Players : accounts[p].reservedCash = CashOfBuys(p)
=============================================================================
