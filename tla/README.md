# ssh-arena in TLA+

A model of the trading game server: what its parts promise, checked by TLC on
small instances and, where a proof is in reach, proved by TLAPS for every
instance. Line numbers refer to the sources; `PROJECT.json` maps every
definition to the lines it stands for and lists the hazards the properties are
about.

## 1. The system

| Component | State it keeps | Operations | What makes it correct | Module |
|---|---|---|---|---|
| Order book (`internal/orderbook`) | per side a map price -> FIFO queue and a sorted price index; last trade price; sequence number | `Place`, `Cancel`, `Snapshot` | price-time priority, never crossed, index and map agree, quantity conserved | `OrderBook` |
| Exchange service (`internal/exchange/service.go`) | books, recent trades, subscribers, optional Redis cache | `PlaceOrder`, `CancelOrder`, `TriggerMarketEvent`, `Subscribe` | one lock orders all book changes; a failure leaves market and caller agreeing; nothing falls between snapshot and feed | `Settlement`, `MarketFeed` |
| Price engine (`price_engine.go`) | price, time of the last change, temporary effects | `Apply`, `TriggerShock`, `Current` | price positive, effects pull their way and expire | `PriceEngine` |
| Gameplay engine (`internal/gameplay`) | open orders with reservations, private feeds, bootstrap tokens; one mutex over every action | `ExecuteAction`, `EnsurePlayer`, `SubscribePrivate`, `NotifyPlayer`, chat | reservations in step with book and accounts, nothing sold twice, tokens used once | `Settlement`, `Bootstrap`, `InsiderFeed`, `ChatFeed` |
| Player store (`internal/state/player_store.go`) | all accounts, in memory and in one JSON file replaced atomically | `Upsert`, `Get`, `RoleStats`, reload | what a player was told survives a failed write and a restart | `Settlement`, `Bootstrap` |
| Trade and performance stores | append-only logs | `Append`, `Query`, `Leaderboard` | order and limits of queries | - |
| Random market events (`internal/marketevents`) | the planned event | poll, plan, fire | each event fires once, after its registration | `InsiderFeed` |
| Intel (`internal/intel`) | registered event with its buyers, pending buyers | `Buy`, `ScheduleNextRandomEvent`, preview goroutines | who paid sees the preview, before the event | `InsiderFeed` |
| Charting (`internal/charting`) | points and subscribers of each ticker | ticks, `Subscribe` | charts without gaps, no slow reader in the way, no send after close | `ChartFeed` |
| Chat (`internal/chat`, `internal/state/chat_store.go`) | history, log, subscribers | broadcast, history, subscribe | no loss between history and feed, acknowledged messages are kept | `ChatFeed` |
| gRPC API (`internal/grpcapi`) | streams | merges the feeds per client | initial state before updates | `ChatFeed`, `MarketFeed`, `ChartFeed` |
| Roles (`internal/roles`) | - | `Assign` | shares of roles near their targets | `Bootstrap` |
| Game client (`cmd/game-client`) | profile, screen | login, token exchange with retries, streams, polls | gets in, ends up with the true state | `Bootstrap`, `MarketFeed`, `ChartFeed` |
| SSH gateway (`cmd/ssh-server`) | - | calls `EnsurePlayer`, prints the token | a user keeps its player | `Bootstrap` |
| Configuration, logging, legacy action bus | - | I/O | - | - |

How they interact. `ExecuteAction` holds `gameplay.Engine.mu` for a whole action
and calls the exchange (own lock), which calls the book and the price engine
and publishes to its subscribers under its lock, without waiting for room in
their channels. The scheduler of market events runs on its own goroutine,
registers each event with intel, which starts a goroutine per event; that
goroutine calls back into the gameplay engine (`NotifyPlayer`), as does a
purchase of intel made through `ExecuteAction`. Charting reads the exchange's
snapshot once per interval and ticker. The stream handlers of the gRPC API
subscribe to these feeds and send what they read, together with snapshots. The
SSH gateway creates players and hands out tokens, which clients exchange
through `ExecuteAction`.

What is hard in it: the book's two representations of one thing; the engine's
copy of each open order, kept by replaying trades; integer charges rounded up
per trade against reservations made once; failures between book and settlement
and between two saves; memory and file after a failed write; two mutexes taken
in both directions between gameplay and intel; feeds whose channels are closed
by another goroutine, and snapshots that overtake or miss them; tokens that are
exchanged by a client that sends its request again.

## 2. Modules

| Module | Models |
|---|---|
| `PriceTimeBook` | abstract: price-time priority over a *set* of orders, no levels or indexes |
| `OrderBook` | `orderbook.go`: levels, price indexes, the matching loop step by step, cancellation |
| `Settlement` | `gameplay/engine.go` place and cancel, composed with `OrderBook` (`Book == INSTANCE OrderBook`), with failing cache, failing writes and restart |
| `InsiderFeed` | market-event scheduler, insider purchases, preview goroutines, the gameplay mutex |
| `ChatFeed` | global chat, stored log, private messages, and how `GetMarketStream` brings them to a client |
| `Bootstrap` | players and tokens: SSH login, token exchange with retries, client profile, restarts |
| `PriceEngine` | a ticker's price: moves by orders, events and their effects, drift on every read |
| `MarketFeed` | `EXTENDS PriceEngine`: exchange, market half of `GetMarketStream`, client with its portfolio |
| `ChartFeed` | charting engine and `SubscribeToChart`: ticks, subscriptions, forwarders, streams |
| `DataLemmas`, `OrderBookProofs`, `SettlementProofs`, `BootstrapProofs`, `MarketFeedProofs`, `ChartFeedProofs`, `InsiderFeedProofs`, `ChatFeedProofs` | proofs (section 5) |
| `MC*` | the instances TLC checks; `MCOrderBook` also compares `InsertPrice` with append-and-sort over bounded inputs |

### OrderBook

`levels[s]` is `bids`/`asks`, `prices[s]` is `bidPrices`/`askPrices`. `Place` is
`PlaceStart` (validation, copies), one `MatchStep` per loop iteration and
`PlaceFinish` (status, resting); `pc` is where the call is, and no other call
starts meanwhile, as the exchange's lock guarantees. `Cancel` scans bids, then
asks, level by level, and takes the first order with the id. `at` stands for
the creation time. Left out: the last-trade-price fallbacks are present in
`TradePrice` but a market order never rests, so they never apply; snapshots and
JSON only read.

`PriceTimeBook` says which maker may trade (best price, then earliest) and which
orders rest, on a set. `PriceTimePriority` is the refinement, with
`Resting` (the set of all queued orders) as the mapping.

### Settlement

A `place_order` call is: `PlaceOrder` (reserve, save, enter the book),
`PlaceRejected` or `PlaceUnsaved`; `Match` and `Finish` (the book's steps, and
the list of filled makers); `CacheFails`, or the loops of `handlePlaceOrder` on
copies of the accounts, one step per iteration: `ApplyTrade` for each trade,
`RestIncoming` or `ReleaseIncoming`, `CleanRemoved` for each filled maker,
`NormalizeTouched` for each order touched, in any order as Go iterates maps, and
`Save` or `SaveFails` once per touched account, in any order again. `copies` is
`touchedPlayers`, and `Ledger(p)` the account of `p` as the call sees it
(`getTouchedPlayer`). `CancelOrder` is one step, whose save may fail. Every
subtraction has the floor at zero that the code gives it. Calls that return
before changing anything are stuttering steps.

The player store is two variables: `accounts` in memory and `stored` in the
file. `Upsert` changes memory first, so a failed write leaves the two apart, and
the accounts not yet saved keep their old values. `Crash` may come between any
two steps, those within a call included, and loads `stored` again; book and open orders are gone.

Abstractions: one symbol; the price that a market order is reserved at (the
client's or the current one) is any member of `Quotes`; lots carry the number
of the order that bought them, and `LotsExpire` moves the five-minute window;
ids are fresh, as the game client numbers its requests (`NextId`; which id
comes next is irrelevant).

### InsiderFeed

`step` follows `marketevents.Engine.step`: `Poll` (take the due event, plan the
next), `Register` and `RegisterPreview` (`ScheduleNextRandomEvent`),
`Dispatched`, `Fire`. Each event has a goroutine (`timers`). `mail[e]` holds the
`NotifyPlayer` calls still to be made. A purchase is `BuyStart` (takes `mu`),
one of `BuyRefused`, `BuyPending`, `BuyArmed` (`buyInsiderLocked`), and
`Return`; a call that delivers a preview itself (`awaited`) cannot return
before the delivery. The clock advances only when no goroutine can go on.
`interval` is the configured time between events, one of `Intervals`.
`LateBuyers` says whether purchases are made between the due time of a preview
and its event.

### ChatFeed

`Broadcast`, its two failures (the log cannot be written: `StoreFails`; the call
is cancelled half-way through delivery: `BroadcastCancelled`), `SendDirect` and
`NotifyPlayer` are one step each, since each holds its mutex throughout. The
stream handler is in steps: `Open` (subscribes to the chat), `Request`, the two
halves of `sendInitialChatState`, `SubscribePrivate`, and the two forwarding
branches of its select loop. A channel is a sequence of at most `BufferSize`;
what finds it full is lost (`Push`, `Overflow`). `Crash` loads the log again.
Messages are numbered; the history variables `seen`, `lost`, `chatOwed`,
`privateOwed` and `inbox` record what a client got, what overflowed and what it
should have got.

### Bootstrap

`EnsurePlayer` runs under the engine's mutex and is one step with three
outcomes: it succeeds, the players' file cannot be written (`EnsureUnsaved`:
the player exists in memory only, no token), or a later write or the answer
fails (`EnsureUnanswered`: player saved and token issued, nobody knows). A new
player's role is any that `pickRole` can draw (`PossibleRoles`), since its
chance is the allocator's. A user who is told its player is in the game
(`BootstrapViaSSH`) or holds a token for its client (`TakeToken`).

The client's call is `Send`, then `Exchange` at the server with the answer
(`Answer`), a lost answer (`AnswerLost`) or an answer the client cannot use
(`NoSymbols`: it ends before it saves the profile). `TimedOut` sends again while
the first request is still on the wire; `Disconnected` is the server's restart
seen by the client. After `MaxAttempts` the user has to log in again.
`StartAfresh` is a client without its profile. `Restart` keeps the file only.
History: `told` (whom the gateway told which id) and `exchanged` (requests
answered with a player).

### PriceEngine and MarketFeed

`Apply`, `TriggerShock` and `Current` each start with `refreshStateLocked`
(`Refreshed`): expired effects go, then the price drifts by `Step`, which is
computed as in the code in units of 1/100000 and cut to the same limits, and is
aligned to the tick. The effects are a bag: the code keeps a list, but it only
filters it, adds to it and sums it up, so that their order does not matter and
their number does. An event is applied with the time it was planned for, up to
`Lag` units ago, so the price's time may be set back, and readers may then drift
over a span a second time. The history variable `drifted` adds up the spans the
price has drifted for; `DriftCountsTimeOnce` bounds it by the time the price was
set, plus `Lag` for each event: no reader repeats another's drift, and the late
events are all that counts twice. How far an order moves the price is any of
`Moves`.

In `MarketFeed` the book is the number of its changes, which is all that
matters to who has seen which. Every call of the exchange is one step that ends
with `Publish` to the subscriber's channel (`FeedCap`). The stream subscribes
(`Open`), reads its request and sends a snapshot (`Request`, `Sent`), then
serves its feed (`Forward`) and a snapshot every three seconds (`Refresh`):
messages still in the feed are then older than what the client has. Before the
first request no symbol is chosen and every message matches, so `Forward` already
goes on. The message of an event has prices and no book (`Unsaid`): losing one
loses nothing of the book, and forwarding one leaves the book of `view` alone.
`view` is what the stream delivers. The client of the repository shows market
events and portfolios of it and takes its prices from the charts; the events
themselves are not repeated by a snapshot, and one that is lost stays lost.
Portfolios come with action answers, the client's own polls and the stream, and
overtake each other (`coming`).

### ChartFeed

A tick is in two halves, as the code releases the mutex between them:
`MakeTick` records the point and copies the subscribers, `EmitTick` sends to one
of them. A subscription's goroutine waits for the end of its stream and then
closes the channel (`Disconnect`); a send to a closed channel panics, and
`down` stops the process. A subscription's forwarder takes a tick (`Take`) and
waits for room in the stream's channel (`HandOver`); the handler sends it
(`Send`). A point of a history is the number of its tick.

## 3. Runs

| Run | Instance | Shows |
|---|---|---|
| `book` | 2 ids, prices 1-3, quantities 1-2, 4 placements | refinement of `PriceTimeBook`; agreement of map and index; conservation; progress of the loop |
| `book_retry` | 2 placements, quantities 0-2 | **violated**: a repeated request rests twice (`"idempotent": true`) |
| `settlement` | 2 players with 12 cash and 1 share each, 4 requests at 2 prices, of which any two may give way to a failing cache, a failing write or a restart | open orders mirror the book; shares reserved exactly and conserved; after any fault no player offers or reserves shares it lacks; lots within holdings; no cash locked for good; no money created |
| `settlement_cash` | 3 orders, no fault | **violated**: reserved cash falls below what open orders have reserved |
| `insider` | 2 players, 4 events, lead 2, interval 1 or 3, with and without late buyers, fairness | no purchase is forgotten, also when previews are due at registration; those made in time are served, and before the event |
| `insider_late` | interval 3, late buyers | **violated**: a late purchase deadlocks the engine and its preview never arrives |
| `chat` | 1 stream, 3 messages, 2 requests, 1 failing call, 1 restart | no global message falls between history and live feed; direct messages are in the backlog; acknowledged messages stay in the stored log until it is full of newer ones |
| `chat_private` | 1 stream, 2 messages | **violated**: a direct message between private history and subscription is lost to the stream |
| `bootstrap` | 2 users, token life 1, 2 attempts, time up to 1, 2 faults, fairness | roles balanced; answered players survive; a token opens one session; everyone gets in |
| `market` | price 1000, tick 5, 3 changes, channel of 1, time up to 2 (of 5 seconds), fairness | drift counts time once and follows the effects; a drained stream is current; what the stream delivers and the portfolio end up right |
| `chart` | 1 ticker with 5 ticks, channels of 2 and 1, a client that reads and one that need not, 2 subscriptions, fairness | charts have no gaps and go forward; nobody holds up a ticker; an idle chart gets the next tick |
| `chart_panic` | the same, 2 ticks | **violated**: a disconnect during a tick stops the process |

Bounds. Four placements suffice for a level with two orders, a second level, and
a taker that walks both with a partial fill; two ids also give repeated ids.
Quantities 2 against 1 give partial fills on either side, and 0 (in
`book_retry`) exercises validation. For `settlement`, three orders are needed
for the drift of reserved cash (two bids of one player, one sale) and the fourth
lets a later order meet its effects; requests and faults share the budget of
four, so two orders meet two faults; 12 cash pays for one or two orders, so
refusals occur, and with one share each to begin with a player soon sells what it
has just bought; a quote of 3 makes market buys at 4 cost more than was reserved;
prices this small make every charge 1, which is where rounding matters most.
Each kind of fault happens at most once. Four events let a purchase be carried
over twice; two purchases per player give a repeated one. In `chat` histories
and the log hold 2 messages and a channel 1, so that three messages pass each
limit, also after a failed write or a restart. The backlog is claimed for a
process that has not restarted: after that, global messages may crowd a direct
one out of the player's query, which no document excludes (a hazard in
`PROJECT.json`). In `bootstrap` a token expires after one unit of time, two
attempts give a resent request that races the first, and two faults give a
failed write followed by a restart, or a lost answer to each of two requests. In
`market` a move of -350 basis points and the shock of 35 percent are the largest
the code lets through, -15 percent is a strong fall; a shock lasts two units, so it wears off, ends, and arrives
up to one unit late; one message fills the channel, and three changes overflow it
before and after a snapshot. In `chart` five ticks overflow what a sleeping
client's channel (2), forwarder (1) and stream (1) take, and a history of two
points is trimmed; the two subscriptions may be of one client or of both.

`SYMMETRY` permutes players or ids that start alike, only in runs without
liveness properties. Deadlock checking is off where the bounds or the system
make everything stop; in `book` and `market` it is on.

Fairness, and why the code justifies it:

- `InsiderFeed`: goroutines and calls run on (weak fairness); `sync.Mutex` does
  not starve a waiter and time passes whatever the players do (strong fairness
  of `NotifyPlayer` and `Tick`, which purchases may disable again and again).
  Players are not forced to buy. `EveryBuyerIsServed` is about purchases made in
  time: finding 3 is about the others.
- `Bootstrap`: a user who is out logs in again, a client goes on with its call,
  the server handles what reaches it. Faults are finitely many; time need not
  pass.
- `MarketFeed`: Go's `select` serves every ready source in turn, the client polls
  and answers arrive. Nobody owes the market an order or an event.
- `ChartFeed`: timers fire and goroutines run while the process lives; a slow
  client's `Send` is not fair, and nobody has to connect or to leave.

Every property of a passing run has a mutant in `PROJECT.json`: a plausible bug
that TLC finds. Where one needs more than a changed expression it is defined
next to the definition it replaces, marked *fault*.

## 4. Findings

1. **Reserved cash drifts** (`settlement_cash`). A resting buy order keeps
   price times quantity reserved, without its fee (`engine.go:652`, `:711`);
   its fill takes cost *and* fee from the account's reserved cash. With two
   bids of one player the second one is then no longer covered.
   `buyReservationTarget`, which includes the fee, is unused.
   What does hold is the other direction: `CashReservationsBounded`.
2. **A repeated request is placed again** (`book_retry`), although
   `config/actions/place_order.json:7` declares `"idempotent": true`.
3. **A late insider purchase deadlocks the gameplay engine** (`insider_late`):
   `intel.Engine.Buy` calls `NotifyPlayer` while `ExecuteAction` holds the mutex
   `NotifyPlayer` locks (`intel/engine.go:197`, `gameplay/intel_support.go:77`).
4. **A direct message can miss the stream** (`chat_private`). `GetMarketStream`
   subscribes to the global chat before it reads the history, but to the private
   feed after it (`grpcapi/service.go:139`, `:148`). A direct message in between
   is in neither. `TestDirectMessageDeliveredViaPrivateStream` sends at exactly
   that moment and usually wins the race. The same order applied to the chat
   feed is what makes `ChatReachesStream` hold.
5. **A disconnect can stop the server** (`chart_panic`). `emitTick` copies the
   subscribers, releases the mutex and sends (`charting/engine.go:208`); the
   goroutine that waits for the end of a stream closes its channel under the
   mutex (`:155`). A send to a copied subscriber after that panics, and no ticker
   emits its "periodic `price_chart_tick` snapshots" (`README.md:113`) any more.

## 5. Proofs

All theorems are about any value of the constants that satisfies the `ASSUME`s
of the module, which TLC evaluates in every run; there are no other assumptions.
Each follows from an inductive invariant, with one lemma or step per action.

**`OrderBookProofs`**: `TypeCorrect`, `IndexAgrees`, `OnlyLiveOrdersRest`,
`BookNeverCrossed`, `FirstComeFirstServed`, and the action property
`MatchingTerminates`. None of the invariants is inductive alone. `IInv` is
`ScalarsOK /\ BookOK /\ NeverCrossed /\ IncomingOK`, where `BookOK` says of each
side (`SideOK`) that the index is sorted and agrees with the map, and of each
level (`LevelOK`) that its orders are live, belong there and are stamped in
increasing order up to `Bound`, the last placement that can rest. `Bound` is
one less than `placed` while an order is being matched, so that the order about
to rest is younger than all. `NeverCrossed` survives `PlaceFinish` because the
loop ended with `~CanCross`, which the sortedness of the index carries from the
best price to all. One lemma per helper: `InsertPrice`, `RemovePrice`,
`WithLevel`, `WithOrder`, `LevelAfterFill`. `NoShareLost` adds conservation of
quantity: a trade's quantity is what the incoming order loses.

`ImplementsPriceTimePriority` is the refinement
`Spec => PriceTimePriority`, from the same `IInv`. The lemmas relate maps of
queues to the set of their orders: stamps tell the orders of a level apart
(`LevelDistinct`), replacing a level changes the set by that level only
(`LevelReplaced`), the head of the best queue has priority over everything on
its side (`BestIsFirst`), and the loop's test of the best price is the abstract
test of all makers (`CrossingAdmits`). Then one step lemma per abstract action;
a rejected placement and an unknown cancellation stutter.

**`DataLemmas`** has what several of these proofs need of numbers, sequences and
sums. Sums are folds over finite sets. That the fold's recursive function exists
and does not depend on the order in which elements are taken out is shown once,
by looking at a smallest set for which it fails (`AdderExists`, `SumOut`). From
there on `SumChange`, `SumOut` and their kin say how a sum changes with one of
its terms, and the models state totals as such sums, over players, open orders,
lots or trades.

**`SettlementProofs`**: all eight properties of the run `settlement`, for any
number of players, orders, trades in a call and faults. It uses the book's `IInv`
by `INSTANCE`, as every step of `Settlement` is a step of the book, leaves it alone
or empties it. Four invariants, each used by the next:

- `TypeInv`: types, the book's `IInv`, and `CallOK`: what the variables of a call
  may hold in each phase. Gives `Types`, and with the sum over players
  `NoneCreated`: the buyer pays at least what the seller gets, whatever is
  rounded, also when both are one player.
- `MirrorInv`, unless the cache has failed: `IdsOK` (ids tell orders apart),
  `TradesOK` (each trade of the call that is not applied yet has an open order
  as its maker, and no two the same one) and `OrdersOK` (an open order agrees
  with the book up to the trades still to be applied; one that is gone from the
  book is in `removed`). The property alone speaks of idle times only. That no
  two trades of a call share a maker is what makes replaying them right, and
  holds as a maker that is left over ends the matching. Gives `OrdersMirrored`.
- `SoundInv`, unless the cache has failed: every open order and the incoming one
  hold the shares they still offer, and every account (in memory, in the file,
  in the copies) reserves what its orders claim, and has what it reserves and
  what its lots say. The claim of a player counts its open orders, its incoming
  order, and trades not applied yet. The step that matters is `ApplyTrade`, where
  a claim becomes a sale. Gives `ReservationsBacked` and `LotsHeld`; a failing
  write and a restart keep it since the file never claims more than memory did.
- `ExactInv`, without faults: nothing is reserved that no order claims. Gives
  `SharesInSync` and `CashNotLocked`; `SharesKept` follows from `SoundInv`, as
  the floor at zero is never reached.

`LotsWithinHoldings` excludes a failing cache because it is false there: after
one, an order rests in the book that the engine has no record of, its owner can
sell the shares a second time, trade with its own forgotten order, and be left
with lots for shares it has sold. The proof attempt showed this; TLC needs five
orders to reproduce it, more than the run has.

**`BootstrapProofs`**: `TypeCorrect`, `RolesStayBalanced`, `PlayersAreKept`,
`TokensOpenOneSession`. `Balanced` is kept because one more player of a role
`pickRole` allows stays within the limits and the file is always some earlier
memory. Ownership needs `Owners`: ids are distinct, the file is part of memory,
and every id that a token, a printed answer or a profile carries is in the file
for its user. A token opens one session since an exchanged one is gone and is
never issued again (`OneTime`).

**`MarketFeedProofs`**: `TypeCorrect`, `ReadingsAgree`, `TimeCountsOnce`,
`DriftIsPulled`, `NothingFallsBetween`. `PriceInv`: the price is a positive multiple of the tick,
its time is not ahead of the clock, and the effects are a finite bag of effects
that begin before they end. That is what makes a second reading at the same time
change nothing: a step of no time drifts by 0, and `MovedPrice` shows that a
move by 0 leaves a multiple of the tick as it is. `BiasSign` and `StepSign` carry
the sign of the live effects through the sum, the divisions and the limits, and
`MovedPrice` to the rounded price. Integer division has lemmas of its own
(`Division`, `Quotient`), as the solver knows little about it.
`TimeCountsOnce` is inductive with the types alone: a refresh that moves the
price counts the span it sets the price's time on by (`RefreshedTime`), and only
a late event sets it back. That a second reading changes nothing (`ReadsAgree`)
is proved and not checked by a run of its own. `FeedInv`: the last message in
the channel that tells of the book carries the present one, or the view does if
there is none, unless a change has been lost since.

**`ChartFeedProofs`**: `TypeCorrect`, `NoGaps`, `ChartsRise`. `IInv` adds to the types that each
ticker's history is an unbroken run up to its last tick, as long as the limit
allows, and that every tick in a channel, a forwarder, a stream or on a screen
carries such a run of its own. `ChartsRise`, an action property, needs `OInv`: no
tick is ahead of its ticker, a subscription carries ticks of its own ticker
only, and for a client with one subscription to a ticker the ticks rise all the
way, from the screen back through stream, forwarder and channel to the engine.
A second subscription, with a forwarder that races the first, is what the
property has to exclude.

**`InsiderFeedProofs`**: `TypeCorrect`, `PurchasesAreKept`,
`EarlyBuyersServedFirst`. `Order` relates the
registered event to the planned one and to time, `Arms` says whose previews an
event has, and `Honours` counts: each preview paid stands with an event of its
own, or with none yet. The counting rests on three lemmas about cardinalities.
`Prompt` is what purchases in time add: no call delivers a preview itself
(`Calls`), a preview is not due before its event is registered and is sent when
it is (`Ahead`), only the planned event has deliveries under way and time stands
until they are done (`Mailed`), and whoever is to see a preview has seen it, is
about to, or has it still to be sent (`Shown`). Events are fired in the order
they are planned in (`Fired`).

**`ChatFeedProofs`**: `TypeCorrect`, `ChatIsNotMissed`, `AcknowledgedIsKept`,
`BacklogIsComplete`.
`Reach` follows a stream through its handler: it is subscribed until it leaves,
and what it is owed has been seen, is in its channel or was lost to an
overflow. `LogsKept` says of the log in
memory and of the file that they are numbered upwards and have what was
acknowledged, or are full of newer messages. `Backlog` says that a player's history
in memory has the last messages it was sent, until a restart; the history read
from the store is put before it, so that the limit cuts that one first
(`LatestHasEnd`). The store's query selects from a list. That its result is a
list again (`ChosenIsList`) takes a smallest counterexample, first for the
recursive function to exist and then for its values; `Chosen` is written out
because the prover has no definition of `SelectSeq`.

Every invariant and action property of the passing runs is stated by a theorem.
Only model-checked: the liveness properties `EveryBuyerIsServed`,
`EveryoneGetsIn`, `ViewCatchesUp`, `PortfolioCatchesUp`, `NobodyHoldsATicker` and
`ChartsGoOn`, as fairness and `ENABLED` are out of the prover's reach; and that
`InsertPrice` is append-and-sort, compared with `SortSeq` over bounded inputs.

## 6. Not modelled

- The trade and performance stores: logs that are appended at the end of a call
  and trimmed; no other part reads them back.
- The legacy action bus with its transfer transaction and the crash event: no
  command starts it.
- Paid analytics of intel, which keep no state; the text, the choice and the
  multiplier of random events; rumors reach the price as any event does.
- Purchases that wait in memory when the server restarts (`InsiderFeed` has no
  restart) are lost; no document promises otherwise.
- Repeated request ids in `Settlement`: `openOrders` of the engine is keyed by
  id, so finding 2 also loses a reservation there.
- Several tickers in `MarketFeed`, several books in `Settlement`; the snapshot
  and the portfolio of one `SendMarketState` are read in one step.
- Which portfolio a client gets first is any that is on its way, over-approximating
  the order of one stream.
- Volumes and indicators of a chart, book sequence numbers (kept in `OrderBook`,
  but nobody reads them), recent trades.
- The client's drawing and key handling, its internal event channel, SSH and gRPC
  transport, configuration, logging, generated code; the Postgres schema is not
  used by the live server.
