----------------------------- MODULE MarketFeed ------------------------------
(***************************************************************************)
(* From the market to a client's screen: the exchange service              *)
(* (internal/exchange/service.go) with its price engine, the market half   *)
(* of GetMarketStream (internal/grpcapi/service.go), and the client with   *)
(* its portfolio (cmd/game-client), for one ticker.                        *)
(*                                                                         *)
(* The exchange's mutex makes every call of it one step.  The book is the  *)
(* number of its changes, an account the number of those it has been       *)
(* settled for; what matters here is who has seen which of them.           *)
(*                                                                         *)
(* Book and price are followed to where the stream delivers them: the      *)
(* client of the repository shows market events and portfolios and takes   *)
(* its prices from the charts (ChartFeed), other clients are promised the  *)
(* rest.                                                                   *)
(***************************************************************************)
EXTENDS PriceEngine

CONSTANTS FeedCap,    \* messages a subscriber's channel holds
          MaxChanges  \* bound: orders, cancellations and market events

ASSUME FeedAssumption == FeedCap \in Nat \ {0} /\ MaxChanges \in Nat

VARIABLES book,       \* changes of the order book
          events,     \* market events applied
          account,    \* the last change the player's account is settled for
          \* the stream of the client
          phase,      \* "closed", "open" (no request yet), "sending" or "serving"
          feed,       \* the subscriber's channel
          dropped,    \* a change of the book was lost and no snapshot has made up for it
          \* the client
          view,       \* what its stream has said last of book and price
          coming,     \* portfolios on their way to it
          portfolio   \* the portfolio on its screen

streamVars == <<phase, feed, dropped, view>>
playerVars == <<coming, portfolio>>
vars == <<priceVars, book, events, account, streamVars, playerVars>>

(* What a message tells: the price, and the book unless it is of an event. *)
Unsaid == -1

Message == [book : 0..MaxChanges \cup {Unsaid}, price : Nat]

View == [book : 0..MaxChanges, price : Nat]

Nothing == [book |-> 0, price |-> 0]

Init ==
    /\ PriceInit
    /\ book = 0 /\ events = 0 /\ account = 0
    /\ phase = "closed" /\ feed = <<>> /\ dropped = FALSE /\ view = Nothing
    /\ coming = {} /\ portfolio = 0

----------------------------------------------------------------------------
(* The exchange                                                            *)

ListensLate == phase = "serving"   \* fault: the feed is subscribed after the snapshot

(* The stream's feed is subscribed before its request is read.             *)
Listens == phase # "closed"

PublishAll(m) ==   \* fault: the channel has no limit
    /\ feed' = IF Listens THEN Append(feed, m) ELSE feed
    /\ UNCHANGED dropped

(* publishLocked: a full channel loses the message.                        *)
Publish(m) ==
    LET room == Len(feed) < FeedCap
    IN  /\ feed' = IF Listens /\ room THEN Append(feed, m) ELSE feed
        /\ dropped' = (dropped \/ (Listens /\ ~room /\ m.book # Unsaid))

(* An order of the player or of others is placed: the book changes, the    *)
(* price moves, subscribers hear of it; then the account is settled, and   *)
(* the answer carries the new portfolio.                                   *)
PlaceOrder(m) ==
    /\ book + events < MaxChanges
    /\ book' = book + 1
    /\ Apply(m)
    /\ Publish([book |-> book', price |-> state'.price])
    /\ account' = book'
    /\ coming' = coming \cup {book'}
    /\ UNCHANGED <<now, events, phase, view, portfolio>>

(* A cancellation leaves the price to its drift.                           *)
CancelOrder ==
    /\ book + events < MaxChanges
    /\ book' = book + 1
    /\ Current
    /\ Publish([book |-> book', price |-> state'.price])
    /\ account' = book'
    /\ UNCHANGED <<now, events, phase, view, playerVars>>

(* An event moves the price; its message has prices and no book.           *)
TriggerMarketEvent(pct, duration, occurredAt) ==
    /\ book + events < MaxChanges
    /\ events' = events + 1
    /\ TriggerShock(pct, duration, occurredAt)
    /\ Publish([book |-> Unsaid, price |-> state'.price])
    /\ UNCHANGED <<now, book, account, phase, view, playerVars>>

(* Somebody else reads the price: a chart, or another stream.              *)
ReadPrice ==
    /\ Current
    /\ UNCHANGED <<now, book, events, account, streamVars, playerVars>>

----------------------------------------------------------------------------
(* The stream                                                              *)

Open ==
    /\ phase = "closed"
    /\ phase' = "open"
    /\ UNCHANGED <<priceVars, book, events, account, feed, dropped, view, playerVars>>

(* sendInitialMarketState: a snapshot of the market, which reads the       *)
(* price, and the portfolio.  Older messages may still be in the feed.     *)
SendMarketState ==
    /\ phase' = "sending"
    /\ Current
    /\ view' = [book |-> book, price |-> state'.price]
    /\ dropped' = (dropped /\ feed # <<>>)
    /\ coming' = coming \cup {account}

(* The client's request is handled.                                        *)
Request ==
    /\ phase = "open"
    /\ SendMarketState
    /\ UNCHANGED <<now, book, events, account, feed, portfolio>>

Sent ==
    /\ phase = "sending"
    /\ phase' = "serving"
    /\ UNCHANGED <<priceVars, book, events, account, feed, dropped, view, playerVars>>

(* A message of the feed goes out, also before the first request, when no  *)
(* symbol has been chosen and all match.  It may be older than a snapshot  *)
(* the client already has.                                                 *)
Forward ==
    /\ phase \in {"open", "serving"}
    /\ feed # <<>>
    /\ LET m == Head(feed)
       IN  view' = [book |-> IF m.book = Unsaid THEN view.book ELSE m.book, price |-> m.price]
    /\ feed' = Tail(feed)
    /\ UNCHANGED <<priceVars, book, events, account, phase, dropped, playerVars>>

RefreshPortfolio ==   \* fault: of the state, only the portfolio is sent again
    /\ phase = "serving"
    /\ phase' = "sending"
    /\ coming' = coming \cup {account}
    /\ UNCHANGED <<priceVars, book, events, account, feed, dropped, view, portfolio>>

(* Every three seconds the state is sent again; before the first request   *)
(* nothing is, for there are no symbols yet.                               *)
Refresh ==
    /\ phase = "serving"
    /\ SendMarketState
    /\ UNCHANGED <<now, book, events, account, feed, portfolio>>

----------------------------------------------------------------------------
(* The client                                                              *)

(* Every four seconds the client asks for its portfolio; the answer is     *)
(* made now and arrives later.                                             *)
RequestPortfolio ==
    /\ coming' = coming \cup {account}
    /\ UNCHANGED <<priceVars, book, events, account, streamVars, portfolio>>

ShowFirst(p) == portfolio' = IF portfolio = 0 THEN p ELSE portfolio   \* fault

Show(p) == portfolio' = p

(* applyActionResponse, and the same for portfolios of the stream: what    *)
(* arrives goes to the screen, whichever is newer.                         *)
ApplyActionResponse(p) ==
    /\ p \in coming
    /\ coming' = coming \ {p}
    /\ Show(p)
    /\ UNCHANGED <<priceVars, book, events, account, streamVars>>

Passes == Advance /\ UNCHANGED <<book, events, account, streamVars, playerVars>>

----------------------------------------------------------------------------

Market ==
    \/ \E m \in Moves : PlaceOrder(m)
    \/ CancelOrder
    \/ \E pct \in Shocks, d \in Durations, t \in OccursAt : TriggerMarketEvent(pct, d, t)
    \/ ReadPrice

Stream == Open \/ Request \/ Sent \/ Forward \/ Refresh

Next ==
    \/ Market
    \/ Stream
    \/ RequestPortfolio
    \/ \E p \in coming : ApplyActionResponse(p)
    \/ Passes

Spec == Init /\ [][Next]_vars

(* The handler's select serves every source in turn, the client polls and  *)
(* its answers arrive.  The market owes nobody an order or an event.       *)
Fairness ==
    /\ WF_vars(Open) /\ WF_vars(Request) /\ WF_vars(Sent) /\ WF_vars(Forward) /\ WF_vars(Refresh)
    /\ WF_vars(RequestPortfolio)
    /\ \A p \in 0..MaxChanges : WF_vars(ApplyActionResponse(p))

FairSpec == Spec /\ Fairness
----------------------------------------------------------------------------
(* Properties                                                              *)

(* Every variable has its type; the channel keeps to its capacity.         *)
TypeOK ==
    /\ now \in 0..MaxNow
    /\ drifted \in Nat
    /\ state.price \in Nat \ {0} /\ state.updatedAt \in 0..now
    /\ IsABag(state.effects) /\ DOMAIN state.effects \subseteq Effect
    /\ book \in 0..MaxChanges /\ events \in 0..MaxChanges /\ account \in 0..book
    /\ phase \in {"closed", "open", "sending", "serving"}
    /\ feed \in Seq(Message) /\ Len(feed) <= FeedCap
    /\ dropped \in BOOLEAN
    /\ view \in View
    /\ coming \subseteq 0..MaxChanges /\ portfolio \in 0..MaxChanges

(* "publishes market updates to subscribers" (README.md:105): a client     *)
(* that has got all its channel held knows the book, unless a change of it *)
(* was lost since a snapshot found it empty.  Nothing falls between the    *)
(* subscription, the snapshot and the feed, although snapshots overtake    *)
(* messages and the book the client sees may go back for a while.          *)
DrainedMeansCurrent ==
    phase = "serving" /\ feed = <<>> /\ ~dropped => view.book = book

(* However often it is read, the price has drifted for no longer than the  *)
(* time that had passed when it was last set (refreshStateLocked): only an *)
(* event that is applied late sets that time back, and then Lag is what is *)
(* counted again at most.                                                  *)
DriftCountsTimeOnce == drifted <= state.updatedAt + Lag * events

(* However many messages the channel lost, and although reads move the     *)
(* price without a message, once the market rests what the stream has said *)
(* ends up at its state: the refreshes see to it.                          *)
ViewCatchesUp == <>[](view = [book |-> book, price |-> state.price])

(* Answers and stream messages with portfolios overtake each other; once   *)
(* the account rests, the screen ends up with the account as it is.        *)
PortfolioCatchesUp == <>[](portfolio = account)
=============================================================================
