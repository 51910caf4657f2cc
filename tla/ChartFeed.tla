------------------------------ MODULE ChartFeed ------------------------------
(***************************************************************************)
(* The charts: the charting engine (internal/charting/engine.go), which    *)
(* makes a tick per ticker and interval and offers it to every subscriber, *)
(* and SubscribeToChart (internal/grpcapi/service.go), which merges the    *)
(* subscriptions of a stream for its client.                               *)
(*                                                                         *)
(* Goroutines: one per ticker (MakeTick, EmitTick), one that waits for the *)
(* end of each subscription's stream (Disconnect), one that forwards each  *)
(* subscription (Take, HandOver), and a stream's handler (Send).  A point  *)
(* of a history is the number of its tick; prices, volumes and indicators  *)
(* of a tick are left out.                                                 *)
(***************************************************************************)
EXTENDS Integers, Sequences, SequencesExt, FiniteSets

CONSTANTS Tickers, Clients,
          Slow,          \* clients that may stop reading
          HistoryLimit,  \* points kept of a ticker
          LimitOf,       \* points a client asks for; 0 for all
          ChanCap,       \* ticks a subscription's channel holds
          OutCap,        \* ticks a stream's channel holds
          MaxSubs,       \* bound: subscriptions
          MaxTicks       \* bound: ticks of a ticker

ASSUME ChartAssumption ==
    /\ Slow \subseteq Clients /\ LimitOf \in [Clients -> Nat]
    /\ HistoryLimit \in Nat \ {0} /\ ChanCap \in Nat \ {0} /\ OutCap \in Nat \ {0}
    /\ MaxSubs \in Nat \ {0} /\ MaxTicks \in Nat \ {0}

VARIABLES made,         \* ticks made, of each ticker
          history,      \* the points kept
          todo,         \* subscriptions the current tick is still to be sent to
          subscribers,  \* of each ticker: from ids to subscriptions
          subs,         \* every subscription ever made
          ch,           \* their channels
          closed,       \* those whose channel is closed
          hand,         \* what their forwarders hold
          stream,       \* of each client: "closed", "open" or "ended"
          out,          \* the channels of the streams
          screen,       \* the last tick a client got, of each ticker
          down          \* the process has panicked

engineVars == <<made, history, todo, subscribers, subs, closed>>
vars == <<engineVars, ch, hand, stream, out, screen, down>>

Subs == 1..MaxSubs
Tick == [ticker : Tickers, at : 0..MaxTicks, history : Seq(1..MaxTicks)]

(* The last n elements of s.                                               *)
Newest(s, n) == IF Len(s) <= n THEN s ELSE SubSeq(s, Len(s) - n + 1, Len(s))

Init ==
    /\ made = [t \in Tickers |-> 0] /\ history = [t \in Tickers |-> <<>>]
    /\ todo = [t \in Tickers |-> {}] /\ subscribers = [t \in Tickers |-> <<>>]
    /\ subs = <<>> /\ closed = {}
    /\ ch = [s \in Subs |-> <<>>] /\ hand = [s \in Subs |-> <<>>]
    /\ stream = [c \in Clients |-> "closed"] /\ out = [c \in Clients |-> <<>>]
    /\ screen = [c \in Clients |-> [t \in Tickers |-> [ticker |-> t, at |-> 0, history |-> <<>>]]]
    /\ down = FALSE

Open(s) == stream[subs[s].client] = "open"
----------------------------------------------------------------------------
(* Subscriptions                                                           *)

Connect(c) ==
    /\ stream[c] = "closed"
    /\ stream' = [stream EXCEPT ![c] = "open"]
    /\ UNCHANGED <<engineVars, ch, hand, out, screen, down>>

(* A request for a ticker.  A second one for the same ticker adds a        *)
(* subscription to the first.                                              *)
Subscribe(c, t) ==
    /\ stream[c] = "open"
    /\ Len(subs) < MaxSubs
    /\ LET id == Len(subs)
       IN  /\ subs' = Append(subs, [client |-> c, ticker |-> t, id |-> id])
           /\ subscribers' = [subscribers EXCEPT ![t] =
                  [i \in DOMAIN @ \cup {id} |-> IF i = id THEN Len(subs') ELSE @[i]]]
    /\ UNCHANGED <<made, history, todo, closed, ch, hand, stream, out, screen, down>>

(* The client goes, or a request for an unknown ticker ends its stream and *)
(* with it the stream's context.                                           *)
End(c) ==
    /\ stream[c] = "open"
    /\ stream' = [stream EXCEPT ![c] = "ended"]
    /\ out' = [out EXCEPT ![c] = <<>>]
    /\ UNCHANGED <<engineVars, ch, hand, screen, down>>

ForgetTicker(s) ==   \* fault: all subscribers of the ticker are taken out
    subscribers' = [subscribers EXCEPT ![subs[s].ticker] = <<>>]

Forget(s) ==
    subscribers' = [subscribers EXCEPT ![subs[s].ticker] =
        [i \in DOMAIN @ \ {subs[s].id} |-> @[i]]]

(* Some time after its stream has ended a subscription is taken out of the *)
(* map and its channel closed; its forwarder is gone.                      *)
Disconnect(s) ==
    /\ s \in DOMAIN subs \ closed
    /\ ~Open(s)
    /\ closed' = closed \cup {s}
    /\ Forget(s)
    /\ ch' = [ch EXCEPT ![s] = <<>>] /\ hand' = [hand EXCEPT ![s] = <<>>]
    /\ UNCHANGED <<made, history, todo, subs, stream, out, screen, down>>

----------------------------------------------------------------------------
(* Ticks                                                                   *)

TrimmedAtEnd(points) ==   \* fault: the oldest points are kept
    IF Len(points) <= HistoryLimit THEN points ELSE SubSeq(points, 1, HistoryLimit)

Trimmed(points) == Newest(points, HistoryLimit)

(* The first half of emitTick, under the mutex: the point is recorded and  *)
(* the subscribers are copied.  With the market's snapshot missing nothing *)
(* happens.                                                                *)
MakeTick(t) ==
    /\ todo[t] = {}
    /\ made[t] < MaxTicks
    /\ made' = [made EXCEPT ![t] = @ + 1]
    /\ history' = [history EXCEPT ![t] = Trimmed(Append(@, made'[t]))]
    /\ todo' = [todo EXCEPT ![t] = {subscribers[t][i] : i \in DOMAIN subscribers[t]}]
    /\ UNCHANGED <<subscribers, subs, closed, ch, hand, stream, out, screen, down>>

(* buildTick *)
BuildTick(s) ==
    LET t == subs[s].ticker
        limit == LimitOf[subs[s].client]
    IN  [ticker |-> t, at |-> made[t],
         history |-> IF limit = 0 THEN history[t] ELSE Newest(history[t], limit)]

EmitWaiting(t, s) ==   \* fault: the engine waits for room in the channel
    /\ s \in todo[t]
    /\ s \in closed \/ Len(ch[s]) < ChanCap
    /\ todo' = [todo EXCEPT ![t] = @ \ {s}]
    /\ down' = (s \in closed)
    /\ ch' = IF s \in closed THEN ch ELSE [ch EXCEPT ![s] = Append(@, BuildTick(s))]
    /\ UNCHANGED <<made, history, subscribers, subs, closed, hand, stream, out, screen>>

(* The second half, with the mutex released: every subscriber copied is    *)
(* sent the tick if its channel has room.  A send on a closed channel      *)
(* panics.                                                                 *)
EmitTick(t, s) ==
    /\ s \in todo[t]
    /\ todo' = [todo EXCEPT ![t] = @ \ {s}]
    /\ down' = (s \in closed)
    /\ ch' = IF s \in closed \/ Len(ch[s]) = ChanCap THEN ch
             ELSE [ch EXCEPT ![s] = Append(@, BuildTick(s))]
    /\ UNCHANGED <<made, history, subscribers, subs, closed, hand, stream, out, screen>>

----------------------------------------------------------------------------
(* Streams                                                                 *)

TakeAny(s) ==   \* fault: a goroutine for every tick
    /\ s \in DOMAIN subs /\ Open(s)
    /\ hand[s] = <<>>
    /\ \E i \in DOMAIN ch[s] :
           /\ hand' = [hand EXCEPT ![s] = <<ch[s][i]>>]
           /\ ch' = [ch EXCEPT ![s] = RemoveAt(@, i)]
    /\ UNCHANGED <<engineVars, stream, out, screen, down>>

(* The forwarder of a subscription takes a tick of it ...                  *)
Take(s) ==
    /\ s \in DOMAIN subs /\ Open(s)
    /\ hand[s] = <<>> /\ ch[s] # <<>>
    /\ hand' = [hand EXCEPT ![s] = <<Head(ch[s])>>]
    /\ ch' = [ch EXCEPT ![s] = Tail(@)]
    /\ UNCHANGED <<engineVars, stream, out, screen, down>>

HandOverAlways(s) ==   \* fault: the stream's channel has no limit
    /\ s \in DOMAIN subs /\ Open(s)
    /\ hand[s] # <<>>
    /\ out' = [out EXCEPT ![subs[s].client] = @ \o hand[s]]
    /\ hand' = [hand EXCEPT ![s] = <<>>]
    /\ UNCHANGED <<engineVars, ch, stream, screen, down>>

(* ... and waits for room in the stream's channel.                         *)
HandOver(s) ==
    /\ s \in DOMAIN subs /\ Open(s)
    /\ hand[s] # <<>> /\ Len(out[subs[s].client]) < OutCap
    /\ out' = [out EXCEPT ![subs[s].client] = @ \o hand[s]]
    /\ hand' = [hand EXCEPT ![s] = <<>>]
    /\ UNCHANGED <<engineVars, ch, stream, screen, down>>

(* The handler sends, and the client shows what it gets.                   *)
Send(c) ==
    /\ out[c] # <<>>
    /\ screen' = [screen EXCEPT ![c][Head(out[c]).ticker] = Head(out[c])]
    /\ out' = [out EXCEPT ![c] = Tail(@)]
    /\ UNCHANGED <<engineVars, ch, hand, stream, down>>

----------------------------------------------------------------------------

Next ==
    /\ ~down
    /\ \/ \E c \in Clients : Connect(c) \/ End(c) \/ Send(c)
       \/ \E c \in Clients, t \in Tickers : Subscribe(c, t)
       \/ \E s \in Subs : Disconnect(s) \/ Take(s) \/ HandOver(s)
       \/ \E t \in Tickers : MakeTick(t)
       \/ \E t \in Tickers, s \in Subs : EmitTick(t, s)

Spec == Init /\ [][Next]_vars

(* Timers fire and goroutines run while the process does.  A slow client   *)
(* need not read, and its handler then waits in Send.  Nobody has to       *)
(* connect, to subscribe or to leave.                                      *)
Fairness ==
    /\ \A t \in Tickers : WF_vars(~down /\ MakeTick(t))
    /\ \A t \in Tickers : WF_vars(~down /\ \E s \in Subs : EmitTick(t, s))
    /\ \A s \in Subs : /\ WF_vars(~down /\ Disconnect(s))
                       /\ WF_vars(~down /\ Take(s))
                       /\ WF_vars(~down /\ HandOver(s))
    /\ \A c \in Clients \ Slow : WF_vars(~down /\ Send(c))

FairSpec == Spec /\ Fairness
----------------------------------------------------------------------------
(* Properties                                                              *)

(* Every variable has its type and the channels keep to their capacities.  *)
TypeOK ==
    /\ made \in [Tickers -> 0..MaxTicks]
    /\ history \in [Tickers -> Seq(1..MaxTicks)]
    /\ \A t \in Tickers : Len(history[t]) <= HistoryLimit
    /\ todo \in [Tickers -> SUBSET DOMAIN subs]
    /\ DOMAIN subscribers = Tickers
    /\ \A t \in Tickers : \A i \in DOMAIN subscribers[t] : subscribers[t][i] \in DOMAIN subs
    /\ subs \in Seq([client : Clients, ticker : Tickers, id : 0..MaxSubs]) /\ Len(subs) <= MaxSubs
    /\ closed \subseteq DOMAIN subs
    /\ ch \in [Subs -> Seq(Tick)] /\ hand \in [Subs -> Seq(Tick)]
    /\ \A s \in Subs : Len(ch[s]) <= ChanCap /\ Len(hand[s]) <= 1
    /\ stream \in [Clients -> {"closed", "open", "ended"}]
    /\ out \in [Clients -> Seq(Tick)]
    /\ \A c \in Clients : Len(out[c]) <= OutCap
    /\ screen \in [Clients -> [Tickers -> Tick]]
    /\ down \in BOOLEAN

(* Full channels lose ticks, yet a chart has no gaps: what a client shows  *)
(* ends with the tick it got last and goes back without a hole as far as   *)
(* it asked for, or to the first tick.                                     *)
ChartsHaveNoGaps ==
    \A c \in Clients, t \in Tickers :
        LET shown == screen[c][t]
            wanted == (IF LimitOf[c] = 0 THEN {} ELSE {LimitOf[c]}) \cup {HistoryLimit, shown.at}
        IN  /\ \E n \in wanted : Len(shown.history) = n /\ \A m \in wanted : n <= m
            /\ \A i \in DOMAIN shown.history :
                   shown.history[i] = shown.at - Len(shown.history) + i

Subscriptions(c, t) == {s \in DOMAIN subs : subs[s].client = c /\ subs[s].ticker = t}

(* A chart never goes back to an older tick, although a tick passes two    *)
(* channels and a forwarder and others are lost; unless the client has     *)
(* subscribed twice and two forwarders race.                               *)
ChartsGoForward ==
    [][\A c \in Clients, t \in Tickers :
           Cardinality(Subscriptions(c, t)) <= 1 => screen'[c][t].at >= screen[c][t].at]_vars

(* A slow client, or one whose stream is ending, holds up no ticker: ticks *)
(* come for as long as the process lives.                                  *)
NobodyHoldsATicker == \A t \in Tickers : <>(made[t] = MaxTicks \/ down)

Idle(c, t) ==
    /\ out[c] = <<>> /\ todo[t] = {}
    /\ \A s \in DOMAIN subs : subs[s].client = c => ch[s] = <<>> /\ hand[s] = <<>>

(* A subscriber is not forgotten, whoever comes and goes: while it has     *)
(* nothing on its way the next tick will reach it, unless its stream ends. *)
ChartsGoOn ==
    \A c \in Clients \ Slow, t \in Tickers, n \in 0..MaxTicks-1 :
        (/\ stream[c] = "open" /\ Subscriptions(c, t) # {}
         /\ Idle(c, t) /\ screen[c][t].at = n /\ made[t] < MaxTicks)
            ~> (screen[c][t].at > n \/ stream[c] = "ended" \/ down)

(* "emits periodic `price_chart_tick` snapshots" (README.md:113): every    *)
(* ticker makes its ticks.                                                 *)
EmitsPeriodicSnapshots == \A t \in Tickers : <>(made[t] = MaxTicks)
=============================================================================
