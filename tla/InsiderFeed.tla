------------------------------ MODULE InsiderFeed ------------------------------
(***************************************************************************)
(* Insider previews of random market events: internal/marketevents (plans, *)
(* registers and fires the events), internal/intel (remembers who paid and *)
(* sends the previews) and the mutex of internal/gameplay, which both a    *)
(* purchase and a delivery need.                                           *)
(*                                                                         *)
(* An event is planned interval ahead and its preview is due Lead before   *)
(* it.  While one event is fired the next is registered already.  Players  *)
(* buy through ExecuteAction, which holds gameplay.Engine.mu to its end;   *)
(* NotifyPlayer takes the same mutex to deliver a preview.                 *)
(*                                                                         *)
(* Time is a clock that advances only when no goroutine can go on: they    *)
(* need microseconds, and the clock counts seconds.                        *)
(***************************************************************************)
EXTENDS Integers, FiniteSets

CONSTANTS Players,
          Intervals,   \* what is configured as the time from planning an event to firing it
          Lead,        \* how long before the event its preview is due
          LateBuyers,  \* whether players buy between a preview and its event: yes, no or both
          MaxEvents,   \* bound: events planned
          MaxPaid      \* bound: previews a player pays for

ASSUME PlayersAssumption == "free" \notin Players
ASSUME TimesAssumption  == Intervals \subseteq Nat \ {0} /\ Lead \in Nat \ {0}
ASSUME BuyersAssumption == LateBuyers \subseteq BOOLEAN
ASSUME BoundsAssumption == MaxEvents \in Nat \ {0} /\ MaxPaid \in Nat

Events == 1..MaxEvents

NoEvent  == [id |-> 0, at |-> 0]
NoBuyers == [id |-> 0, at |-> 0, buyers |-> {}, sent |-> FALSE]

VARIABLES interval,    \* marketevents.Config.Interval, fixed when the process starts
          lateBuyers,  \* one of LateBuyers, fixed as well
          now,
          \* marketevents.Engine
          planned,     \* the event to fire next
          firing,      \* id of the event the current step fires, or 0
          step,        \* where the current step is
          published,   \* ids of the events fired
          \* intel.Engine
          nextRandomEvent,
          pendingInsiderBuyers,
          timers,      \* stage of the goroutine waiting for an event's preview
          mail,        \* players whose preview of an event is being dispatched
          \* gameplay.Engine
          mu,          \* "free" or the player whose call holds the mutex
          call,        \* stage of each player's intel.buy call
          awaited,     \* id of the event whose preview the call delivers itself, or 0
          \* history
          paid,        \* previews each player has paid for
          armed,       \* <<player, event>>: who is to see which preview
          previews     \* <<player, event>>: who has seen it

config     == <<interval, lateBuyers>>
marketVars == <<planned, firing, step, published>>
intelVars  == <<nextRandomEvent, pendingInsiderBuyers, timers, mail>>
engineVars == <<mu, call, awaited>>
history    == <<paid, armed, previews>>
vars == <<config, now, marketVars, intelVars, engineVars, history>>

----------------------------------------------------------------------------

Init ==
    /\ interval \in Intervals
    /\ lateBuyers \in LateBuyers
    /\ now = 0
    /\ planned = NoEvent /\ firing = 0 /\ step = "idle" /\ published = {}
    /\ nextRandomEvent = NoBuyers
    /\ pendingInsiderBuyers = {}
    /\ timers = [e \in Events |-> "none"]
    /\ mail = [e \in Events |-> {}]
    /\ mu = "free"
    /\ call = [p \in Players |-> "none"]
    /\ awaited = [p \in Players |-> 0]
    /\ paid = [p \in Players |-> 0]
    /\ armed = {} /\ previews = {}

----------------------------------------------------------------------------
(* Previews                                                                *)

PreviewAtEvent(event) == event.at   \* fault: no lead time

PreviewAt(event) == event.at - Lead

(* prepareScheduledPreview finds something to do for event e.              *)
PreviewDue(e) ==
    /\ nextRandomEvent.id = e
    /\ ~nextRandomEvent.sent
    /\ now >= PreviewAt(nextRandomEvent)

(* It marks the preview sent, and dispatches it to those who paid.         *)
Prepare(e) ==
    IF PreviewDue(e)
    THEN /\ nextRandomEvent' = [nextRandomEvent EXCEPT !.sent = TRUE]
         /\ mail' = [mail EXCEPT ![e] = mail[e] \cup nextRandomEvent.buyers]
    ELSE UNCHANGED <<nextRandomEvent, mail>>

(* NotifyPlayer: needs the engine's mutex, whoever calls it.               *)
NotifyPlayer(e, p) ==
    /\ p \in mail[e]
    /\ mu = "free"
    /\ mail' = [mail EXCEPT ![e] = mail[e] \ {p}]
    /\ previews' = previews \cup {<<p, e>>}
    /\ UNCHANGED <<config, now, marketVars, nextRandomEvent, pendingInsiderBuyers, timers,
                   engineVars, paid, armed>>

----------------------------------------------------------------------------
(* marketevents.Engine.step                                                *)

Due == planned.id = 0 \/ now >= planned.at

(* Under the lock: take the event that is due and plan the next one.       *)
Poll ==
    /\ step = "idle"
    /\ Due
    /\ planned.id < MaxEvents
    /\ firing' = planned.id
    /\ planned' = [id |-> planned.id + 1, at |-> now + interval]
    /\ step' = "register"
    /\ UNCHANGED <<config, now, published, intelVars, engineVars, history>>

NobodyCarriedOver == {}   \* fault: the pending buyers are dropped

CarriedOver == pendingInsiderBuyers

(* ScheduleNextRandomEvent: the new event replaces the old one.            *)
Register ==
    /\ step = "register"
    /\ nextRandomEvent' = [id |-> planned.id, at |-> planned.at,
                           buyers |-> CarriedOver, sent |-> FALSE]
    /\ pendingInsiderBuyers' = {}
    /\ armed' = armed \cup (CarriedOver \X {planned.id})
    /\ step' = "prepare"
    /\ UNCHANGED <<config, now, planned, firing, published, timers, mail, engineVars, paid, previews>>

SpawnNone(e) == timers   \* fault: no goroutine waits for the preview

Spawn(e) == [timers EXCEPT ![e] = "start"]

(* maybeDispatchScheduledPreview: a preview that is due already is         *)
(* dispatched by this step; otherwise a goroutine is to do it.             *)
RegisterPreview ==
    /\ step = "prepare"
    /\ Prepare(planned.id)
    /\ IF PreviewDue(planned.id) /\ nextRandomEvent.buyers # {}
       THEN step' = "dispatch" /\ UNCHANGED timers
       ELSE step' = "fire" /\ timers' = Spawn(planned.id)
    /\ UNCHANGED <<config, now, planned, firing, published, pendingInsiderBuyers, engineVars, history>>

Dispatched ==
    /\ step = "dispatch"
    /\ mail[planned.id] = {}
    /\ step' = "fire"
    /\ UNCHANGED <<config, now, planned, firing, published, intelVars, engineVars, history>>

FiresAny == {firing}   \* fault: the first step fires although nothing was due

Fires == {firing} \ {0}

(* fire: the event reaches the market and everybody sees it.               *)
Fire ==
    /\ step = "fire"
    /\ published' = published \cup Fires
    /\ step' = "idle"
    /\ UNCHANGED <<config, now, planned, firing, intelVars, engineVars, history>>

----------------------------------------------------------------------------
(* The goroutine waiting for the preview of e                              *)

(* It looks up when the preview is due; if the event is no longer the next *)
(* one it ends.                                                            *)
TimerStart(e) ==
    /\ timers[e] = "start"
    /\ timers' = [timers EXCEPT ![e] = IF nextRandomEvent.id = e THEN "waiting" ELSE "none"]
    /\ UNCHANGED <<config, now, marketVars, nextRandomEvent, pendingInsiderBuyers, mail, engineVars, history>>

(* Events are planned one after the other, so event e, as long as it was   *)
(* registered, has the time the timer was set to.                          *)
TimerReady(e) == timers[e] = "waiting" /\ (nextRandomEvent.id # e \/ now >= PreviewAt(nextRandomEvent))

TimerFires(e) ==
    /\ TimerReady(e)
    /\ Prepare(e)
    /\ timers' = [timers EXCEPT ![e] = "none"]
    /\ UNCHANGED <<config, now, marketVars, pendingInsiderBuyers, engineVars, history>>

----------------------------------------------------------------------------
(* intel.buy of a player: gameplay.handleIntelBuy and intel.Engine.Buy     *)

Late == nextRandomEvent.id # 0 /\ PreviewAt(nextRandomEvent) <= now /\ now < nextRandomEvent.at

(* ExecuteAction locks the engine; the price is debited.                   *)
BuyStart(p) ==
    /\ mu = "free"
    /\ call[p] = "none"
    /\ paid[p] < MaxPaid
    /\ Late => lateBuyers
    /\ mu' = p
    /\ call' = [call EXCEPT ![p] = "buying"]
    /\ UNCHANGED <<config, now, marketVars, intelVars, awaited, history>>

(* An event whose time has come is no longer the next one.                 *)
Current == IF now >= nextRandomEvent.at THEN NoBuyers ELSE nextRandomEvent

Returning(p, e) == /\ call' = [call EXCEPT ![p] = "returning"]
                   /\ awaited' = [awaited EXCEPT ![p] = e]

(* buyInsiderLocked, already bought: the price is paid back.               *)
BuyRefused(p) ==
    /\ call[p] = "buying"
    /\ p \in IF Current.id = 0 THEN pendingInsiderBuyers ELSE Current.buyers
    /\ nextRandomEvent' = Current
    /\ Returning(p, 0)
    /\ UNCHANGED <<config, now, marketVars, pendingInsiderBuyers, timers, mail, mu, history>>

(* No event is registered: the purchase is for the next one.               *)
BuyPending(p) ==
    /\ call[p] = "buying"
    /\ Current.id = 0
    /\ p \notin pendingInsiderBuyers
    /\ nextRandomEvent' = Current
    /\ pendingInsiderBuyers' = pendingInsiderBuyers \cup {p}
    /\ paid' = [paid EXCEPT ![p] = paid[p] + 1]
    /\ Returning(p, 0)
    /\ UNCHANGED <<config, now, marketVars, timers, mail, mu, armed, previews>>

(* The purchase is for the registered event.  If its preview is past, the  *)
(* call delivers it itself, still holding the mutex.                       *)
BuyArmed(p) ==
    LET late == PreviewAt(Current) <= now
        e    == Current.id
    IN  /\ call[p] = "buying"
        /\ e # 0
        /\ p \notin Current.buyers
        /\ nextRandomEvent' = [Current EXCEPT !.buyers = Current.buyers \cup {p}]
        /\ paid' = [paid EXCEPT ![p] = paid[p] + 1]
        /\ armed' = armed \cup {<<p, e>>}
        /\ mail' = IF late THEN [mail EXCEPT ![e] = mail[e] \cup {p}] ELSE mail
        /\ Returning(p, IF late THEN e ELSE 0)
        /\ UNCHANGED <<config, now, marketVars, pendingInsiderBuyers, timers, mu, previews>>

CanReturn(p) ==
    /\ call[p] = "returning"
    /\ awaited[p] # 0 => p \notin mail[awaited[p]]

Return(p) ==
    /\ CanReturn(p)
    /\ mu' = "free"
    /\ call' = [call EXCEPT ![p] = "none"]
    /\ awaited' = [awaited EXCEPT ![p] = 0]
    /\ UNCHANGED <<config, now, marketVars, intelVars, history>>

----------------------------------------------------------------------------
(* Time                                                                    *)

Busy ==
    \/ step \in {"register", "prepare", "fire"}
    \/ step = "dispatch" /\ mail[planned.id] = {}
    \/ \E e \in Events : timers[e] = "start" \/ TimerReady(e) \/ (mu = "free" /\ mail[e] # {})
    \/ \E p \in Players : call[p] = "buying" \/ CanReturn(p)

Tick ==
    /\ ~Busy
    /\ now < planned.at
    /\ now' = now + 1
    /\ UNCHANGED <<config, marketVars, intelVars, engineVars, history>>

----------------------------------------------------------------------------

Buying(p) == BuyRefused(p) \/ BuyPending(p) \/ BuyArmed(p)
MarketStep == Poll \/ Register \/ RegisterPreview \/ Dispatched \/ Fire

Next ==
    \/ MarketStep
    \/ \E e \in Events : TimerStart(e) \/ TimerFires(e)
    \/ \E e \in Events, p \in Players : NotifyPlayer(e, p)
    \/ \E p \in Players : BuyStart(p) \/ Buying(p) \/ Return(p)
    \/ Tick

Spec == Init /\ [][Next]_vars

(* Goroutines run; a goroutine waiting for the mutex gets it in the end    *)
(* (sync.Mutex does not starve); time passes whatever the players do.      *)
Fairness ==
    /\ WF_vars(MarketStep)
    /\ WF_vars(\E e \in Events : TimerStart(e) \/ TimerFires(e))
    /\ \A p \in Players : SF_vars(\E e \in Events : NotifyPlayer(e, p))
    /\ \A p \in Players : WF_vars(Buying(p)) /\ WF_vars(Return(p))
    /\ SF_vars(Tick)

FairSpec == Spec /\ Fairness

----------------------------------------------------------------------------
(* Properties                                                              *)

(* Every variable has its type, and the mutex is held exactly while a call *)
(* is under way.                                                           *)
TypeOK ==
    /\ interval \in Intervals /\ lateBuyers \in LateBuyers /\ now \in Nat
    /\ planned \in [id : 0..MaxEvents, at : Nat]
    /\ firing \in 0..MaxEvents
    /\ step \in {"idle", "register", "prepare", "dispatch", "fire"}
    /\ published \subseteq Events
    /\ nextRandomEvent \in [id : 0..MaxEvents, at : Nat, buyers : SUBSET Players, sent : BOOLEAN]
    /\ pendingInsiderBuyers \subseteq Players
    /\ timers \in [Events -> {"none", "start", "waiting"}]
    /\ mail \in [Events -> SUBSET Players]
    /\ mu \in Players \cup {"free"}
    /\ call \in [Players -> {"none", "buying", "returning"}]
    /\ awaited \in [Players -> 0..MaxEvents]
    /\ paid \in [Players -> Nat]
    /\ armed \subseteq Players \X Events
    /\ previews \subseteq armed
    /\ \A p \in Players : call[p] # "none" <=> mu = p

(* No purchase is forgotten: every preview a player has paid for was seen, *)
(* is being dispatched, or is remembered for the registered event or the   *)
(* one after it, also when events replace each other under the purchases.  *)
PurchasesHonoured ==
    \A p \in Players :
        LET seen       == {e \in Events : <<p, e>> \in previews}
            dispatched == {e \in Events : p \in mail[e]}
            registered == {e \in Events : e = nextRandomEvent.id /\ p \in nextRandomEvent.buyers
                                          /\ ~nextRandomEvent.sent}
            pending    == {e \in {MaxEvents + 1} : p \in pendingInsiderBuyers}
        IN  paid[p] <= Cardinality(seen \cup dispatched \cup registered \cup pending)

(* "sends private insider previews before public market publication"       *)
(* (README.md of the repository): when an event is fired, everybody who    *)
(* paid for its preview has seen it.                                       *)
PreviewBeforePublication ==
    \A preview \in armed : preview[2] \in published => preview \in previews

(* No preview is due before its event is registered, nor bought after it   *)
(* was due: no call delivers one itself.                                   *)
InTime == ~lateBuyers /\ interval > Lead

(* ... and that does hold as long as purchases come in time.               *)
EarlyBuyersPreviewed == InTime => PreviewBeforePublication

(* Who is registered for the preview of an event gets to see it, however   *)
(* other purchases, deliveries and events compete for the mutexes.         *)
EveryBuyerIsServed ==
    \A p \in Players, e \in Events : InTime /\ <<p, e>> \in armed ~> <<p, e>> \in previews
=============================================================================
