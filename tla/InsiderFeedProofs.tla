-------------------------- MODULE InsiderFeedProofs --------------------------
(***************************************************************************)
(* Proofs about InsiderFeed, for any players, any lead and intervals, any  *)
(* number of events and of purchases, early or late.                       *)
(***************************************************************************)
EXTENDS InsiderFeed, FiniteSetTheorems, TLAPS

nre == nextRandomEvent

NextEvent == [id : 0..MaxEvents, at : Nat, buyers : SUBSET Players, sent : BOOLEAN]

(* Events and time.  Between Poll and Register the event registered is the *)
(* one that is fired, and its time has come; otherwise it is the planned   *)
(* one.  An event whose preview is not sent is still to come, and somebody *)
(* will send it: the current step or a goroutine.                          *)
Order ==
    /\ step # "idle" => planned.id # 0
    /\ step = "register" => planned.at > now
    /\ nre.id # 0 => IF step = "register" THEN nre.id < planned.id /\ now >= nre.at
                     ELSE nre.id = planned.id /\ nre.at = planned.at
    /\ nre.id # 0 /\ ~nre.sent => now < nre.at /\ (step = "prepare" \/ timers[nre.id] # "none")
    /\ nre.sent => now >= PreviewAt(nre)

(* Who is to see the preview of which event: an event not registered yet   *)
(* has nobody, the registered one has its buyers.                          *)
Arms ==
    /\ \A p \in Players, e \in Events : <<p, e>> \in armed =>
          /\ e <= planned.id /\ (step = "register" => e # planned.id)
          /\ e = nre.id => p \in nre.buyers
    /\ \A p \in nre.buyers : nre.id # 0 /\ <<p, nre.id>> \in armed
    /\ \A e \in Events : \A p \in mail[e] : <<p, e>> \in armed

(* A paid preview stands with event x, or with none yet (MaxEvents + 1).   *)
Stands(p, x) ==
    \/ x \in Events /\ (<<p, x>> \in previews \/ p \in mail[x] \/ (x = nre.id /\ p \in nre.buyers /\ ~nre.sent))
    \/ x = MaxEvents + 1 /\ p \in pendingInsiderBuyers

Standing(p) == {x \in 1..(MaxEvents + 1) : Stands(p, x)}

Honours == \A p \in Players : paid[p] <= Cardinality(Standing(p))

IInv == TypeOK /\ Order /\ Arms /\ Honours

----------------------------------------------------------------------------
(* Types                                                                   *)

LEMMA Constants ==
    /\ MaxEvents \in Nat \ {0} /\ Lead \in Nat \ {0} /\ "free" \notin Players
    /\ Events = 1..MaxEvents /\ MaxEvents + 1 \notin Events
    /\ \A i \in Intervals : i \in Nat \ {0}
  BY PlayersAssumption, TimesAssumption, BoundsAssumption DEF Events

(* What Prepare may do to the registered event and to the mail.            *)
LEMMA PrepareEffect ==
    ASSUME TypeOK, NEW e \in Events, Prepare(e)
    PROVE  /\ nre' \in NextEvent /\ mail' \in [Events -> SUBSET Players]
           /\ nre'.id = nre.id /\ nre'.at = nre.at /\ nre'.buyers = nre.buyers
           /\ nre'.sent <=> nre.sent \/ PreviewDue(e)
           /\ \A f \in Events : mail'[f] = IF f = e /\ PreviewDue(e) THEN mail[f] \cup nre.buyers ELSE mail[f]
  <1>1. nre \in NextEvent /\ mail \in [Events -> SUBSET Players] /\ nre.sent \in BOOLEAN
    BY DEF TypeOK, nre, NextEvent
  <1>2. CASE PreviewDue(e)
    BY <1>1, <1>2 DEF Prepare, nre, NextEvent
  <1>3. CASE ~PreviewDue(e)
    BY <1>1, <1>3 DEF Prepare, nre, NextEvent
  <1> QED
    BY <1>2, <1>3

LEMMA CurrentType ==
    ASSUME TypeOK
    PROVE  Current \in NextEvent /\ (Current = nre \/ (Current = NoBuyers /\ now >= nre.at))
  <1>1. NoBuyers \in NextEvent
    BY Constants DEF NoBuyers, NextEvent
  <1>2. nre \in NextEvent
    BY DEF TypeOK, nre, NextEvent
  <1>3. CASE now >= nre.at
    BY <1>1, <1>3 DEF Current, nre
  <1>4. CASE ~(now >= nre.at)
    <2>1. Current = nre
      BY <1>4 DEF Current, nre
    <2> QED
      BY <1>2, <2>1
  <1> QED
    BY <1>3, <1>4

LEMMA NextTypes == TypeOK /\ Order /\ Arms /\ [Next]_vars => TypeOK'
  <1> SUFFICES ASSUME TypeOK, Order, Arms, [Next]_vars PROVE TypeOK'
    OBVIOUS
  <1> USE Constants
  <1> USE DEF config, marketVars, intelVars, engineVars, history
  <1>1. CASE Poll
    <2>1. now + interval \in Nat /\ planned.id + 1 \in 0..MaxEvents
      BY <1>1 DEF Poll, TypeOK
    <2> QED
      BY <1>1, <2>1 DEF Poll, TypeOK
  <1>2. CASE Register
    <2>1. planned.id \in 0..MaxEvents /\ planned.at \in Nat /\ pendingInsiderBuyers \subseteq Players
      BY DEF TypeOK
    <2>2. nextRandomEvent' \in NextEvent
      BY <1>2, <2>1 DEF Register, CarriedOver, NextEvent
    <2>3. planned.id \in Events
      BY <1>2, <2>1 DEF Register, Order
    <2>4. armed' \subseteq Players \X Events /\ previews' \subseteq armed'
      BY <1>2, <2>1, <2>3 DEF Register, CarriedOver, TypeOK
    <2> QED
      BY <1>2, <2>2, <2>4 DEF Register, TypeOK, NextEvent
  <1>3. CASE RegisterPreview
    <2>1. planned.id \in Events
      BY <1>3 DEF RegisterPreview, Order, TypeOK
    <2>2. nre' \in NextEvent /\ mail' \in [Events -> SUBSET Players]
      BY <1>3, <2>1, PrepareEffect DEF RegisterPreview
    <2>3. timers' \in [Events -> {"none", "start", "waiting"}] /\ step' \in {"dispatch", "fire"}
      BY <1>3 DEF RegisterPreview, Spawn, TypeOK
    <2> QED
      BY <1>3, <2>2, <2>3 DEF RegisterPreview, TypeOK, nre, NextEvent
  <1>4. CASE Dispatched
    BY <1>4 DEF Dispatched, TypeOK
  <1>5. CASE Fire
    <2>1. Fires \subseteq Events
      BY DEF Fires, TypeOK
    <2> QED
      BY <1>5, <2>1 DEF Fire, TypeOK
  <1>6. ASSUME NEW e \in Events, TimerStart(e) PROVE TypeOK'
    BY <1>6 DEF TimerStart, TypeOK
  <1>7. ASSUME NEW e \in Events, TimerFires(e) PROVE TypeOK'
    <2>1. nre' \in NextEvent /\ mail' \in [Events -> SUBSET Players]
      BY <1>7, PrepareEffect DEF TimerFires
    <2> QED
      BY <1>7, <2>1 DEF TimerFires, TypeOK, nre, NextEvent
  <1>8. ASSUME NEW e \in Events, NEW p \in Players, NotifyPlayer(e, p) PROVE TypeOK'
    <2>1. <<p, e>> \in armed
      BY <1>8 DEF NotifyPlayer, Arms
    <2>2. mail' \in [Events -> SUBSET Players]
      BY <1>8 DEF NotifyPlayer, TypeOK
    <2>3. previews' \subseteq armed'
      <3>1. previews' = previews \cup {<<p, e>>} /\ armed' = armed
        BY <1>8 DEF NotifyPlayer
      <3>2. previews \subseteq armed
        BY DEF TypeOK
      <3> QED
        BY <2>1, <3>1, <3>2
    <2> QED
      BY <1>8, <2>2, <2>3 DEF NotifyPlayer, TypeOK
  <1>9. ASSUME NEW p \in Players, BuyStart(p) PROVE TypeOK'
    BY <1>9 DEF BuyStart, TypeOK
  <1>10. ASSUME NEW p \in Players, BuyRefused(p) PROVE TypeOK'
    <2>1. nextRandomEvent' \in NextEvent
      BY <1>10, CurrentType DEF BuyRefused
    <2>2. mu = p
      BY <1>10 DEF BuyRefused, TypeOK
    <2> QED
      BY <1>10, <2>1, <2>2 DEF BuyRefused, Returning, TypeOK, NextEvent
  <1>11. ASSUME NEW p \in Players, BuyPending(p) PROVE TypeOK'
    <2>1. nextRandomEvent' \in NextEvent
      BY <1>11, CurrentType DEF BuyPending
    <2>2. mu = p
      BY <1>11 DEF BuyPending, TypeOK
    <2> QED
      BY <1>11, <2>1, <2>2 DEF BuyPending, Returning, TypeOK, NextEvent
  <1>12. ASSUME NEW p \in Players, BuyArmed(p) PROVE TypeOK'
    <2> DEFINE e == Current.id
    <2>1. /\ e \in Events /\ Current \in NextEvent
          /\ nextRandomEvent' \in NextEvent
      BY <1>12, CurrentType DEF BuyArmed, NextEvent
    <2>2. /\ mail' = [mail EXCEPT ![e] = mail[e] \cup {p}] \/ mail' = mail
          /\ armed' = armed \cup {<<p, e>>}
          /\ call' = [call EXCEPT ![p] = "returning"]
          /\ awaited' = [awaited EXCEPT ![p] = e] \/ awaited' = [awaited EXCEPT ![p] = 0]
          /\ paid' = [paid EXCEPT ![p] = paid[p] + 1]
          /\ UNCHANGED <<config, now, marketVars, pendingInsiderBuyers, timers, mu, previews>>
      BY <1>12 DEF BuyArmed, Returning
    <2> HIDE DEF e
    <2>3. mu = p
      BY <1>12 DEF BuyArmed, TypeOK
    <2>4. /\ mail \in [Events -> SUBSET Players]
          /\ armed \subseteq Players \X Events /\ previews \subseteq armed
          /\ awaited \in [Players -> 0..MaxEvents] /\ paid \in [Players -> Nat]
          /\ call \in [Players -> {"none", "buying", "returning"}]
          /\ \A q \in Players : call[q] # "none" <=> mu = q
      BY DEF TypeOK
    <2>5. mail' \in [Events -> SUBSET Players]
      BY <2>1, <2>2, <2>4
    <2>6. armed' \subseteq Players \X Events /\ previews' \subseteq armed'
      <3>1. <<p, e>> \in Players \X Events /\ previews' = previews
        BY <2>1, <2>2
      <3> QED
        BY <2>2, <2>4, <3>1
    <2>7. awaited' \in [Players -> 0..MaxEvents]
      <3>1. e \in 0..MaxEvents /\ 0 \in 0..MaxEvents
        BY <2>1, BoundsAssumption DEF Events
      <3> QED
        BY <2>2, <2>4, <3>1
    <2>8. paid' \in [Players -> Nat]
      BY <2>2, <2>4
    <2>9. /\ call' \in [Players -> {"none", "buying", "returning"}]
          /\ \A q \in Players : call'[q] # "none" <=> mu' = q
      <3>1. mu' = p
        BY <2>2, <2>3
      <3>2. \A q \in Players : q # p => call'[q] = call[q] /\ call[q] = "none"
        BY <2>2, <2>3, <2>4
      <3>3. call' \in [Players -> {"none", "buying", "returning"}] /\ call'[p] = "returning"
        BY <2>2, <2>4
      <3> QED
        BY <3>1, <3>2, <3>3
    <2>10. nextRandomEvent' \in [id : 0..MaxEvents, at : Nat, buyers : SUBSET Players, sent : BOOLEAN]
      BY <2>1 DEF NextEvent
    <2>11. UNCHANGED <<interval, lateBuyers, now, planned, firing, step, published,
                       pendingInsiderBuyers, timers, mu>>
      BY <2>2 DEF config, marketVars
    <2> QED
      BY <2>1, <2>5, <2>6, <2>7, <2>8, <2>9, <2>10, <2>11 DEF TypeOK
  <1>13. ASSUME NEW p \in Players, Return(p) PROVE TypeOK'
    <2>1. /\ call[p] = "returning" /\ mu' = "free"
          /\ call' = [call EXCEPT ![p] = "none"] /\ awaited' = [awaited EXCEPT ![p] = 0]
          /\ UNCHANGED <<interval, lateBuyers, now, planned, firing, step, published,
                         nextRandomEvent, pendingInsiderBuyers, timers, mail, history>>
      BY <1>13 DEF Return, CanReturn, config, marketVars, intelVars
    <2>2. call' \in [Players -> {"none", "buying", "returning"}]
      BY <2>1 DEF TypeOK
    <2>3. \A q \in Players : call'[q] = "none" /\ mu' # q
      BY <2>1, PlayersAssumption DEF TypeOK
    <2>4. awaited' \in [Players -> 0..MaxEvents]
      BY <2>1, BoundsAssumption DEF TypeOK
    <2> QED
      BY <2>1, <2>2, <2>3, <2>4 DEF TypeOK, history
  <1>14. CASE Tick
    BY <1>14 DEF Tick, TypeOK
  <1>15. CASE UNCHANGED vars
    BY <1>15 DEF vars, TypeOK
  <1> QED
    BY <1>1, <1>2, <1>3, <1>4, <1>5, <1>6, <1>7, <1>8, <1>9, <1>10, <1>11, <1>12, <1>13, <1>14, <1>15
       DEF Next, MarketStep, Buying

----------------------------------------------------------------------------
(* Events and time                                                         *)

(* Buying replaces an event whose time has come by none, or adds a buyer.  *)
LEMMA BuyEffect ==
    ASSUME TypeOK, NEW p \in Players, Buying(p)
    PROVE  /\ UNCHANGED <<now, planned, step, timers, previews>>
           /\ \/ nre' = NoBuyers /\ now >= nre.at
              \/ nre'.id = nre.id /\ nre'.at = nre.at /\ nre'.sent = nre.sent /\ nre'.buyers \in {nre.buyers, nre.buyers \cup {p}}
  <1>1. nre \in NextEvent /\ Current \in NextEvent
    BY CurrentType DEF TypeOK, nre, NextEvent
  <1>2. CASE BuyRefused(p) \/ BuyPending(p)
    BY <1>1, <1>2, CurrentType DEF BuyRefused, BuyPending, marketVars, history, nre
  <1>3. CASE BuyArmed(p)
    <2>1. Current.id # 0 /\ nre' = [Current EXCEPT !.buyers = Current.buyers \cup {p}]
      BY <1>3 DEF BuyArmed, nre
    <2>2. Current = nre
      BY <2>1, CurrentType DEF NoBuyers
    <2>3. nre'.id = nre.id /\ nre'.at = nre.at /\ nre'.sent = nre.sent /\ nre'.buyers = nre.buyers \cup {p}
      BY <1>1, <2>1, <2>2 DEF NextEvent
    <2>4. UNCHANGED <<now, planned, step, timers, previews>>
      BY <1>3 DEF BuyArmed, marketVars
    <2> QED
      BY <2>3, <2>4
  <1> QED
    BY <1>2, <1>3 DEF Buying

LEMMA NextOrder == TypeOK /\ Order /\ [Next]_vars => Order'
  <1> SUFFICES ASSUME TypeOK, Order, [Next]_vars PROVE Order'
    OBVIOUS
  <1> USE Constants
  <1> USE DEF config, marketVars, intelVars, engineVars, history
  <1>0. /\ nre \in NextEvent /\ nre.id \in Nat /\ nre.at \in Nat /\ nre.sent \in BOOLEAN
        /\ planned.id \in Nat /\ planned.at \in Nat /\ now \in Nat /\ interval \in Nat \ {0}
        /\ timers \in [Events -> {"none", "start", "waiting"}]
    BY DEF TypeOK, nre, NextEvent
  <1>1. CASE Poll
    <2>1. /\ planned'.id = planned.id + 1 /\ planned'.at = now + interval /\ step' = "register"
          /\ UNCHANGED <<now, nre, timers>>
      BY <1>1 DEF Poll, nre
    <2>2. nre.id # 0 => nre.id = planned.id /\ now >= nre.at
      BY <1>0, <1>1 DEF Poll, Due, Order
    <2> QED
      BY <1>0, <2>1, <2>2 DEF Order, PreviewAt
  <1>2. CASE Register
    <2>1. /\ nre' = [id |-> planned.id, at |-> planned.at, buyers |-> CarriedOver, sent |-> FALSE]
          /\ step = "register" /\ step' = "prepare" /\ UNCHANGED <<now, planned, timers>>
      BY <1>2 DEF Register, nre
    <2>2. nre'.id = planned.id /\ nre'.at = planned.at /\ nre'.sent = FALSE
      BY <2>1
    <2>3. planned.id # 0 /\ planned.at > now
      BY <2>1 DEF Order
    <2> QED
      BY <1>0, <2>1, <2>2, <2>3 DEF Order, PreviewAt
  <1>3. CASE RegisterPreview
    <2>1. /\ step = "prepare" /\ step' \in {"dispatch", "fire"} /\ UNCHANGED <<now, planned>>
          /\ Prepare(planned.id) /\ planned.id \in Events
      BY <1>0, <1>3 DEF RegisterPreview, Order, TypeOK
    <2>2. /\ nre'.id = nre.id /\ nre'.at = nre.at
          /\ nre'.sent <=> nre.sent \/ PreviewDue(planned.id)
      BY <2>1, PrepareEffect
    <2>3. ASSUME nre'.id # 0, ~nre'.sent PROVE timers'[nre'.id] # "none"
      <3>1. nre.id = planned.id /\ ~PreviewDue(planned.id)
        BY <2>1, <2>2, <2>3 DEF Order
      <3>2. timers' = Spawn(planned.id)
        BY <1>3, <3>1 DEF RegisterPreview
      <3> QED
        BY <1>0, <2>1, <2>2, <3>1, <3>2 DEF Spawn
    <2>4. nre'.sent => now >= PreviewAt(nre)
      BY <2>2 DEF Order, PreviewDue, nre
    <2> QED
      BY <2>1, <2>2, <2>3, <2>4 DEF Order, PreviewAt
  <1>4. CASE Dispatched \/ Fire
    BY <1>4 DEF Dispatched, Fire, Order, nre, PreviewAt
  <1>5. ASSUME NEW e \in Events, TimerStart(e) PROVE Order'
    <2>1. /\ timers' = [timers EXCEPT ![e] = IF nre.id = e THEN "waiting" ELSE "none"]
          /\ UNCHANGED <<now, planned, step, nre>>
      BY <1>5 DEF TimerStart, nre
    <2>2. nre.id # 0 => (timers[nre.id] # "none" => timers'[nre.id] # "none")
      BY <1>0, <2>1 DEF NextEvent
    <2> QED
      BY <2>1, <2>2 DEF Order, PreviewAt
  <1>6. ASSUME NEW e \in Events, TimerFires(e) PROVE Order'
    <2>1. /\ timers' = [timers EXCEPT ![e] = "none"] /\ UNCHANGED <<now, planned, step>>
          /\ Prepare(e) /\ TimerReady(e)
      BY <1>6 DEF TimerFires
    <2>2. /\ nre'.id = nre.id /\ nre'.at = nre.at
          /\ nre'.sent <=> nre.sent \/ PreviewDue(e)
      BY <2>1, PrepareEffect
    <2>3. nre.id = e => nre'.sent
      BY <2>1, <2>2 DEF TimerReady, PreviewDue, nre
    <2>4. nre.id # 0 /\ nre.id # e => timers'[nre.id] = timers[nre.id]
      BY <1>0, <2>1 DEF NextEvent
    <2>5. nre'.sent => now >= PreviewAt(nre)
      BY <2>2 DEF Order, PreviewDue, nre
    <2> QED
      BY <2>1, <2>2, <2>3, <2>4, <2>5 DEF Order, PreviewAt
  <1>7. ASSUME NEW e \in Events, NEW p \in Players, NotifyPlayer(e, p) PROVE Order'
    BY <1>7 DEF NotifyPlayer, Order, nre, PreviewAt
  <1>8. ASSUME NEW p \in Players, BuyStart(p) \/ Return(p) PROVE Order'
    BY <1>8 DEF BuyStart, Return, Order, nre, PreviewAt
  <1>9. ASSUME NEW p \in Players, Buying(p) PROVE Order'
    <2>1. CASE nre' = NoBuyers
      <3>1. nre'.id = 0 /\ nre'.sent = FALSE
        BY <2>1 DEF NoBuyers
      <3> QED
        BY <1>9, <3>1, BuyEffect DEF Order
    <2>2. CASE nre' # NoBuyers
      BY <1>9, <2>2, BuyEffect DEF Order, PreviewAt
    <2> QED
      BY <2>1, <2>2
  <1>10. CASE Tick
    <2>1. ~Busy /\ now' = now + 1 /\ UNCHANGED <<planned, step, timers, nre>>
      BY <1>10 DEF Tick, nre
    <2>2. step \notin {"register", "prepare"} /\ \A e \in Events : timers[e] # "start" /\ ~TimerReady(e)
      BY <2>1 DEF Busy
    <2>3. nre.id # 0 /\ ~nre.sent => now' < nre.at
      <3> SUFFICES ASSUME nre.id # 0, ~nre.sent PROVE now' < nre.at
        OBVIOUS
      <3>1. nre.id \in Events /\ timers[nre.id] # "none"
        BY <1>0, <2>2 DEF Order, NextEvent
      <3>2. timers[nre.id] = "waiting"
        BY <1>0, <2>2, <3>1
      <3>3. ~(now >= nre.at - Lead)
        BY <2>2, <3>1, <3>2 DEF TimerReady, PreviewAt, nre
      <3> QED
        BY <1>0, <2>1, <3>3
    <2>4. nre.sent => now' >= PreviewAt(nre)
      BY <1>0, <2>1 DEF Order, PreviewAt
    <2>5. step # "register" /\ step # "prepare"
      BY <2>2
    <2> QED
      BY <2>1, <2>3, <2>4, <2>5 DEF Order, PreviewAt
  <1>11. CASE UNCHANGED vars
    BY <1>11 DEF vars, Order, nre, PreviewAt
  <1> QED
    BY <1>1, <1>2, <1>3, <1>4, <1>5, <1>6, <1>7, <1>8, <1>9, <1>10, <1>11 DEF Next, MarketStep

----------------------------------------------------------------------------
(* Who is to see which preview                                             *)

LEMMA NextArms == TypeOK /\ Order /\ Arms /\ [Next]_vars => Arms'
  <1> SUFFICES ASSUME TypeOK, Order, Arms, [Next]_vars PROVE Arms'
    OBVIOUS
  <1> USE Constants
  <1> USE DEF config, marketVars, intelVars, engineVars, history
  <1>0. /\ nre \in NextEvent /\ nre.id \in Nat /\ nre.at \in Nat /\ nre.sent \in BOOLEAN
        /\ nre.buyers \subseteq Players /\ pendingInsiderBuyers \subseteq Players
        /\ planned.id \in Nat /\ mail \in [Events -> SUBSET Players]
        /\ nre.id # 0 => nre.id \in Events
    BY DEF TypeOK, nre, NextEvent
  <1>1. CASE Poll
    <2>1. /\ planned'.id = planned.id + 1 /\ UNCHANGED <<nre, armed, mail>>
      BY <1>1 DEF Poll, nre
    <2>2. \A p \in Players, e \in Events : <<p, e>> \in armed => e <= planned'.id /\ e # planned'.id
      BY <1>0, <2>1 DEF Arms
    <2> QED
      BY <2>1, <2>2 DEF Arms
  <1>2. CASE Register
    <2>1. /\ nre' = [id |-> planned.id, at |-> planned.at, buyers |-> CarriedOver, sent |-> FALSE]
          /\ step = "register" /\ step' = "prepare" /\ UNCHANGED <<planned, mail>>
          /\ armed' = armed \cup (pendingInsiderBuyers \X {planned.id})
      BY <1>2 DEF Register, nre, CarriedOver
    <2>2. nre'.id = planned.id /\ nre'.buyers = pendingInsiderBuyers /\ planned.id # 0
      BY <2>1 DEF CarriedOver, Order
    <2>3. ASSUME NEW p \in Players, NEW e \in Events, <<p, e>> \in armed'
          PROVE  e <= planned.id /\ (e = planned.id => p \in pendingInsiderBuyers)
      <3>1. CASE <<p, e>> \in armed
        BY <2>1, <3>1 DEF Arms
      <3>2. CASE <<p, e>> \notin armed
        BY <1>0, <2>1, <2>3, <3>2
      <3> QED
        BY <3>1, <3>2
    <2>4. \A p \in pendingInsiderBuyers : <<p, planned.id>> \in armed'
      BY <2>1
    <2>5. \A e \in Events : \A p \in mail'[e] : <<p, e>> \in armed'
      BY <2>1 DEF Arms
    <2> QED
      BY <2>1, <2>2, <2>3, <2>4, <2>5 DEF Arms
  <1>3. ASSUME NEW e \in Events, Prepare(e), UNCHANGED <<planned, armed>>,
             step' \in {step, "dispatch", "fire"}
        PROVE  Arms'
    <2>1. /\ nre'.id = nre.id /\ nre'.buyers = nre.buyers
          /\ \A f \in Events :
                mail'[f] = IF f = e /\ PreviewDue(e) THEN mail[f] \cup nre.buyers ELSE mail[f]
      BY <1>3, PrepareEffect
    <2>2. ASSUME NEW f \in Events, NEW p \in mail'[f] PROVE <<p, f>> \in armed'
      <3>1. CASE p \in mail[f]
        BY <1>3, <3>1 DEF Arms
      <3>2. CASE p \notin mail[f]
        <4>1. f = e /\ nre.id = e /\ p \in nre.buyers
          BY <2>1, <3>2 DEF PreviewDue, nre
        <4> QED
          BY <1>3, <4>1 DEF Arms
      <3> QED
        BY <3>1, <3>2
    <2> QED
      BY <1>3, <2>1, <2>2 DEF Arms
  <1>4. CASE RegisterPreview
    <2>1. Prepare(planned.id) /\ planned.id \in Events /\ UNCHANGED <<planned, armed>>
          /\ step' \in {"dispatch", "fire"}
      BY <1>0, <1>4 DEF RegisterPreview, Order, TypeOK
    <2> QED
      BY <1>3, <2>1
  <1>5. CASE Dispatched \/ Fire
    BY <1>5 DEF Dispatched, Fire, Arms, nre
  <1>6. ASSUME NEW e \in Events, TimerStart(e) PROVE Arms'
    BY <1>6 DEF TimerStart, Arms, nre
  <1>7. ASSUME NEW e \in Events, TimerFires(e) PROVE Arms'
    <2>1. Prepare(e) /\ UNCHANGED <<planned, armed, step>>
      BY <1>7 DEF TimerFires
    <2> QED
      BY <1>3, <2>1
  <1>8. ASSUME NEW e \in Events, NEW p \in Players, NotifyPlayer(e, p) PROVE Arms'
    <2>1. \A f \in Events : mail'[f] \subseteq mail[f]
      BY <1>0, <1>8 DEF NotifyPlayer
    <2> QED
      BY <1>8, <2>1 DEF NotifyPlayer, Arms, nre
  <1>9. ASSUME NEW p \in Players, BuyStart(p) \/ Return(p) PROVE Arms'
    BY <1>9 DEF BuyStart, Return, Arms, nre
  <1>10. ASSUME NEW p \in Players, BuyRefused(p) \/ BuyPending(p) PROVE Arms'
    <2>1. nre' \in {nre, NoBuyers} /\ UNCHANGED <<planned, step, armed, mail>>
      BY <1>10, CurrentType DEF BuyRefused, BuyPending, nre
    <2>2. NoBuyers.id = 0 /\ NoBuyers.buyers = {}
      BY DEF NoBuyers
    <2> QED
      BY <2>1, <2>2 DEF Arms
  <1>11. ASSUME NEW p \in Players, BuyArmed(p) PROVE Arms'
    <2>1. Current.id # 0
      BY <1>11 DEF BuyArmed
    <2>2. Current = nre
      BY <2>1, CurrentType DEF NoBuyers
    <2> DEFINE e == nre.id
    <2>3. /\ nre' = [nre EXCEPT !.buyers = nre.buyers \cup {p}] /\ armed' = armed \cup {<<p, e>>}
          /\ mail' = mail \/ mail' = [mail EXCEPT ![e] = mail[e] \cup {p}]
          /\ UNCHANGED <<planned, step>>
      BY <1>11, <2>2 DEF BuyArmed, nre
    <2>4. e \in Events /\ nre'.id = e /\ nre'.buyers = nre.buyers \cup {p}
      BY <1>0, <2>1, <2>2, <2>3 DEF NextEvent
    <2>5. e <= planned.id /\ (step = "register" => e # planned.id)
      BY <1>0, <2>4 DEF Order
    <2> HIDE DEF e
    <2>6. ASSUME NEW q \in Players, NEW f \in Events, <<q, f>> \in armed'
          PROVE  /\ f <= planned.id /\ (step = "register" => f # planned.id)
                 /\ f = e => q \in nre.buyers \cup {p}
      <3>1. CASE <<q, f>> \in armed
        BY <3>1 DEF Arms, e
      <3>2. CASE q = p /\ f = e
        BY <2>5, <3>2
      <3> QED
        BY <2>3, <2>6, <3>1, <3>2
    <2>7. ASSUME NEW f \in Events, NEW q \in mail'[f] PROVE <<q, f>> \in armed'
      <3>1. q \in mail[f] \/ (q = p /\ f = e)
        BY <1>0, <2>3, <2>4, <2>7
      <3> QED
        BY <2>3, <3>1 DEF Arms
    <2>8. \A q \in nre'.buyers : nre'.id # 0 /\ <<q, nre'.id>> \in armed'
      BY <2>1, <2>2, <2>3, <2>4 DEF Arms, e
    <2> QED
      BY <2>3, <2>4, <2>6, <2>7, <2>8 DEF Arms
  <1>12. CASE Tick
    BY <1>12 DEF Tick, Arms, nre
  <1>13. CASE UNCHANGED vars
    BY <1>13 DEF vars, Arms, nre
  <1> QED
    BY <1>1, <1>2, <1>4, <1>5, <1>6, <1>7, <1>8, <1>9, <1>10, <1>11, <1>12, <1>13
       DEF Next, MarketStep, Buying

----------------------------------------------------------------------------
(* Every paid preview stands somewhere                                     *)

Slots == 1..(MaxEvents + 1)

LEMMA CountGrows ==
    ASSUME NEW S, NEW T \in SUBSET Slots, S \subseteq T, NEW n \in Nat, n <= Cardinality(S)
    PROVE  n <= Cardinality(T)
  <1>1. IsFiniteSet(Slots)
    BY Constants, FS_Interval DEF Slots
  <1>2. IsFiniteSet(T) /\ IsFiniteSet(S)
    BY <1>1, FS_Subset
  <1>3. Cardinality(S) <= Cardinality(T) /\ Cardinality(S) \in Nat /\ Cardinality(T) \in Nat
    BY <1>2, FS_Subset, FS_CardinalityType
  <1> QED
    BY <1>3

LEMMA CountAdds ==
    ASSUME NEW S, NEW T \in SUBSET Slots, NEW x \in T, x \notin S, S \subseteq T,
           NEW n \in Nat, n <= Cardinality(S)
    PROVE  n + 1 <= Cardinality(T)
  <1>1. IsFiniteSet(Slots)
    BY Constants, FS_Interval DEF Slots
  <1>2. IsFiniteSet(S)
    BY <1>1, FS_Subset
  <1>3. Cardinality(S \cup {x}) = Cardinality(S) + 1 /\ Cardinality(S) \in Nat
    BY <1>2, FS_AddElement, FS_CardinalityType
  <1>4. n + 1 <= Cardinality(S \cup {x})
    BY <1>3
  <1>5. S \cup {x} \subseteq T
    OBVIOUS
  <1> QED
    BY <1>4, <1>5, CountGrows

LEMMA CountMoves ==
    ASSUME NEW S \in SUBSET Slots, NEW T \in SUBSET Slots, NEW x \in T, x \notin S, NEW y \in S,
           S \ {y} \subseteq T, NEW n \in Nat, n <= Cardinality(S)
    PROVE  n <= Cardinality(T)
  <1>0. IsFiniteSet(Slots)
    BY Constants, FS_Interval DEF Slots
  <1>1. IsFiniteSet(S) /\ IsFiniteSet(T)
    BY <1>0, FS_Subset
  <1>2. Cardinality(S \ {y}) = Cardinality(S) - 1 /\ Cardinality(S) \in Nat
    BY <1>1, FS_RemoveElement, FS_CardinalityType
  <1>3. CASE n = 0
    BY <1>1, <1>3, FS_CardinalityType
  <1>4. CASE n # 0
    <2>1. n - 1 \in Nat /\ n - 1 <= Cardinality(S \ {y})
      BY <1>2, <1>4
    <2>2. (n - 1) + 1 <= Cardinality(T)
      BY <2>1, CountAdds
    <2> QED
      BY <2>2
  <1> QED
    BY <1>3, <1>4

(* A step without a purchase that lets previews stand keeps them honoured. *)
LEMMA StillHonoured ==
    ASSUME Honours, paid \in [Players -> Nat], UNCHANGED paid,
           \A p \in Players, x \in Slots : Stands(p, x) => Stands(p, x)'
    PROVE  Honours'
  <1> SUFFICES ASSUME NEW p \in Players PROVE paid'[p] <= Cardinality(Standing(p)')
    BY DEF Honours
  <1>1. Standing(p) \subseteq Standing(p)' /\ Standing(p)' \in SUBSET Slots
    BY DEF Standing, Slots
  <1>2. paid'[p] \in Nat /\ paid'[p] <= Cardinality(Standing(p))
    BY DEF Honours
  <1> QED
    BY <1>1, <1>2, CountGrows

LEMMA NextHonours == TypeOK /\ Order /\ Arms /\ Honours /\ [Next]_vars => Honours'
  <1> SUFFICES ASSUME TypeOK, Order, Arms, Honours, [Next]_vars PROVE Honours'
    OBVIOUS
  <1> USE Constants
  <1> USE DEF config, marketVars, intelVars, engineVars, history
  <1>0. /\ nre \in NextEvent /\ nre.id \in Nat /\ nre.at \in Nat /\ nre.sent \in BOOLEAN
        /\ nre.buyers \subseteq Players /\ pendingInsiderBuyers \subseteq Players
        /\ planned.id \in Nat /\ mail \in [Events -> SUBSET Players] /\ now \in Nat
        /\ nre.id # 0 => nre.id \in Events
        /\ paid \in [Players -> Nat] /\ previews \subseteq armed
    BY DEF TypeOK, nre, NextEvent
  <1>1. CASE Poll \/ Dispatched \/ Fire
    <2>1. UNCHANGED <<paid, nre, mail, previews, pendingInsiderBuyers>>
      BY <1>1 DEF Poll, Dispatched, Fire, nre
    <2> QED
      BY <1>0, <2>1, StillHonoured DEF Stands
  <1>2. CASE Register
    <2>1. /\ nre' = [id |-> planned.id, at |-> planned.at, buyers |-> CarriedOver, sent |-> FALSE]
          /\ step = "register" /\ pendingInsiderBuyers' = {} /\ UNCHANGED <<mail, paid, previews>>
      BY <1>2 DEF Register, nre
    <2>2. /\ nre'.id = planned.id /\ nre'.buyers = pendingInsiderBuyers /\ nre'.sent = FALSE
          /\ planned.id \in Events
      BY <1>0, <2>1 DEF CarriedOver, Order, TypeOK
    <2>3. nre.id # 0 => nre.sent
      BY <1>0, <2>1 DEF Order
    <2>4. nre.id # planned.id
      BY <1>0, <2>1, <2>2 DEF Order
    <2>5. ASSUME NEW p \in Players PROVE paid'[p] <= Cardinality(Standing(p)')
      <3>1. \A x \in Events : Stands(p, x) => Stands(p, x)'
        BY <2>1, <2>3 DEF Stands, Arms
      <3>2. paid'[p] \in Nat /\ paid'[p] <= Cardinality(Standing(p))
        BY <1>0, <2>1 DEF Honours
      <3>3. Slots = Events \cup {MaxEvents + 1}
        BY DEF Slots
      <3>4. Standing(p) \in SUBSET Slots /\ Standing(p)' \in SUBSET Slots
        BY DEF Standing, Slots
      <3>5. Standing(p) \ {MaxEvents + 1} \subseteq Standing(p)'
        BY <3>1, <3>3 DEF Standing, Slots
      <3>6. CASE p \notin pendingInsiderBuyers
        <4>1. MaxEvents + 1 \notin Standing(p)
          BY <3>6 DEF Standing, Stands
        <4>2. Standing(p) \subseteq Standing(p)'
          BY <3>5, <4>1
        <4> QED
          BY <3>2, <3>4, <4>2, CountGrows
      <3>7. CASE p \in pendingInsiderBuyers
        <4>1. MaxEvents + 1 \in Standing(p)
          BY <3>7 DEF Standing, Stands
        <4>2. planned.id \notin Standing(p)
          <5>1. <<p, planned.id>> \notin armed
            BY <2>1, <2>2 DEF Arms
          <5> QED
            BY <1>0, <2>2, <2>4, <5>1 DEF Standing, Stands, Arms
        <4>3. planned.id \in Standing(p)'
          BY <2>2, <3>3, <3>7 DEF Standing, Stands, Slots
        <4> QED
          BY <3>2, <3>4, <3>5, <4>1, <4>2, <4>3, CountMoves
      <3> QED
        BY <3>6, <3>7
    <2> QED
      BY <2>5 DEF Honours
  <1>3. ASSUME NEW e \in Events, Prepare(e), UNCHANGED <<paid, previews, pendingInsiderBuyers>>
        PROVE  Honours'
    <2>1. /\ nre'.id = nre.id /\ nre'.buyers = nre.buyers
          /\ nre'.sent <=> nre.sent \/ PreviewDue(e)
          /\ \A f \in Events :
                mail'[f] = IF f = e /\ PreviewDue(e) THEN mail[f] \cup nre.buyers ELSE mail[f]
      BY <1>3, PrepareEffect
    <2>2. PreviewDue(e) => nre.id = e
      BY DEF PreviewDue, nre
    <2>3. \A p \in Players, x \in Slots : Stands(p, x) => Stands(p, x)'
      BY <1>3, <2>1, <2>2 DEF Stands
    <2> QED
      BY <1>0, <1>3, <2>3, StillHonoured
  <1>4. CASE RegisterPreview
    <2>1. Prepare(planned.id) /\ planned.id \in Events /\ UNCHANGED <<paid, previews, pendingInsiderBuyers>>
      BY <1>0, <1>4 DEF RegisterPreview, Order, TypeOK
    <2> QED
      BY <1>3, <2>1
  <1>5. ASSUME NEW e \in Events, TimerStart(e) PROVE Honours'
    <2>1. UNCHANGED <<paid, nre, mail, previews, pendingInsiderBuyers>>
      BY <1>5 DEF TimerStart, nre
    <2> QED
      BY <1>0, <2>1, StillHonoured DEF Stands
  <1>6. ASSUME NEW e \in Events, TimerFires(e) PROVE Honours'
    <2>1. Prepare(e) /\ UNCHANGED <<paid, previews, pendingInsiderBuyers>>
      BY <1>6 DEF TimerFires
    <2> QED
      BY <1>3, <2>1
  <1>7. ASSUME NEW e \in Events, NEW q \in Players, NotifyPlayer(e, q) PROVE Honours'
    <2>1. /\ mail' = [mail EXCEPT ![e] = mail[e] \ {q}] /\ previews' = previews \cup {<<q, e>>}
          /\ UNCHANGED <<paid, nre, pendingInsiderBuyers>>
      BY <1>7 DEF NotifyPlayer, nre
    <2>2. \A p \in Players, x \in Slots : Stands(p, x) => Stands(p, x)'
      BY <1>0, <2>1 DEF Stands
    <2> QED
      BY <1>0, <2>1, <2>2, StillHonoured
  <1>8. ASSUME NEW p \in Players, BuyStart(p) \/ Return(p) PROVE Honours'
    <2>1. UNCHANGED <<paid, nre, mail, previews, pendingInsiderBuyers>>
      BY <1>8 DEF BuyStart, Return, nre
    <2> QED
      BY <1>0, <2>1, StillHonoured DEF Stands
  <1>9. ASSUME Current # nre PROVE nre.id = 0 \/ nre.sent
    BY <1>0, <1>9, CurrentType DEF Order
  <1>10. ASSUME NEW q \in Players, BuyRefused(q) PROVE Honours'
    <2>1. nre' \in {nre, NoBuyers} /\ UNCHANGED <<paid, mail, previews, pendingInsiderBuyers>>
          /\ nre' = Current
      BY <1>10, CurrentType DEF BuyRefused, nre
    <2>2. \A p \in Players, x \in Slots : Stands(p, x) => Stands(p, x)'
      BY <1>0, <1>9, <2>1 DEF Stands, Arms
    <2> QED
      BY <1>0, <2>1, <2>2, StillHonoured
  <1>11. ASSUME NEW q \in Players, BuyPending(q) PROVE Honours'
    <2>1. /\ nre' = Current /\ q \notin pendingInsiderBuyers
          /\ pendingInsiderBuyers' = pendingInsiderBuyers \cup {q}
          /\ paid' = [paid EXCEPT ![q] = paid[q] + 1] /\ UNCHANGED <<mail, previews>>
      BY <1>11 DEF BuyPending, nre
    <2>2. ASSUME NEW p \in Players, NEW x \in Slots, Stands(p, x) PROVE Stands(p, x)'
      BY <1>0, <1>9, <2>1, <2>2 DEF Stands, Arms
    <2>3. ASSUME NEW p \in Players PROVE paid'[p] <= Cardinality(Standing(p)')
      <3>1. paid[p] \in Nat /\ paid[p] <= Cardinality(Standing(p))
        BY <1>0 DEF Honours
      <3>2. Standing(p) \subseteq Standing(p)' /\ Standing(p)' \in SUBSET Slots
        BY <2>2 DEF Standing, Slots
      <3>3. CASE p = q
        <4>1. MaxEvents + 1 \in Standing(p)' /\ MaxEvents + 1 \notin Standing(p)
          BY <2>1, <3>3 DEF Standing, Stands
        <4>2. paid[p] + 1 <= Cardinality(Standing(p)')
          BY <3>1, <3>2, <4>1, CountAdds
        <4>3. paid'[p] = paid[p] + 1
          BY <1>0, <2>1, <3>3
        <4> QED
          BY <4>2, <4>3
      <3>4. CASE p # q
        <4>1. paid'[p] = paid[p]
          BY <1>0, <2>1, <3>4
        <4> QED
          BY <3>1, <3>2, <4>1, CountGrows
      <3> QED
        BY <3>3, <3>4
    <2> QED
      BY <2>3 DEF Honours
  <1>12. ASSUME NEW q \in Players, BuyArmed(q) PROVE Honours'
    <2>1. Current.id # 0
      BY <1>12 DEF BuyArmed
    <2>2. Current = nre
      BY <2>1, CurrentType DEF NoBuyers
    <2>0. PICK e \in Events : e = nre.id
      BY <1>0, <2>1, <2>2
    <2>3. /\ nre' = [nre EXCEPT !.buyers = nre.buyers \cup {q}] /\ q \notin nre.buyers
          /\ mail' = IF PreviewAt(nre) <= now THEN [mail EXCEPT ![e] = mail[e] \cup {q}] ELSE mail
          /\ paid' = [paid EXCEPT ![q] = paid[q] + 1]
          /\ UNCHANGED <<pendingInsiderBuyers, previews>>
      BY <1>12, <2>0, <2>2 DEF BuyArmed, nre
    <2>4. /\ e \in Events /\ nre'.id = e /\ nre'.buyers = nre.buyers \cup {q}
          /\ nre'.sent = nre.sent
      BY <1>0, <2>0, <2>3 DEF NextEvent
    <2>5. ASSUME NEW p \in Players, NEW x \in Slots, Stands(p, x) PROVE Stands(p, x)'
      <3>1. \A f \in Events : mail[f] \subseteq mail'[f]
        BY <1>0, <2>3
      <3> QED
        BY <2>0, <2>3, <2>4, <2>5, <3>1 DEF Stands
    <2>6. e \in Standing(q)' /\ e \notin Standing(q)
      <3>1. <<q, e>> \notin armed
        BY <2>0, <2>3 DEF Arms
      <3>2. ~Stands(q, e)
        BY <1>0, <2>0, <2>3, <3>1 DEF Stands, Arms
      <3>3. q \in mail'[e] \/ ~nre.sent
        BY <1>0, <2>0, <2>3 DEF Order, PreviewAt
      <3>4. Stands(q, e)'
        BY <2>4, <3>3 DEF Stands
      <3>5. e \in Slots
        BY <2>4 DEF Slots
      <3> QED
        BY <3>2, <3>4, <3>5 DEF Standing, Slots
    <2>7. ASSUME NEW p \in Players PROVE paid'[p] <= Cardinality(Standing(p)')
      <3>1. paid[p] \in Nat /\ paid[p] <= Cardinality(Standing(p))
        BY <1>0 DEF Honours
      <3>2. Standing(p) \subseteq Standing(p)' /\ Standing(p)' \in SUBSET Slots
        BY <2>5 DEF Standing, Slots
      <3>3. CASE p = q
        <4>1. paid[p] + 1 <= Cardinality(Standing(p)')
          BY <2>6, <3>1, <3>2, <3>3, CountAdds
        <4>2. paid'[p] = paid[p] + 1
          BY <1>0, <2>3, <3>3
        <4> QED
          BY <4>1, <4>2
      <3>4. CASE p # q
        <4>1. paid'[p] = paid[p]
          BY <1>0, <2>3, <3>4
        <4> QED
          BY <3>1, <3>2, <4>1, CountGrows
      <3> QED
        BY <3>3, <3>4
    <2> QED
      BY <2>7 DEF Honours
  <1>13. CASE Tick
    <2>1. UNCHANGED <<paid, nre, mail, previews, pendingInsiderBuyers>>
      BY <1>13 DEF Tick, nre
    <2> QED
      BY <1>0, <2>1, StillHonoured DEF Stands
  <1>14. CASE UNCHANGED vars
    <2>1. UNCHANGED <<paid, nre, mail, previews, pendingInsiderBuyers>>
      BY <1>14 DEF vars, nre
    <2> QED
      BY <1>0, <2>1, StillHonoured DEF Stands
  <1> QED
    BY <1>1, <1>2, <1>4, <1>5, <1>6, <1>7, <1>8, <1>10, <1>11, <1>12, <1>13, <1>14
       DEF Next, MarketStep, Buying

----------------------------------------------------------------------------
(* The invariant                                                           *)

LEMMA InitInvariant == Init => IInv
  <1> SUFFICES ASSUME Init PROVE IInv
    OBVIOUS
  <1> USE Constants
  <1>1. TypeOK
    BY DEF Init, TypeOK, NoEvent, NoBuyers
  <1>2. nre.id = 0 /\ nre.sent = FALSE /\ nre.buyers = {}
    BY DEF Init, NoBuyers, nre
  <1>3. Order
    BY <1>2 DEF Init, Order
  <1>4. Arms
    BY <1>2 DEF Init, Arms
  <1>5. ASSUME NEW p \in Players PROVE paid[p] <= Cardinality(Standing(p))
    <2>1. Standing(p) \subseteq Slots /\ IsFiniteSet(Slots)
      BY FS_Interval DEF Standing, Slots
    <2>2. Cardinality(Standing(p)) \in Nat
      BY <2>1, FS_Subset, FS_CardinalityType
    <2> QED
      BY <2>2 DEF Init
  <1> QED
    BY <1>1, <1>3, <1>4, <1>5 DEF IInv, Honours

LEMMA NextInvariant == IInv /\ [Next]_vars => IInv'
  BY NextTypes, NextOrder, NextArms, NextHonours DEF IInv

(* Every reachable state is of its type: in particular the mutex is held   *)
(* exactly while a call is under way, and nobody sees a preview that was   *)
(* not meant for it.                                                       *)
THEOREM TypeCorrect == Spec => []TypeOK
  <1>1. IInv => TypeOK
    BY DEF IInv
  <1> QED
    BY InitInvariant, NextInvariant, <1>1, PTL DEF Spec

(* However purchases, polls, goroutines and deliveries interleave, every   *)
(* preview paid for is seen, on its way, or remembered: no event replaces  *)
(* another while somebody waits for its preview.                           *)
THEOREM PurchasesAreKept == Spec => []PurchasesHonoured
  <1>1. ASSUME IInv PROVE PurchasesHonoured
    <2> SUFFICES ASSUME NEW p \in Players
                 PROVE  LET seen       == {e \in Events : <<p, e>> \in previews}
                            dispatched == {e \in Events : p \in mail[e]}
                            registered == {e \in Events : e = nextRandomEvent.id
                                                          /\ p \in nextRandomEvent.buyers
                                                          /\ ~nextRandomEvent.sent}
                            pending    == {e \in {MaxEvents + 1} : p \in pendingInsiderBuyers}
                        IN  paid[p] <= Cardinality(seen \cup dispatched \cup registered \cup pending)
      BY DEF PurchasesHonoured
    <2> DEFINE kept == {e \in Events : <<p, e>> \in previews} \cup {e \in Events : p \in mail[e]}
                           \cup {e \in Events : e = nextRandomEvent.id /\ p \in nextRandomEvent.buyers
                                                /\ ~nextRandomEvent.sent}
                           \cup {e \in {MaxEvents + 1} : p \in pendingInsiderBuyers}
    <2>1. Slots = Events \cup {MaxEvents + 1}
      BY Constants DEF Slots
    <2>2. Standing(p) = kept
      BY <2>1 DEF Standing, Stands, Slots, nre
    <2>3. paid[p] <= Cardinality(kept)
      BY <1>1, <2>2 DEF IInv, Honours
    <2> QED
      BY <2>3
  <1> QED
    BY InitInvariant, NextInvariant, <1>1, PTL DEF Spec
----------------------------------------------------------------------------
(* Purchases in time                                                       *)

(* No call delivers a preview itself, and one that is about to buy does so *)
(* before the preview is due, or finds the event over.                     *)
Calls ==
    /\ \A p \in Players : awaited[p] = 0
    /\ \A p \in Players : call[p] = "buying" /\ nre.id # 0 => now < PreviewAt(nre) \/ now >= nre.at

(* A preview is not due when its event is registered, and is sent at once  *)
(* when it is.                                                             *)
Ahead ==
    /\ step \in {"register", "prepare"} => now < planned.at - Lead
    /\ step # "dispatch"
    /\ nre.id # 0 /\ ~nre.sent => now <= PreviewAt(nre)

(* Only the preview of the planned event is being dispatched, and the      *)
(* event is still to come.                                                 *)
Mailed ==
    \A e \in Events : mail[e] # {} => e = planned.id /\ now < planned.at /\ step # "register"

(* Who is to see a preview has seen it, or is about to.                    *)
Owed(p, e) == <<p, e>> \in previews \/ p \in mail[e] \/ (e = nre.id /\ ~nre.sent)

Shown == \A p \in Players, e \in Events : <<p, e>> \in armed => Owed(p, e)

(* Events are fired in the order in which they are planned.                *)
Fired ==
    /\ step # "idle" => firing < planned.id
    /\ \A e \in published : e < planned.id

Prompt == InTime => Calls /\ Ahead /\ Mailed /\ Shown /\ Fired

LEMMA PreparedInTime ==
    ASSUME TypeOK, Order, Arms, Ahead, Mailed, Shown, NEW e \in Events, Prepare(e),
           step # "register", UNCHANGED <<now, planned, armed, previews>>,
           step' \in {step, "fire"}
    PROVE  Ahead' /\ Mailed' /\ Shown'
  <1> USE Constants
  <1>0. /\ nre \in NextEvent /\ nre.id \in Nat /\ nre.at \in Nat /\ now \in Nat /\ planned.at \in Nat
        /\ mail \in [Events -> SUBSET Players]
    BY DEF TypeOK, nre, NextEvent
  <1>1. /\ nre'.id = nre.id /\ nre'.at = nre.at /\ nre'.buyers = nre.buyers
        /\ nre'.sent <=> nre.sent \/ PreviewDue(e)
        /\ \A f \in Events : mail'[f] = IF f = e /\ PreviewDue(e) THEN mail[f] \cup nre.buyers ELSE mail[f]
    BY PrepareEffect
  <1>2. PreviewDue(e) => nre.id = e /\ nre.id = planned.id /\ nre.at = planned.at /\ now < nre.at
    BY Constants DEF PreviewDue, Order, nre
  <1>3. Ahead'
    BY <1>0, <1>1 DEF Ahead, PreviewAt
  <1>4. ASSUME NEW f \in Events, mail'[f] # {} PROVE f = planned.id /\ now < planned.at
    <2>1. CASE mail[f] # {}
      BY <2>1 DEF Mailed
    <2>2. CASE mail[f] = {}
      BY <1>1, <1>2, <1>4, <2>2
    <2> QED
      BY <2>1, <2>2
  <1>5. Mailed'
    BY <1>4 DEF Mailed
  <1>6. ASSUME NEW p \in Players, NEW f \in Events, <<p, f>> \in armed PROVE Owed(p, f)'
    <2>1. Owed(p, f)
      BY <1>6 DEF Shown
    <2>2. f = nre.id => p \in nre.buyers
      BY <1>6 DEF Arms
    <2> QED
      BY <1>1, <1>2, <2>1, <2>2 DEF Owed
  <1> QED
    BY <1>3, <1>5, <1>6 DEF Shown

(* A purchase in time takes back no preview and is late for none.          *)
LEMMA BoughtInTime ==
    ASSUME TypeOK, Order, Arms, Calls, Ahead, Mailed, Shown, NEW p \in Players, Buying(p)
    PROVE  Calls' /\ Ahead' /\ Mailed' /\ Shown'
  <1> USE Constants
  <1>0. /\ nre \in NextEvent /\ nre.id \in Nat /\ nre.at \in Nat /\ now \in Nat
        /\ mail \in [Events -> SUBSET Players] /\ call[p] = "buying"
        /\ call \in [Players -> {"none", "buying", "returning"}]
        /\ awaited \in [Players -> 0..MaxEvents]
    BY DEF TypeOK, nre, NextEvent, Buying, BuyRefused, BuyPending, BuyArmed
  <1>1. /\ UNCHANGED <<now, planned, step, previews>>
        /\ \/ nre' = NoBuyers /\ now >= nre.at
           \/ nre'.id = nre.id /\ nre'.at = nre.at /\ nre'.sent = nre.sent
    BY BuyEffect
  <1>2. NoBuyers.id = 0
    BY DEF NoBuyers
  <1>3. UNCHANGED <<mail, awaited>> /\ call' = [call EXCEPT ![p] = "returning"]
        /\ (armed' = armed \/ (Current.id # 0 /\ nre'.id = nre.id /\ ~nre.sent /\ armed' = armed \cup {<<p, nre.id>>}))
    <2>1. [awaited EXCEPT ![p] = 0] = awaited
      BY <1>0 DEF Calls
    <2>2. CASE BuyRefused(p) \/ BuyPending(p)
      BY <2>1, <2>2 DEF BuyRefused, BuyPending, Returning, history
    <2>3. CASE BuyArmed(p)
      <3>1. Current.id # 0
        BY <2>3 DEF BuyArmed
      <3>2. Current = nre /\ ~(now >= nre.at)
        <4>1. Current # NoBuyers
          BY <1>2, <3>1
        <4> QED
          BY <4>1, CurrentType DEF Current, nre
      <3>3. now < PreviewAt(nre)
        BY <1>0, <3>1, <3>2 DEF Calls
      <3>4. ~(PreviewAt(nre) <= now) /\ ~nre.sent
        BY <1>0, <3>3 DEF Order, PreviewAt
      <3>5. /\ mail' = mail /\ awaited' = [awaited EXCEPT ![p] = 0] /\ armed' = armed \cup {<<p, nre.id>>}
            /\ call' = [call EXCEPT ![p] = "returning"]
            /\ nre' = [nre EXCEPT !.buyers = nre.buyers \cup {p}]
        BY <2>3, <3>2, <3>4 DEF BuyArmed, Returning, nre
      <3>6. nre'.id = nre.id
        BY <1>0, <3>5 DEF NextEvent
      <3> QED
        BY <2>1, <3>1, <3>4, <3>5, <3>6
    <2> QED
      BY <2>2, <2>3 DEF Buying
  <1>4. Calls'
    <2>1. \A q \in Players : call'[q] = "buying" => call[q] = "buying"
      BY <1>0, <1>3
    <2> QED
      BY <1>1, <1>2, <1>3, <2>1 DEF Calls, PreviewAt
  <1>5. Ahead' /\ Mailed'
    BY <1>1, <1>2, <1>3 DEF Ahead, Mailed, PreviewAt
  <1>6. ASSUME NEW q \in Players, NEW e \in Events, <<q, e>> \in armed' PROVE Owed(q, e)'
    <2>1. CASE <<q, e>> \in armed
      <3>1. Owed(q, e)
        BY <2>1 DEF Shown
      <3>2. nre.id # 0 /\ ~nre.sent => now < nre.at
        BY DEF Order
      <3>3. CASE <<q, e>> \in previews \/ q \in mail[e]
        BY <1>1, <1>3, <3>3 DEF Owed
      <3>4. CASE e = nre.id /\ ~nre.sent
        <4>1. ~(now >= nre.at)
          BY <1>0, <3>2, <3>4
        <4> QED
          BY <1>1, <3>4, <4>1 DEF Owed
      <3> QED
        BY <3>1, <3>3, <3>4 DEF Owed
    <2>2. CASE <<q, e>> \notin armed
      <3>1. e = nre.id /\ nre'.id = nre.id /\ ~nre.sent
        BY <1>3, <1>6, <2>2
      <3>2. nre'.sent = nre.sent
        BY <1>1, <1>2, <3>1
      <3> QED
        BY <3>1, <3>2 DEF Owed
    <2> QED
      BY <2>1, <2>2
  <1> QED
    BY <1>4, <1>5, <1>6 DEF Shown

LEMMA ConfigFixed == [Next]_vars => UNCHANGED config
  <1> SUFFICES ASSUME [Next]_vars PROVE UNCHANGED config
    OBVIOUS
  <1>1. CASE MarketStep
    BY <1>1 DEF MarketStep, Poll, Register, RegisterPreview, Dispatched, Fire
  <1>2. ASSUME NEW e \in Events, TimerStart(e) \/ TimerFires(e) PROVE UNCHANGED config
    BY <1>2 DEF TimerStart, TimerFires
  <1>3. ASSUME NEW e \in Events, NEW p \in Players, NotifyPlayer(e, p) PROVE UNCHANGED config
    BY <1>3 DEF NotifyPlayer
  <1>4. ASSUME NEW p \in Players, BuyStart(p) \/ Return(p) PROVE UNCHANGED config
    BY <1>4 DEF BuyStart, Return
  <1>5. ASSUME NEW p \in Players, Buying(p) PROVE UNCHANGED config
    BY <1>5 DEF Buying, BuyRefused, BuyPending, BuyArmed
  <1>6. CASE Tick \/ UNCHANGED vars
    BY <1>6 DEF Tick, vars
  <1> QED
    BY <1>1, <1>2, <1>3, <1>4, <1>5, <1>6 DEF Next

LEMMA NextPrompt == TypeOK /\ Order /\ Arms /\ Prompt /\ [Next]_vars => Prompt'
  <1> SUFFICES ASSUME TypeOK, Order, Arms, Prompt, [Next]_vars, InTime'
               PROVE  Calls' /\ Ahead' /\ Mailed' /\ Shown' /\ Fired'
    BY DEF Prompt
  <1>15. InTime
    BY ConfigFixed DEF InTime, config
  <1> SUFFICES ASSUME Calls, Ahead, Mailed, Shown, Fired
               PROVE  Calls' /\ Ahead' /\ Mailed' /\ Shown' /\ Fired'
    BY <1>15 DEF Prompt
  <1> USE Constants
  <1> USE DEF config, marketVars, intelVars, engineVars, history
  <1>0. /\ nre \in NextEvent /\ nre.id \in Nat /\ nre.at \in Nat /\ nre.sent \in BOOLEAN
        /\ planned.id \in Nat /\ planned.at \in Nat /\ now \in Nat /\ interval \in Nat \ {0}
        /\ firing \in Nat /\ published \subseteq Events /\ mail \in [Events -> SUBSET Players]
        /\ ~lateBuyers /\ interval > Lead
    BY <1>15 DEF TypeOK, nre, NextEvent, InTime
  <1>1. CASE Poll
    <2>1. /\ planned'.id = planned.id + 1 /\ planned'.at = now + interval /\ step = "idle"
          /\ step' = "register" /\ firing' = planned.id /\ (planned.id = 0 \/ now >= planned.at)
          /\ UNCHANGED <<now, nre, mail, call, awaited, armed, previews, published>>
      BY <1>1 DEF Poll, Due, nre
    <2>2. \A e \in Events : mail[e] = {}
      BY <1>0, <2>1 DEF Mailed
    <2>3. Calls' /\ Shown'
      BY <2>1 DEF Calls, Shown, Owed, PreviewAt
    <2>4. Ahead' /\ Mailed' /\ Fired'
      BY <1>0, <2>1, <2>2 DEF Ahead, Mailed, Fired, PreviewAt
    <2> QED
      BY <2>3, <2>4
  <1>2. CASE Register
    <2>1. /\ nre' = [id |-> planned.id, at |-> planned.at, buyers |-> CarriedOver, sent |-> FALSE]
          /\ step = "register" /\ step' = "prepare"
          /\ armed' = armed \cup (CarriedOver \X {planned.id})
          /\ UNCHANGED <<now, planned, mail, call, awaited, previews, firing, published>>
      BY <1>2 DEF Register, nre
    <2>2. nre'.id = planned.id /\ nre'.at = planned.at /\ nre'.sent = FALSE /\ now < planned.at - Lead
      BY <2>1 DEF Ahead
    <2>3. nre.id # 0 => nre.sent
      BY <1>0, <2>1 DEF Order
    <2>4. ASSUME NEW p \in Players, NEW e \in Events, <<p, e>> \in armed' PROVE Owed(p, e)'
      <3>1. CASE <<p, e>> \in armed
        BY <2>1, <2>3, <3>1 DEF Shown, Owed
      <3>2. CASE <<p, e>> \notin armed
        BY <2>1, <2>2, <2>4, <3>2 DEF Owed
      <3> QED
        BY <3>1, <3>2
    <2>5. Calls' /\ Ahead'
      BY <1>0, <2>1, <2>2 DEF Calls, Ahead, PreviewAt
    <2>6. Mailed' /\ Fired'
      BY <2>1 DEF Mailed, Fired
    <2> QED
      BY <2>4, <2>5, <2>6 DEF Shown
  <1>3. CASE RegisterPreview
    <2>1. /\ step = "prepare" /\ step' \in {"dispatch", "fire"} /\ Prepare(planned.id) /\ planned.id \in Events
          /\ UNCHANGED <<now, planned, call, awaited, armed, previews, firing, published>>
      BY <1>0, <1>3 DEF RegisterPreview, Order, TypeOK
    <2>2. ~PreviewDue(planned.id)
      <3>1. now < planned.at - Lead
        BY <2>1 DEF Ahead
      <3>2. nre.id = planned.id => nre.at = planned.at
        BY <2>1 DEF Order
      <3> QED
        BY <1>0, <2>1, <3>1, <3>2 DEF PreviewDue, PreviewAt, nre
    <2>3. step' = "fire"
      BY <1>3, <2>2 DEF RegisterPreview
    <2>4. nre'.id = nre.id /\ nre'.at = nre.at
      BY <2>1, PrepareEffect
    <2>5. Ahead' /\ Mailed' /\ Shown'
      BY <2>1, <2>3, PreparedInTime
    <2> QED
      BY <2>1, <2>3, <2>4, <2>5 DEF Calls, Fired, PreviewAt
  <1>4. CASE Dispatched
    BY <1>4 DEF Dispatched, Ahead
  <1>5. CASE Fire
    <2>1. /\ step = "fire" /\ step' = "idle" /\ published' = published \cup Fires
          /\ UNCHANGED <<now, planned, nre, mail, call, awaited, armed, previews, firing>>
      BY <1>5 DEF Fire, nre
    <2>2. Fired'
      BY <2>1 DEF Fired, Fires
    <2> QED
      BY <2>1, <2>2 DEF Calls, Ahead, Mailed, Shown, Owed, PreviewAt
  <1>6. ASSUME NEW e \in Events, TimerStart(e) PROVE Calls' /\ Ahead' /\ Mailed' /\ Shown' /\ Fired'
    BY <1>6 DEF TimerStart, nre, Calls, Ahead, Mailed, Shown, Owed, Fired, PreviewAt
  <1>7. ASSUME NEW e \in Events, TimerFires(e) PROVE Calls' /\ Ahead' /\ Mailed' /\ Shown' /\ Fired'
    <2>1. /\ Prepare(e)
          /\ UNCHANGED <<now, planned, step, call, awaited, armed, previews, firing, published>>
      BY <1>7 DEF TimerFires
    <2>2. nre'.id = nre.id /\ nre'.at = nre.at
      BY <2>1, PrepareEffect
    <2>3. Calls' /\ Fired'
      BY <2>1, <2>2 DEF Calls, Fired, PreviewAt
    <2>4. CASE step # "register"
      BY <2>1, <2>3, <2>4, PreparedInTime
    <2>5. CASE step = "register"
      <3>1. ~PreviewDue(e)
        BY <1>0, <2>5 DEF PreviewDue, Order, nre
      <3>2. UNCHANGED <<nre, mail>>
        BY <2>1, <3>1 DEF Prepare, nre
      <3> QED
        BY <2>1, <2>3, <3>2 DEF Ahead, Mailed, Shown, Owed, PreviewAt
    <2> QED
      BY <2>4, <2>5
  <1>8. ASSUME NEW e \in Events, NEW p \in Players, NotifyPlayer(e, p)
        PROVE  Calls' /\ Ahead' /\ Mailed' /\ Shown' /\ Fired'
    <2>1. /\ mail' = [mail EXCEPT ![e] = mail[e] \ {p}] /\ previews' = previews \cup {<<p, e>>}
          /\ UNCHANGED <<now, planned, step, nre, call, awaited, armed, firing, published>>
      BY <1>8 DEF NotifyPlayer, nre
    <2>2. \A f \in Events : mail'[f] \subseteq mail[f] /\ \A q \in mail[f] : q \in mail'[f] \/ <<q, f>> \in previews'
      BY <1>0, <2>1
    <2>3. Mailed' /\ Shown'
      BY <2>1, <2>2 DEF Mailed, Shown, Owed
    <2> QED
      BY <2>1, <2>3 DEF Calls, Ahead, Fired, PreviewAt
  <1>9. ASSUME NEW p \in Players, BuyStart(p) PROVE Calls' /\ Ahead' /\ Mailed' /\ Shown' /\ Fired'
    <2>1. /\ ~Late /\ call' = [call EXCEPT ![p] = "buying"]
          /\ UNCHANGED <<now, planned, step, nre, mail, awaited, armed, previews, firing, published>>
      BY <1>0, <1>9 DEF BuyStart, nre
    <2>2. nre.id # 0 => now < PreviewAt(nre) \/ now >= nre.at
      BY <1>0, <2>1 DEF Late, PreviewAt, nre
    <2> QED
      BY <2>1, <2>2 DEF Calls, Ahead, Mailed, Shown, Owed, Fired, PreviewAt
  <1>10. ASSUME NEW p \in Players, Buying(p) PROVE Calls' /\ Ahead' /\ Mailed' /\ Shown' /\ Fired'
    <2>1. UNCHANGED <<planned, step, firing, published>>
      BY <1>10 DEF Buying, BuyRefused, BuyPending, BuyArmed
    <2> QED
      BY <1>10, <2>1, BoughtInTime DEF Fired
  <1>11. ASSUME NEW p \in Players, Return(p) PROVE Calls' /\ Ahead' /\ Mailed' /\ Shown' /\ Fired'
    <2>1. /\ call' = [call EXCEPT ![p] = "none"] /\ awaited' = [awaited EXCEPT ![p] = 0]
          /\ UNCHANGED <<now, planned, step, nre, mail, armed, previews, firing, published>>
      BY <1>11 DEF Return, nre
    <2>2. \A q \in Players : awaited'[q] = 0 /\ (call'[q] = "buying" => call[q] = "buying")
      BY <2>1 DEF TypeOK, Calls
    <2> QED
      BY <2>1, <2>2 DEF Calls, Ahead, Mailed, Shown, Owed, Fired, PreviewAt
  <1>12. CASE Tick
    <2>1. /\ ~Busy /\ now' = now + 1
          /\ UNCHANGED <<planned, step, nre, mail, call, awaited, timers, armed, previews, firing, published>>
      BY <1>12 DEF Tick, nre
    <2>2. \A p \in Players : call[p] = "none"
      <3>1. \A p \in Players : call[p] # "buying" /\ ~CanReturn(p)
        BY <2>1 DEF Busy
      <3>2. \A p \in Players : call[p] # "returning"
        BY <3>1 DEF CanReturn, Calls
      <3> QED
        BY <3>1, <3>2 DEF TypeOK
    <2>3. mu = "free"
      BY <2>2 DEF TypeOK
    <2>4. \A e \in Events : mail[e] = {} /\ timers[e] # "start" /\ ~TimerReady(e)
      BY <2>1, <2>3 DEF Busy
    <2>5. step \notin {"register", "prepare"}
      BY <2>1 DEF Busy
    <2>6. nre.id # 0 /\ ~nre.sent => now' <= PreviewAt(nre)
      <3> SUFFICES ASSUME nre.id # 0, ~nre.sent PROVE now' <= PreviewAt(nre)
        OBVIOUS
      <3>1. nre.id \in Events /\ timers[nre.id] # "none"
        BY <1>0, <2>5 DEF Order, NextEvent
      <3>2. timers[nre.id] = "waiting"
        BY <2>4, <3>1 DEF TypeOK
      <3>3. ~(now >= nre.at - Lead)
        BY <2>4, <3>1, <3>2 DEF TimerReady, PreviewAt, nre
      <3> QED
        BY <1>0, <2>1, <3>3 DEF PreviewAt
    <2>7. Ahead' /\ Mailed'
      BY <2>1, <2>4, <2>5, <2>6 DEF Ahead, Mailed, PreviewAt
    <2> QED
      BY <2>1, <2>2, <2>7 DEF Calls, Shown, Owed, Fired
  <1>13. CASE UNCHANGED vars
    BY <1>13 DEF vars, nre, Calls, Ahead, Mailed, Shown, Owed, Fired, PreviewAt
  <1> QED
    BY <1>1, <1>2, <1>3, <1>4, <1>5, <1>6, <1>7, <1>8, <1>9, <1>10, <1>11, <1>12, <1>13 DEF Next, MarketStep

(* "sends private insider previews before public market publication"       *)
(* (README.md:110): everybody who pays for the preview of an event in time *)
(* has seen it when the event is fired, however purchases, goroutines and  *)
(* deliveries compete for the mutex.                                       *)
THEOREM EarlyBuyersServedFirst == Spec => []EarlyBuyersPreviewed
  <1>1. Init => Prompt
    <2> SUFFICES ASSUME Init PROVE Calls /\ Ahead /\ Mailed /\ Shown /\ Fired
      BY DEF Prompt
    <2> QED
      BY DEF Init, NoBuyers, nre, Calls, Ahead, Mailed, Shown, Fired
  <1>2. IInv /\ Prompt /\ [Next]_vars => Prompt'
    BY NextPrompt DEF IInv
  <1>3. ASSUME IInv, Prompt PROVE EarlyBuyersPreviewed
    <2> SUFFICES ASSUME InTime, NEW preview \in armed, preview[2] \in published
                 PROVE  preview \in previews
      BY DEF EarlyBuyersPreviewed, PreviewBeforePublication
    <2>1. TypeOK /\ Order /\ Calls /\ Ahead /\ Mailed /\ Shown /\ Fired
      BY <1>3 DEF IInv, Prompt
    <2>2. PICK p \in Players, e \in Events : preview = <<p, e>>
      BY <2>1 DEF TypeOK
    <2>3. e \in Nat /\ planned.id \in Nat /\ nre.at \in Nat /\ now \in Nat /\ e # 0 /\ e < planned.id
      BY <2>1, <2>2, Constants DEF Fired, TypeOK, nre
    <2>4. mail[e] = {}
      BY <2>1, <2>3 DEF Mailed
    <2>5. ~(e = nre.id /\ ~nre.sent)
      BY <2>1, <2>3 DEF Order
    <2>6. Owed(p, e)
      BY <2>1, <2>2 DEF Shown
    <2> QED
      BY <2>2, <2>4, <2>5, <2>6 DEF Owed
  <1> QED
    BY InitInvariant, NextInvariant, <1>1, <1>2, <1>3, PTL DEF Spec
=============================================================================
