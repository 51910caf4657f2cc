-------------------------- MODULE MarketFeedProofs ---------------------------
(***************************************************************************)
(* Proofs about MarketFeed and PriceEngine, for any capacity of the        *)
(* channel, any tick, moves, shocks and number of orders and events.       *)
(***************************************************************************)
EXTENDS MarketFeed, DataLemmas

----------------------------------------------------------------------------
(* Arithmetic of prices                                                    *)

(* A quotient times its divisor, and what is left.                         *)
LEMMA Division ==
    ASSUME NEW x \in Int, NEW d \in Nat \ {0}
    PROVE  /\ x \div d \in Int
           /\ (x \div d) * d <= x /\ x < (x \div d) * d + d
  OBVIOUS

LEMMA Quotient ==
    ASSUME NEW x \in Int, NEW d \in Nat \ {0}, NEW k \in Int
    PROVE  /\ k * d <= x => k <= x \div d
           /\ x < (k + 1) * d => x \div d <= k
  <1>1. PICK q \in Int : q = x \div d /\ q * d <= x /\ x < q * d + d
    BY Division
  <1>2. ASSUME k * d <= x, q < k PROVE FALSE
    <2>1. k - q >= 1 /\ (k - q) * d >= d
      BY <1>2
    <2>2. (k - q) * d = k * d - q * d
      OBVIOUS
    <2> QED
      BY <1>1, <1>2, <2>1, <2>2
  <1>3. ASSUME x < (k + 1) * d, q > k PROVE FALSE
    <2>1. q - (k + 1) >= 0 /\ (q - (k + 1)) * d >= 0
      BY <1>3
    <2>2. (q - (k + 1)) * d = q * d - (k + 1) * d
      OBVIOUS
    <2> QED
      BY <1>1, <1>3, <2>1, <2>2
  <1> QED
    BY <1>1, <1>2, <1>3

LEMMA Aligned ==
    ASSUME NEW p \in Int
    PROVE  /\ \E k \in Nat \ {0} : AlignToTick(p) = k * TickSize
           /\ AlignToTick(p) \in Nat \ {0}
           /\ \A k \in Nat \ {0} : k * TickSize <= p => k * TickSize <= AlignToTick(p)
           /\ \A k \in Nat \ {0} : p <= k * TickSize => AlignToTick(p) <= k * TickSize
  <1>1. PICK t \in Nat \ {0} : t = TickSize
    BY PriceAssumption
  <1>2. \A k \in Nat \ {0} : k * t \in Nat \ {0} /\ k * t >= t
    OBVIOUS
  <1>3. CASE p < t
    <2>1. AlignToTick(p) = 1 * t
      BY <1>1, <1>3 DEF AlignToTick
    <2> QED
      BY <1>1, <1>2, <1>3, <2>1
  <1>4. CASE p >= t
    <2>1. PICK q \in Int : q = p \div t /\ q * t <= p
      BY Division
    <2>2. AlignToTick(p) = q * t
      BY <1>1, <1>4, <2>1 DEF AlignToTick
    <2>3. q >= 1
      <3>1. 1 * t <= p
        BY <1>4
      <3> QED
        BY <2>1, <3>1, Quotient
    <2>4. ASSUME NEW k \in Nat \ {0}, k * t <= p PROVE k * t <= q * t
      <3>1. k <= q
        BY <2>1, <2>4, Quotient
      <3>2. (q - k) * t >= 0 /\ (q - k) * t = q * t - k * t
        BY <3>1
      <3> QED
        BY <3>2
    <2>5. q \in Nat \ {0} /\ q * t \in Nat \ {0}
      BY <1>2, <2>3
    <2>6. \A k \in Nat \ {0} : p <= k * t => q * t <= k * t
      BY <1>2, <2>1
    <2> QED
      BY <1>1, <2>2, <2>4, <2>5, <2>6
  <1> QED
    BY <1>3, <1>4

(* A price after a move.                                                   *)
LEMMA MovedPrice ==
    ASSUME NEW p \in Nat \ {0}, NEW n \in Nat \ {0}, p = n * TickSize, NEW move \in Int
    PROVE  /\ \E k \in Nat \ {0} : Moved(p, move) = k * TickSize
           /\ Moved(p, move) \in Nat \ {0}
           /\ move >= 0 => Moved(p, move) >= p
           /\ move <= 0 => Moved(p, move) <= p
  <1>1. PICK x \in Int : x = 2 * p * (Whole + move) + Whole
    BY DEF Whole
  <1>2. PICK y \in Int : y = x \div 200000
    OBVIOUS
  <1>3. Moved(p, move) = AlignToTick(y)
    <2>1. 2 * Whole = 200000
      BY DEF Whole
    <2> QED
      BY <1>1, <1>2, <2>1 DEF Moved
  <1>4. PICK m \in Int : m = p * move
    OBVIOUS
  <1>5. x = 200000 * p + 2 * m + 100000
    <2>1. 2 * p * (100000 + move) = 2 * (p * 100000) + 2 * (p * move)
      OBVIOUS
    <2> QED
      BY <1>1, <1>4, <2>1 DEF Whole
  <1>6. ASSUME move >= 0 PROVE y >= p
    <2>1. m >= 0
      BY <1>4, <1>6
    <2> QED
      BY <1>2, <1>5, <2>1
  <1>7. ASSUME move <= 0 PROVE y <= p
    <2>1. m <= 0
      BY <1>4, <1>7
    <2> QED
      BY <1>2, <1>5, <2>1
  <1> QED
    BY <1>3, <1>6, <1>7, Aligned

----------------------------------------------------------------------------
(* Effects                                                                 *)

EffectsOK(effects) ==
    /\ IsABag(effects) /\ IsFiniteSet(DOMAIN effects) /\ DOMAIN effects \subseteq Effect
    /\ \A e \in DOMAIN effects : e.from < e.until

LEMMA LiveEffects ==
    ASSUME NEW effects, EffectsOK(effects), NEW t \in Nat
    PROVE  /\ EffectsOK(Live(effects, t))
           /\ DOMAIN Live(effects, t) = {e \in DOMAIN effects : e.until > t}
           /\ Live(Live(effects, t), t) = Live(effects, t)
  <1>1. PICK D : D = {e \in DOMAIN effects : e.until > t}
    OBVIOUS
  <1>2. PICK live : live = [e \in D |-> effects[e]]
    OBVIOUS
  <1>3. Live(effects, t) = live /\ DOMAIN live = D
    BY <1>1, <1>2 DEF Live, Restrict
  <1>4. IsFiniteSet(D)
    <2>1. IsFiniteSet(DOMAIN effects) /\ D \in SUBSET DOMAIN effects
      BY <1>1 DEF EffectsOK
    <2> QED
      BY <2>1, FS_Subset
  <1>5. IsABag(live)
    BY <1>1, <1>2 DEF EffectsOK, IsABag
  <1>6. {e \in D : e.until > t} = D
    BY <1>1
  <1>7. Live(live, t) = live
    BY <1>2, <1>3, <1>6 DEF Live, Restrict
  <1> QED
    BY <1>1, <1>3, <1>4, <1>5, <1>7 DEF EffectsOK

LEMMA LeftOver ==
    ASSUME NEW e \in Effect, e.from < e.until, NEW t \in Nat
    PROVE  Left(e, t) \in Nat
  <1>1. CASE e.until > t
    <2>1. PICK x, d : x = 600 * (e.until - t) /\ d = e.until - e.from
      OBVIOUS
    <2>2. x \in Nat /\ d \in Nat \ {0}
      BY <1>1, <2>1 DEF Effect
    <2>3. x \div d \in Int /\ (0 <= x => 0 <= x \div d)
      <3>1. 0 * d <= x
        BY <2>2
      <3> QED
        BY <2>2, <3>1, Division, Quotient
    <2> QED
      BY <1>1, <2>1, <2>2, <2>3 DEF Left
  <1>2. CASE ~(e.until > t)
    BY <1>2 DEF Left
  <1> QED
    BY <1>1, <1>2

(* What the effects pull together, before it is cut.                       *)
Pull(effects, t) ==
    SumFunction([e \in DOMAIN effects |-> effects[e] * (e.shock * Left(e, t))])

LEMMA BiasSign ==
    ASSUME NEW effects, EffectsOK(effects), NEW t \in Nat
    PROVE  /\ Bias(effects, t) \in Int
           /\ (\A e \in DOMAIN effects : e.shock >= 0) => Bias(effects, t) >= 0
           /\ (\A e \in DOMAIN effects : e.shock <= 0) => Bias(effects, t) <= 0
  <1>1. PICK f : f = [e \in DOMAIN effects |-> effects[e] * (e.shock * Left(e, t))]
    OBVIOUS
  <1>2. PICK S : S = DOMAIN effects /\ IsFiniteSet(S)
    BY DEF EffectsOK
  <1>3. PICK pull : pull = SumFunctionOnSet(f, S)
    OBVIOUS
  <1>4. Bias(effects, t) = Clamp(pull, -45000, 45000)
    BY <1>1, <1>2, <1>3 DEF Bias, SumFunction
  <1>5. ASSUME NEW e \in S
        PROVE  /\ f[e] \in Int
               /\ e.shock >= 0 => f[e] >= 0
               /\ e.shock <= 0 => f[e] <= 0
    <2>1. PICK n, s, l : n = effects[e] /\ s = e.shock /\ l = Left(e, t)
      OBVIOUS
    <2>2. n \in Nat /\ s \in Int /\ l \in Nat
      BY <1>2, <2>1, LeftOver DEF EffectsOK, IsABag, Effect
    <2>3. f[e] = n * (s * l)
      BY <1>1, <1>2, <2>1
    <2>4. /\ s * l \in Int
          /\ s >= 0 => s * l >= 0
          /\ s <= 0 => s * l <= 0
      BY <2>2
    <2>5. PICK x \in Int : x = s * l
      BY <2>4
    <2>6. /\ n * x \in Int
          /\ x >= 0 => n * x >= 0
          /\ x <= 0 => n * x <= 0
      BY <2>2
    <2> QED
      BY <2>1, <2>3, <2>4, <2>5, <2>6
  <1>6. pull \in Int
    BY <1>2, <1>3, <1>5, SumOut
  <1>7. ASSUME \A e \in S : e.shock >= 0 PROVE pull >= 0
    BY <1>2, <1>3, <1>5, <1>7, SumOfNaturals
  <1>8. ASSUME \A e \in S : e.shock <= 0 PROVE pull <= 0
    BY <1>2, <1>3, <1>5, <1>8, SumNotPositive
  <1>9. PICK bias : bias = Clamp(pull, -45000, 45000)
    OBVIOUS
  <1>10. bias \in Int /\ (pull >= 0 => bias >= 0) /\ (pull <= 0 => bias <= 0)
    BY <1>6, <1>9 DEF Clamp
  <1> QED
    BY <1>2, <1>4, <1>7, <1>8, <1>9, <1>10

LEMMA StepSign ==
    ASSUME NEW effects, EffectsOK(effects), NEW t \in Nat, NEW since \in Nat
    PROVE  /\ Step(effects, since, t) \in Int
           /\ (\A e \in DOMAIN effects : e.shock >= 0) => Step(effects, since, t) >= 0
           /\ (\A e \in DOMAIN effects : e.shock <= 0) => Step(effects, since, t) <= 0
  <1>1. PICK b, m : b = Bias(effects, t) /\ m = Clamp(((t - since) * Unit * 1000) \div 30, 0, 180)
    OBVIOUS
  <1>2. m \in 0..180
    <2>1. PICK u \in Nat : u = Unit
      BY ClockAssumption
    <2>2. ((t - since) * Unit * 1000) \div 30 \in Int
      BY <2>1
    <2> QED
      BY <1>1, <2>2 DEF Clamp
  <1>3. /\ b \in Int
        /\ (\A e \in DOMAIN effects : e.shock >= 0) => b >= 0
        /\ (\A e \in DOMAIN effects : e.shock <= 0) => b <= 0
    BY <1>1, BiasSign
  <1>4. /\ b * m \in Int
        /\ b >= 0 => b * m >= 0
        /\ b <= 0 => b * m <= 0
    BY <1>2, <1>3
  <1>5. PICK x \in Int : x = b * m
    BY <1>4
  <1>6. Step(effects, since, t) = Clamp(x \div 1000, -1200, 1200)
    BY <1>1, <1>5 DEF Step
  <1>7. /\ Step(effects, since, t) \in Int
        /\ x >= 0 => Step(effects, since, t) >= 0
        /\ x <= 0 => Step(effects, since, t) <= 0
    BY <1>6 DEF Clamp
  <1> QED
    BY <1>3, <1>4, <1>5, <1>7

----------------------------------------------------------------------------
(* The state of the price                                                  *)

StateOK(s, t) ==
    /\ s = [price |-> s.price, updatedAt |-> s.updatedAt, effects |-> s.effects]
    /\ s.price \in Nat \ {0} /\ \E k \in Nat \ {0} : s.price = k * TickSize
    /\ s.updatedAt \in 0..t
    /\ EffectsOK(s.effects)

LEMMA RefreshedState ==
    ASSUME NEW n \in Nat, NEW s, StateOK(s, n), NEW t \in 0..n
    PROVE  LET next == Refreshed(s, t)
               live == Live(s.effects, t)
           IN  /\ StateOK(next, n)
               /\ next.effects = live
               /\ Refreshed(next, t).price = next.price
               /\ (\A e \in DOMAIN live : e.shock >= 0) => next.price >= s.price
               /\ (\A e \in DOMAIN live : e.shock <= 0) => next.price <= s.price
  <1>1. PICK live, since, p, r, fx :
           /\ fx = s.effects /\ live = Live(fx, t) /\ since = s.updatedAt /\ p = s.price
           /\ r = Moved(p, Step(live, since, t))
    OBVIOUS
  <1>2. /\ since \in 0..n /\ p \in Nat \ {0} /\ \E k \in Nat \ {0} : p = k * TickSize
        /\ s = [price |-> p, updatedAt |-> since, effects |-> fx] /\ EffectsOK(fx)
    BY <1>1 DEF StateOK
  <1>3. EffectsOK(live) /\ Live(live, t) = live
    <2>1. t \in Nat
      OBVIOUS
    <2> QED
      BY <1>1, <1>2, <2>1, LiveEffects
  <1>4. since \in Nat /\ t \in Nat
    BY <1>2
  <1>5. PICK step \in Int :
           /\ step = Step(live, since, t)
           /\ (\A e \in DOMAIN live : e.shock >= 0) => step >= 0
           /\ (\A e \in DOMAIN live : e.shock <= 0) => step <= 0
    BY <1>3, <1>4, StepSign
  <1>6. /\ \E k \in Nat \ {0} : r = k * TickSize
        /\ r \in Nat \ {0}
        /\ step >= 0 => r >= p
        /\ step <= 0 => r <= p
    BY <1>1, <1>2, <1>5, MovedPrice
  <1>7. CASE t <= since \/ Bias(live, t) = 0 \/ r = p
    <2>1. Refreshed(s, t) = [s EXCEPT !.effects = live]
      BY <1>1, <1>7 DEF Refreshed
    <2>2. Refreshed(s, t) = [price |-> p, updatedAt |-> since, effects |-> live]
      BY <1>2, <2>1
    <2>3. PICK next : next = [price |-> p, updatedAt |-> since, effects |-> live]
      OBVIOUS
    <2>4. next.price = p /\ next.updatedAt = since /\ next.effects = live
      BY <2>3
    <2>5. Refreshed(next, t) = [next EXCEPT !.effects = live]
      BY <1>1, <1>3, <1>7, <2>4 DEF Refreshed
    <2>6. Refreshed(next, t).price = p
      BY <2>3, <2>5
    <2>7. StateOK(next, n)
      BY <1>2, <1>3, <2>3, <2>4 DEF StateOK
    <2> QED
      BY <1>1, <1>2, <2>2, <2>3, <2>4, <2>6, <2>7
  <1>8. CASE ~(t <= since \/ Bias(live, t) = 0 \/ r = p)
    <2>1. Refreshed(s, t) = [price |-> r, updatedAt |-> t, effects |-> live]
      BY <1>1, <1>8 DEF Refreshed
    <2>2. PICK next : next = [price |-> r, updatedAt |-> t, effects |-> live]
      OBVIOUS
    <2>3. next.price = r /\ next.updatedAt = t /\ next.effects = live
      BY <2>2
    <2>4. Refreshed(next, t) = [next EXCEPT !.effects = live]
      BY <1>3, <1>4, <2>3 DEF Refreshed
    <2>5. Refreshed(next, t).price = r
      BY <2>2, <2>4
    <2>6. StateOK(next, n)
      BY <1>3, <1>6, <2>2, <2>3 DEF StateOK
    <2> QED
      BY <1>1, <1>5, <1>6, <2>1, <2>2, <2>3, <2>5, <2>6
  <1> QED
    BY <1>7, <1>8

(* The time of the price is set when the drift moves it.                   *)
LEMMA RefreshedTime ==
    ASSUME NEW n \in Nat, NEW s, StateOK(s, n), NEW t \in 0..n, NEW next, next = Refreshed(s, t)
    PROVE  \/ next.price = s.price /\ next.updatedAt = s.updatedAt
           \/ next.price # s.price /\ next.updatedAt = t /\ t > s.updatedAt
  <1>1. PICK live, since, p, r, fx :
           /\ fx = s.effects /\ live = Live(fx, t) /\ since = s.updatedAt /\ p = s.price
           /\ r = Moved(p, Step(live, since, t))
    OBVIOUS
  <1>2. /\ since \in Nat /\ t \in Nat
        /\ s = [price |-> p, updatedAt |-> since, effects |-> fx]
    BY <1>1 DEF StateOK
  <1>3. CASE t <= since \/ Bias(live, t) = 0 \/ r = p
    <2>1. next = [s EXCEPT !.effects = live]
      BY <1>1, <1>3 DEF Refreshed
    <2> QED
      BY <1>2, <2>1
  <1>4. CASE ~(t <= since \/ Bias(live, t) = 0 \/ r = p)
    <2>1. next = [price |-> r, updatedAt |-> t, effects |-> live]
      BY <1>1, <1>4 DEF Refreshed
    <2> QED
      BY <1>2, <1>4, <2>1
  <1> QED
    BY <1>3, <1>4

LEMMA ShockedEffects ==
    ASSUME NEW fx, EffectsOK(fx), NEW x \in Effect, x.from < x.until
    PROVE  EffectsOK(fx (+) SetToBag({x}))
  <1>1. PICK one : one = SetToBag({x})
    OBVIOUS
  <1>2. one = [e \in {x} |-> 1] /\ DOMAIN one = {x}
    BY <1>1 DEF SetToBag
  <1>3. PICK D : D = DOMAIN fx \cup {x}
    OBVIOUS
  <1>4. PICK sum : sum = fx (+) one
    OBVIOUS
  <1>5. sum = [e \in D |-> (IF e \in DOMAIN fx THEN fx[e] ELSE 0) + (IF e = x THEN 1 ELSE 0)]
    BY <1>2, <1>3, <1>4 DEF (+)
  <1>6. ASSUME NEW e \in D PROVE sum[e] \in Nat /\ sum[e] > 0
    <2>1. PICK i, j : i = (IF e \in DOMAIN fx THEN fx[e] ELSE 0) /\ j = (IF e = x THEN 1 ELSE 0)
      OBVIOUS
    <2>2. i \in Nat /\ (e \in DOMAIN fx => i > 0)
      BY <2>1 DEF EffectsOK, IsABag
    <2>3. j \in Nat /\ (e = x => j > 0)
      BY <2>1
    <2>4. sum[e] = i + j
      BY <1>5, <2>1
    <2> QED
      BY <1>3, <2>2, <2>3, <2>4
  <1>7. DOMAIN sum = D /\ IsABag(sum)
    BY <1>5, <1>6 DEF IsABag
  <1>8. IsFiniteSet(D)
    <2>1. PICK S : S = DOMAIN fx /\ IsFiniteSet(S)
      BY DEF EffectsOK
    <2> QED
      BY <1>3, <2>1, FS_AddElement
  <1>9. \A e \in D : e \in Effect /\ e.from < e.until
    BY <1>3 DEF EffectsOK
  <1> QED
    BY <1>1, <1>4, <1>7, <1>8, <1>9 DEF EffectsOK

----------------------------------------------------------------------------
(* The steps of the price                                                  *)

PriceInv == now \in 0..MaxNow /\ StateOK(state, now)

LEMMA PriceInitially == PriceInit => PriceInv
  <1> SUFFICES ASSUME PriceInit PROVE PriceInv
    OBVIOUS
  <1>1. now = 0 /\ MaxNow \in Nat
    BY ClockAssumption DEF PriceInit
  <1>2. PICK fx : fx = EmptyBag
    OBVIOUS
  <1>3. DOMAIN fx = {} /\ fx = [e \in {} |-> 1]
    BY <1>2 DEF EmptyBag, SetToBag
  <1>4. EffectsOK(fx)
    BY <1>3, FS_EmptySet DEF EffectsOK, IsABag
  <1>5. state = [price |-> InitialPrice, updatedAt |-> 0, effects |-> fx]
    BY <1>2 DEF PriceInit
  <1>6. /\ state.price = InitialPrice /\ state.updatedAt = 0 /\ state.effects = fx
        /\ state = [price |-> state.price, updatedAt |-> state.updatedAt,
                    effects |-> state.effects]
    BY <1>5
  <1>7. InitialPrice \in Nat \ {0} /\ \E k \in Nat \ {0} : InitialPrice = k * TickSize
    BY PriceAssumption
  <1>8. StateOK(state, now)
    BY <1>1, <1>4, <1>6, <1>7 DEF StateOK
  <1> QED
    BY <1>1, <1>8 DEF PriceInv

LEMMA ReadStep ==
    ASSUME PriceInv, Current, UNCHANGED now
    PROVE  PriceInv'
  <1>1. now \in Nat /\ now' = now /\ StateOK(state, now) /\ now \in 0..now /\ now' \in 0..MaxNow
    BY DEF PriceInv
  <1>2. StateOK(Refreshed(state, now), now)
    BY <1>1, RefreshedState
  <1>3. state' = Refreshed(state, now)
    BY DEF Current
  <1>4. StateOK(state, now)'
    BY <1>1, <1>2, <1>3 DEF StateOK
  <1> QED
    BY <1>1, <1>4 DEF PriceInv

LEMMA OrderStep ==
    ASSUME PriceInv, NEW m \in Moves, Apply(m), UNCHANGED now
    PROVE  PriceInv'
  <1>1. now \in Nat /\ now' = now /\ StateOK(state, now) /\ now \in 0..now /\ now' \in 0..MaxNow
    BY DEF PriceInv
  <1>2. PICK s, p, fx :
           /\ s = Refreshed(state, now) /\ p = Moved(s.price, m * 10) /\ fx = s.effects
    OBVIOUS
  <1>3. StateOK(s, now)
    BY <1>1, <1>2, RefreshedState
  <1>4. state' = [s EXCEPT !.price = p, !.updatedAt = now]
    BY <1>2 DEF Apply
  <1>5. state' = [price |-> p, updatedAt |-> now, effects |-> fx]
    BY <1>2, <1>3, <1>4 DEF StateOK
  <1>6. p \in Nat \ {0} /\ \E k \in Nat \ {0} : p = k * TickSize
    <2>1. m * 10 \in Int
      BY MovesAssumption
    <2>2. s.price \in Nat \ {0} /\ \E k \in Nat \ {0} : s.price = k * TickSize
      BY <1>3 DEF StateOK
    <2> QED
      BY <1>2, <2>1, <2>2, MovedPrice
  <1>7. EffectsOK(fx)
    BY <1>2, <1>3 DEF StateOK
  <1>8. StateOK(state', now')
    BY <1>1, <1>5, <1>6, <1>7 DEF StateOK
  <1> QED
    BY <1>1, <1>8 DEF PriceInv

LEMMA ShockStep ==
    ASSUME PriceInv, NEW pct \in Shocks, NEW d \in Durations, NEW t \in OccursAt,
           TriggerShock(pct, d, t), UNCHANGED now
    PROVE  PriceInv'
  <1>1. /\ now \in Nat /\ now' = now /\ StateOK(state, now) /\ now' \in 0..MaxNow
        /\ t \in 0..now /\ t \in Nat
    BY DEF PriceInv, OccursAt
  <1>2. PICK s, shock, x, p, fx, live :
           /\ s = Refreshed(state, t) /\ shock = Clamp(pct, -35, 35)
           /\ x = [shock |-> shock, from |-> t, until |-> t + d]
           /\ p = Moved(s.price, shock * 1000)
           /\ fx = s.effects (+) SetToBag({x}) /\ live = Live(fx, t)
    OBVIOUS
  <1>3. StateOK(s, now)
    BY <1>1, <1>2, RefreshedState
  <1>4. state' = [price |-> p, updatedAt |-> t, effects |-> live]
    BY <1>2 DEF TriggerShock
  <1>5. shock \in -35..35
    BY <1>2, MovesAssumption DEF Clamp
  <1>6. p \in Nat \ {0} /\ \E k \in Nat \ {0} : p = k * TickSize
    <2>1. shock * 1000 \in Int
      BY <1>5
    <2>2. s.price \in Nat \ {0} /\ \E k \in Nat \ {0} : s.price = k * TickSize
      BY <1>3 DEF StateOK
    <2> QED
      BY <1>2, <2>1, <2>2, MovedPrice
  <1>7. x \in Effect /\ x.from < x.until
    <2>1. d \in Nat \ {0}
      BY ClockAssumption
    <2>2. t + d \in Nat /\ t < t + d
      BY <1>1, <2>1
    <2> QED
      BY <1>1, <1>2, <1>5, <2>2 DEF Effect
  <1>8. EffectsOK(live)
    <2>1. EffectsOK(s.effects)
      BY <1>3 DEF StateOK
    <2>2. EffectsOK(fx)
      BY <1>2, <1>7, <2>1, ShockedEffects
    <2> QED
      BY <1>1, <1>2, <2>2, LiveEffects
  <1>9. StateOK(state', now')
    BY <1>1, <1>4, <1>6, <1>8 DEF StateOK
  <1> QED
    BY <1>1, <1>9 DEF PriceInv

LEMMA TimeStep ==
    ASSUME PriceInv, Advance
    PROVE  PriceInv'
  <1>1. now \in Nat /\ now' = now + 1 /\ now' \in 0..MaxNow /\ state' = state
    BY ClockAssumption DEF PriceInv, Advance
  <1>2. StateOK(state', now')
    BY <1>1 DEF PriceInv, StateOK
  <1> QED
    BY <1>1, <1>2 DEF PriceInv

LEMMA PriceStep == PriceInv /\ [Next]_vars => PriceInv'
  <1> SUFFICES ASSUME PriceInv, [Next]_vars PROVE PriceInv'
    OBVIOUS
  <1>1. ASSUME UNCHANGED priceVars PROVE PriceInv'
    BY <1>1 DEF priceVars, PriceInv, StateOK
  <1>2. ASSUME NEW m \in Moves, PlaceOrder(m) PROVE PriceInv'
    BY <1>2, OrderStep DEF PlaceOrder
  <1>3. CASE CancelOrder \/ ReadPrice \/ Request \/ Refresh
    BY <1>3, ReadStep DEF CancelOrder, ReadPrice, Request, Refresh, SendMarketState
  <1>4. ASSUME NEW pct \in Shocks, NEW d \in Durations, NEW t \in OccursAt,
               TriggerMarketEvent(pct, d, t)
        PROVE  PriceInv'
    BY <1>4, ShockStep DEF TriggerMarketEvent
  <1>5. CASE Passes
    BY <1>5, TimeStep DEF Passes
  <1>6. CASE Open \/ Sent \/ Forward \/ RequestPortfolio \/ UNCHANGED vars
    BY <1>1, <1>6 DEF Open, Sent, Forward, RequestPortfolio, vars
  <1>7. ASSUME NEW p \in coming, ApplyActionResponse(p) PROVE PriceInv'
    BY <1>1, <1>7 DEF ApplyActionResponse
  <1> QED
    BY <1>2, <1>3, <1>4, <1>5, <1>6, <1>7 DEF Next, Market, Stream

LEMMA PriceHolds == Spec => []PriceInv
  <1>1. Init => PriceInv
    BY PriceInitially DEF Init
  <1> QED
    BY <1>1, PriceStep, PTL DEF Spec

(* How long the price has drifted.                                         *)
DriftInv == drifted \in Nat /\ events \in Nat /\ DriftCountsTimeOnce

(* Refreshing at t and setting the time of the price.                      *)
LEMMA DriftAt ==
    ASSUME PriceInv, NEW t \in 0..now, Drifts(Refreshed(state, t), t), drifted \in Nat
    PROVE  /\ drifted' \in Nat
           /\ drifted' = drifted \/ (t > state.updatedAt /\ drifted' = drifted + (t - state.updatedAt))
           /\ drifted' - Refreshed(state, t).updatedAt = drifted - state.updatedAt
  <1>1. PICK s, since : s = Refreshed(state, t) /\ since = state.updatedAt
    OBVIOUS
  <1>2. now \in Nat /\ StateOK(state, now) /\ since \in Nat /\ t \in Nat
    BY <1>1 DEF PriceInv, StateOK
  <1>3. \/ s.price = state.price /\ s.updatedAt = since
        \/ s.price # state.price /\ s.updatedAt = t /\ t > since
    BY <1>1, <1>2, RefreshedTime
  <1>4. drifted' = IF s.price = state.price THEN drifted ELSE drifted + (t - since)
    BY <1>1 DEF Drifts
  <1>5. CASE s.price = state.price
    BY <1>1, <1>2, <1>3, <1>4, <1>5
  <1>6. CASE s.price # state.price
    BY <1>1, <1>2, <1>3, <1>4, <1>6
  <1> QED
    BY <1>5, <1>6

LEMMA DriftStep == PriceInv /\ DriftInv /\ [Next]_vars => DriftInv'
  <1> SUFFICES ASSUME PriceInv, DriftInv, [Next]_vars PROVE DriftInv'
    OBVIOUS
  <1>0. /\ now \in Nat /\ now \in 0..now /\ Lag \in Nat /\ drifted \in Nat /\ events \in Nat
        /\ state.updatedAt \in Nat /\ state.updatedAt <= now
    BY ClockAssumption DEF PriceInv, StateOK, DriftInv
  <1>1. PICK late \in Nat : late = Lag * events /\ drifted <= state.updatedAt + late
    BY <1>0 DEF DriftInv, DriftCountsTimeOnce
  <1>2. ASSUME UNCHANGED <<state, drifted, events>> PROVE DriftInv'
    BY <1>2 DEF DriftInv, DriftCountsTimeOnce
  <1>3. ASSUME NEW m \in Moves, PlaceOrder(m) PROVE DriftInv'
    <2>1. Drifts(Refreshed(state, now), now) /\ events' = events
      BY <1>3 DEF PlaceOrder, Apply
    <2>2. state'.updatedAt = now
      <3>1. PICK s, p : s = Refreshed(state, now) /\ p = Moved(s.price, m * 10)
        OBVIOUS
      <3>2. state' = [s EXCEPT !.price = p, !.updatedAt = now]
        BY <1>3, <3>1 DEF PlaceOrder, Apply
      <3>3. StateOK(s, now)
        BY <1>0, <3>1, RefreshedState DEF PriceInv
      <3>4. state' = [price |-> p, updatedAt |-> now, effects |-> s.effects]
        BY <3>2, <3>3 DEF StateOK
      <3> QED
        BY <3>4
    <2>3. drifted' \in Nat /\ drifted' <= now + late
      BY <1>0, <1>1, <2>1, DriftAt
    <2> QED
      BY <1>0, <1>1, <2>1, <2>2, <2>3 DEF DriftInv, DriftCountsTimeOnce
  <1>4. CASE CancelOrder \/ ReadPrice \/ Request \/ Refresh
    <2>1. state' = Refreshed(state, now) /\ Drifts(Refreshed(state, now), now) /\ events' = events
      BY <1>4 DEF CancelOrder, ReadPrice, Request, Refresh, SendMarketState, Current
    <2>2. drifted' \in Nat /\ drifted' - state'.updatedAt = drifted - state.updatedAt
      BY <1>0, <2>1, DriftAt
    <2>3. state'.updatedAt \in Nat
      BY <1>0, <2>1, RefreshedState DEF PriceInv, StateOK
    <2>4. drifted' <= state'.updatedAt + late
      BY <1>0, <1>1, <2>2, <2>3
    <2> QED
      BY <1>0, <1>1, <2>1, <2>2, <2>4 DEF DriftInv, DriftCountsTimeOnce
  <1>5. ASSUME NEW pct \in Shocks, NEW d \in Durations, NEW t \in OccursAt,
               TriggerMarketEvent(pct, d, t)
        PROVE  DriftInv'
    <2>1. Drifts(Refreshed(state, t), t) /\ events' = events + 1 /\ state'.updatedAt = t
      BY <1>5 DEF TriggerMarketEvent, TriggerShock
    <2>2. t \in 0..now /\ now <= t + Lag
      BY DEF OccursAt
    <2>3. drifted' \in Nat /\ drifted' <= t + late + Lag
      BY <1>0, <1>1, <2>1, <2>2, DriftAt
    <2>4. Lag * (events + 1) = late + Lag
      BY <1>0, <1>1
    <2>5. drifted' <= state'.updatedAt + Lag * events'
      BY <1>0, <1>1, <2>1, <2>2, <2>3, <2>4
    <2> QED
      BY <1>0, <2>1, <2>3, <2>5 DEF DriftInv, DriftCountsTimeOnce
  <1>6. CASE Passes
    BY <1>2, <1>6 DEF Passes, Advance
  <1>7. CASE Open \/ Sent \/ Forward \/ RequestPortfolio \/ UNCHANGED vars
    BY <1>2, <1>7 DEF Open, Sent, Forward, RequestPortfolio, priceVars, vars
  <1>8. ASSUME NEW p \in coming, ApplyActionResponse(p) PROVE DriftInv'
    BY <1>2, <1>8 DEF ApplyActionResponse, priceVars
  <1> QED
    BY <1>3, <1>4, <1>5, <1>6, <1>7, <1>8 DEF Next, Market, Stream

LEMMA DriftHolds == Spec => []DriftInv
  <1>1. Init => DriftInv
    <2>1. Init => drifted = 0 /\ events = 0 /\ state.updatedAt = 0
      BY DEF Init, PriceInit
    <2>2. Lag \in Nat /\ Lag * 0 = 0
      BY ClockAssumption
    <2> QED
      BY <2>1, <2>2 DEF DriftInv, DriftCountsTimeOnce
  <1> QED
    BY <1>1, PriceHolds, DriftStep, PTL DEF Spec

(* However often the price is read and whoever reads it, it drifts for no  *)
(* more time than has passed (refreshStateLocked), but for what late       *)
(* events set its time back by (TriggerShock), Lag for each at most.       *)
THEOREM TimeCountsOnce == Spec => []DriftCountsTimeOnce
  <1>1. DriftInv => DriftCountsTimeOnce
    BY DEF DriftInv
  <1> QED
    BY <1>1, DriftHolds, PTL

(* Reading twice at one time gives one price (refreshStateLocked), also    *)
(* after an event that was applied late and set the time of the price back. *)
THEOREM ReadingsAgree == Spec => []ReadsAgree
  <1>1. PriceInv => ReadsAgree
    <2> SUFFICES ASSUME PriceInv PROVE ReadsAgree
      OBVIOUS
    <2>1. now \in Nat /\ now \in 0..now /\ StateOK(state, now)
      BY DEF PriceInv
    <2>2. Refreshed(Refreshed(state, now), now).price = Refreshed(state, now).price
      BY <2>1, RefreshedState
    <2> QED
      BY <2>2 DEF ReadsAgree
  <1> QED
    BY <1>1, PriceHolds, PTL

(* Effects pull the price their way and no other, however many there are,  *)
(* whatever the tick and however prices are rounded on the way.            *)
THEOREM DriftIsPulled == Spec => []DriftFollowsEffects
  <1>1. PriceInv => DriftFollowsEffects
    <2> SUFFICES ASSUME PriceInv PROVE DriftFollowsEffects
      OBVIOUS
    <2>1. now \in Nat /\ now \in 0..now /\ StateOK(state, now)
      BY DEF PriceInv
    <2>2. PICK live : live = {e \in DOMAIN state.effects : e.until > now}
      OBVIOUS
    <2>3. DOMAIN Live(state.effects, now) = live
      BY <2>1, <2>2, LiveEffects DEF StateOK
    <2>4. /\ (\A e \in live : e.shock >= 0) => Refreshed(state, now).price >= state.price
          /\ (\A e \in live : e.shock <= 0) => Refreshed(state, now).price <= state.price
      BY <2>1, <2>3, RefreshedState
    <2> QED
      BY <2>2, <2>4 DEF DriftFollowsEffects
  <1> QED
    BY <1>1, PriceHolds, PTL

----------------------------------------------------------------------------
(* Types                                                                   *)

FeedTypes ==
    /\ book \in 0..MaxChanges /\ events \in 0..MaxChanges /\ account \in 0..book
    /\ phase \in {"closed", "open", "sending", "serving"}
    /\ feed \in Seq(Message) /\ Len(feed) <= FeedCap
    /\ dropped \in BOOLEAN
    /\ view \in View
    /\ coming \subseteq 0..MaxChanges /\ portfolio \in 0..MaxChanges

LEMMA PublishTypes ==
    ASSUME FeedTypes, NEW m \in Message, Publish(m)
    PROVE  feed' \in Seq(Message) /\ Len(feed') <= FeedCap /\ dropped' \in BOOLEAN
  <1>1. feed' \in Seq(Message) /\ Len(feed') <= FeedCap
    <2>1. CASE Listens /\ Len(feed) < FeedCap
      <3>1. feed' = Append(feed, m) /\ feed \in Seq(Message)
        BY <2>1 DEF Publish, FeedTypes
      <3>2. feed' \in Seq(Message) /\ Len(feed') = Len(feed) + 1 /\ Len(feed) \in Nat
        BY <3>1
      <3> QED
        BY <2>1, <3>2, FeedAssumption
    <2>2. CASE ~(Listens /\ Len(feed) < FeedCap)
      BY <2>2 DEF Publish, FeedTypes
    <2> QED
      BY <2>1, <2>2
  <1>2. dropped' \in BOOLEAN
    BY DEF Publish, FeedTypes
  <1> QED
    BY <1>1, <1>2

LEMMA FeedTypesStep == FeedTypes /\ PriceInv /\ PriceInv' /\ [Next]_vars => FeedTypes'
  <1> SUFFICES ASSUME FeedTypes, PriceInv, PriceInv', [Next]_vars PROVE FeedTypes'
    OBVIOUS
  <1> USE DEF streamVars, playerVars
  <1>1. /\ book \in Nat /\ events \in Nat /\ MaxChanges \in Nat /\ book <= MaxChanges
        /\ events <= MaxChanges
    BY FeedAssumption DEF FeedTypes
  <1>2. state'.price \in Nat
    BY DEF PriceInv, StateOK
  <1>3. \A b \in 0..MaxChanges : /\ [book |-> b, price |-> state'.price] \in Message
                                  /\ [book |-> b, price |-> state'.price] \in View
    BY <1>2 DEF Message, View
  <1>4. account \in 0..MaxChanges
    BY <1>1 DEF FeedTypes
  <1>5. ASSUME NEW m \in Moves, PlaceOrder(m) PROVE FeedTypes'
    <2>1. /\ book' = book + 1 /\ book + events < MaxChanges /\ account' = book'
          /\ Publish([book |-> book', price |-> state'.price])
          /\ coming' = coming \cup {book'} /\ UNCHANGED <<events, phase, view, portfolio>>
      BY <1>5 DEF PlaceOrder
    <2>2. book' \in 0..MaxChanges /\ account' \in 0..book'
      BY <1>1, <2>1
    <2>3. feed' \in Seq(Message) /\ Len(feed') <= FeedCap /\ dropped' \in BOOLEAN
      BY <1>3, <2>1, <2>2, PublishTypes
    <2>4. coming' \subseteq 0..MaxChanges
      BY <2>1, <2>2 DEF FeedTypes
    <2> QED
      BY <2>1, <2>2, <2>3, <2>4 DEF FeedTypes
  <1>6. CASE CancelOrder
    <2>1. /\ book' = book + 1 /\ book + events < MaxChanges /\ account' = book'
          /\ Publish([book |-> book', price |-> state'.price])
          /\ UNCHANGED <<events, phase, view, coming, portfolio>>
      BY <1>6 DEF CancelOrder
    <2>2. book' \in 0..MaxChanges /\ account' \in 0..book'
      BY <1>1, <2>1
    <2>3. feed' \in Seq(Message) /\ Len(feed') <= FeedCap /\ dropped' \in BOOLEAN
      BY <1>3, <2>1, <2>2, PublishTypes
    <2> QED
      BY <2>1, <2>2, <2>3 DEF FeedTypes
  <1>7. ASSUME NEW pct \in Shocks, NEW d \in Durations, NEW t \in OccursAt,
               TriggerMarketEvent(pct, d, t)
        PROVE  FeedTypes'
    <2>1. /\ events' = events + 1 /\ book + events < MaxChanges
          /\ Publish([book |-> Unsaid, price |-> state'.price])
          /\ UNCHANGED <<book, account, phase, view, coming, portfolio>>
      BY <1>7 DEF TriggerMarketEvent
    <2>2. events' \in 0..MaxChanges
      BY <1>1, <2>1
    <2>3. feed' \in Seq(Message) /\ Len(feed') <= FeedCap /\ dropped' \in BOOLEAN
      <3>1. [book |-> Unsaid, price |-> state'.price] \in Message
        BY <1>2 DEF Message
      <3> QED
        BY <2>1, <3>1, PublishTypes
    <2> QED
      BY <2>1, <2>2, <2>3 DEF FeedTypes
  <1>8. CASE Request \/ Refresh
    <2>1. /\ phase' = "sending" /\ view' = [book |-> book, price |-> state'.price]
          /\ dropped' = (dropped /\ feed # <<>>) /\ coming' = coming \cup {account}
          /\ UNCHANGED <<book, events, account, feed, portfolio>>
      BY <1>8 DEF Request, Refresh, SendMarketState
    <2>2. view' \in View /\ dropped' \in BOOLEAN
      BY <1>1, <1>3, <2>1 DEF FeedTypes
    <2>3. coming' \subseteq 0..MaxChanges
      BY <1>4, <2>1 DEF FeedTypes
    <2> QED
      BY <2>1, <2>2, <2>3 DEF FeedTypes
  <1>9. CASE Forward
    <2>1. /\ feed # <<>> /\ feed' = Tail(feed) /\ feed \in Seq(Message)
          /\ view' = [book |-> IF Head(feed).book = Unsaid THEN view.book ELSE Head(feed).book,
                      price |-> Head(feed).price]
          /\ UNCHANGED <<book, events, account, phase, dropped, coming, portfolio>>
      BY <1>9 DEF Forward, FeedTypes
    <2>2. /\ Head(feed) \in Message /\ Tail(feed) \in Seq(Message)
          /\ Len(Tail(feed)) = Len(feed) - 1 /\ Len(feed) \in Nat
      BY <2>1
    <2>3. Len(feed') <= FeedCap
      BY <2>1, <2>2, FeedAssumption DEF FeedTypes
    <2>4. view' \in View
      BY <2>1, <2>2 DEF Message, View, FeedTypes
    <2> QED
      BY <2>1, <2>2, <2>3, <2>4 DEF FeedTypes
  <1>10. CASE Open \/ Sent
    BY <1>10 DEF Open, Sent, FeedTypes
  <1>11. CASE RequestPortfolio
    BY <1>4, <1>11 DEF RequestPortfolio, FeedTypes
  <1>12. ASSUME NEW p \in coming, ApplyActionResponse(p) PROVE FeedTypes'
    BY <1>12 DEF ApplyActionResponse, Show, FeedTypes
  <1>13. CASE ReadPrice \/ Passes \/ UNCHANGED vars
    BY <1>13 DEF ReadPrice, Passes, vars, FeedTypes
  <1> QED
    BY <1>5, <1>6, <1>7, <1>8, <1>9, <1>10, <1>11, <1>12, <1>13 DEF Next, Market, Stream

LEMMA TypesHold == Spec => []FeedTypes
  <1>1. Init => FeedTypes
    <2>1. <<>> \in Seq(Message) /\ Len(<<>>) = 0
      OBVIOUS
    <2>2. Nothing \in View
      BY FeedAssumption DEF Nothing, View
    <2>3. 0 \in 0..MaxChanges /\ 0 <= FeedCap /\ 0 \in 0..0 /\ {} \subseteq 0..MaxChanges
      BY FeedAssumption
    <2> QED
      BY <2>1, <2>2, <2>3 DEF Init, FeedTypes
  <1> QED
    BY <1>1, FeedTypesStep, PriceHolds, PTL DEF Spec

(* Every variable has its type: prices stay positive whatever moves them,  *)
(* their time never runs ahead, and the channel keeps to its capacity.     *)
THEOREM TypeCorrect == Spec => []TypeOK
  <1>1. FeedTypes /\ PriceInv /\ DriftInv => TypeOK
    BY DEF FeedTypes, PriceInv, StateOK, EffectsOK, DriftInv, TypeOK
  <1> QED
    BY <1>1, TypesHold, PriceHolds, DriftHolds, PTL

----------------------------------------------------------------------------
(* The feed                                                                *)

(* No message after the n-th tells of the book.                            *)
Silent(q, n) == \A i \in 1..Len(q) : i > n => q[i].book = Unsaid

LastTold(q, b) ==
    \A n \in 1..Len(q) : q[n].book # Unsaid /\ Silent(q, n) => q[n].book = b

LEMMA Added ==
    ASSUME NEW S, NEW q \in Seq(S), NEW m, NEW b, m.book # Unsaid
    PROVE  m.book = b => LastTold(Append(q, m), b) /\ ~Silent(Append(q, m), 0)
  <1>1. PICK n \in Nat : n = Len(q)
    OBVIOUS
  <1>2. PICK all : all = Append(q, m)
    OBVIOUS
  <1>3. Len(all) = n + 1 /\ all[n + 1] = m
    BY <1>1, <1>2
  <1>4. ~Silent(all, 0)
    BY <1>3 DEF Silent
  <1>5. ASSUME NEW k \in 1..(n + 1), Silent(all, k) PROVE k = n + 1
    BY <1>3, <1>5 DEF Silent
  <1>6. m.book = b => LastTold(all, b)
    BY <1>3, <1>5 DEF LastTold
  <1> QED
    BY <1>2, <1>4, <1>6

LEMMA AddedSilently ==
    ASSUME NEW S, NEW q \in Seq(S), NEW m, NEW b, m.book = Unsaid
    PROVE  /\ LastTold(q, b) => LastTold(Append(q, m), b)
           /\ Silent(Append(q, m), 0) => Silent(q, 0)
  <1>1. PICK n \in Nat : n = Len(q)
    OBVIOUS
  <1>2. PICK all : all = Append(q, m)
    OBVIOUS
  <1>3. Len(all) = n + 1 /\ all[n + 1] = m /\ \A i \in 1..n : all[i] = q[i]
    BY <1>1, <1>2
  <1>4. ASSUME NEW k \in Nat, Silent(all, k) PROVE Silent(q, k)
    BY <1>1, <1>3, <1>4 DEF Silent
  <1>5. ASSUME LastTold(q, b), NEW k \in 1..(n + 1), all[k].book # Unsaid, Silent(all, k)
        PROVE  all[k].book = b
    <2>1. k \in 1..n
      BY <1>3, <1>5
    <2>2. Silent(q, k)
      BY <1>4, <1>5
    <2> QED
      BY <1>1, <1>3, <1>5, <2>1, <2>2 DEF LastTold
  <1>6. LastTold(q, b) => LastTold(all, b)
    BY <1>3, <1>5 DEF LastTold
  <1> QED
    BY <1>2, <1>4, <1>6

LEMMA TakenOut ==
    ASSUME NEW S, NEW q \in Seq(S), q # <<>>, NEW b
    PROVE  /\ LastTold(q, b) => LastTold(Tail(q), b)
           /\ Silent(Tail(q), 0) /\ Head(q).book = Unsaid => Silent(q, 0)
           /\ Silent(Tail(q), 0) /\ Head(q).book # Unsaid /\ LastTold(q, b) => Head(q).book = b
  <1>1. PICK n \in Nat : n + 1 = Len(q)
    <2>1. Len(q) \in Nat \ {0}
      OBVIOUS
    <2> QED
      BY <2>1
  <1>2. PICK rest : rest = Tail(q)
    OBVIOUS
  <1>3. Len(rest) = n /\ Head(q) = q[1] /\ \A i \in 1..n : rest[i] = q[i + 1]
    BY <1>1, <1>2
  <1>4. ASSUME NEW k \in Nat, Silent(rest, k) PROVE Silent(q, k + 1)
    <2>1. ASSUME NEW i \in 1..(n + 1), i > k + 1 PROVE q[i].book = Unsaid
      <3>1. i - 1 \in 1..n /\ i - 1 > k /\ (i - 1) + 1 = i
        BY <2>1
      <3>2. rest[i - 1].book = Unsaid
        BY <1>3, <1>4, <3>1 DEF Silent
      <3> QED
        BY <1>3, <3>1, <3>2
    <2> QED
      BY <1>1, <2>1 DEF Silent
  <1>5. ASSUME LastTold(q, b), NEW k \in 1..n, rest[k].book # Unsaid, Silent(rest, k)
        PROVE  rest[k].book = b
    <2>1. Silent(q, k + 1) /\ k + 1 \in 1..(n + 1) /\ q[k + 1] = rest[k]
      BY <1>3, <1>4, <1>5
    <2> QED
      BY <1>1, <1>5, <2>1 DEF LastTold
  <1>6. LastTold(q, b) => LastTold(rest, b)
    BY <1>3, <1>5 DEF LastTold
  <1>7. ASSUME Silent(rest, 0) PROVE Silent(q, 1)
    BY <1>4, <1>7
  <1>8. Silent(rest, 0) /\ Head(q).book = Unsaid => Silent(q, 0)
    BY <1>1, <1>3, <1>7 DEF Silent
  <1>9. Silent(rest, 0) /\ Head(q).book # Unsaid /\ LastTold(q, b) => Head(q).book = b
    <2>1. 1 \in 1..(n + 1)
      OBVIOUS
    <2> QED
      BY <1>1, <1>3, <1>7, <2>1 DEF LastTold
  <1> QED
    BY <1>2, <1>6, <1>8, <1>9

(* Nothing is in the channel of a stream that is not open.  As long as     *)
(* nothing was lost, the last message in it that tells of the book tells   *)
(* of it as it is; without such a message, what was said before does.      *)
FeedInv ==
    /\ phase \in {"closed", "open", "sending", "serving"}
    /\ \E S : feed \in Seq(S)
    /\ phase = "closed" => feed = <<>>
    /\ ~dropped => LastTold(feed, book)
    /\ ~dropped /\ phase \in {"sending", "serving"} /\ Silent(feed, 0) => view.book = book

(* A message about the book as it is now keeps the invariant, whether the  *)
(* channel has room for it or not.                                         *)
LEMMA PublishKeepsUp ==
    ASSUME FeedInv, NEW m, m.book # Unsaid, m.book = book', Publish(m), UNCHANGED <<phase, view>>
    PROVE  FeedInv'
  <1>1. PICK S : feed \in Seq(S)
    BY DEF FeedInv
  <1>2. CASE Listens /\ Len(feed) < FeedCap
    <2>1. feed' = Append(feed, m)
      BY <1>2 DEF Publish
    <2>2. feed' \in Seq(S \cup {m})
      BY <1>1, <2>1
    <2>3. LastTold(feed', book') /\ ~Silent(feed', 0)
      BY <1>1, <2>1, Added
    <2> QED
      BY <1>2, <2>2, <2>3 DEF FeedInv, Listens
  <1>3. CASE Listens /\ ~(Len(feed) < FeedCap)
    BY <1>3 DEF FeedInv, Publish, Listens
  <1>4. CASE ~Listens
    <2>1. feed' = <<>> /\ phase' = "closed"
      BY <1>4 DEF FeedInv, Publish, Listens
    <2>2. LastTold(feed', book')
      BY <2>1 DEF LastTold
    <2> QED
      BY <1>1, <1>4, <2>1, <2>2 DEF FeedInv, Publish
  <1> QED
    BY <1>2, <1>3, <1>4

(* One that says nothing of it may be lost.                                *)
LEMMA PublishSilently ==
    ASSUME FeedInv, dropped \in BOOLEAN,
           NEW m, m.book = Unsaid, Publish(m), UNCHANGED <<phase, view, book>>
    PROVE  FeedInv'
  <1>1. PICK S : feed \in Seq(S)
    BY DEF FeedInv
  <1>2. dropped' = dropped
    BY DEF Publish, FeedInv
  <1>3. CASE Listens /\ Len(feed) < FeedCap
    <2>1. feed' = Append(feed, m)
      BY <1>3 DEF Publish
    <2>2. feed' \in Seq(S \cup {m})
      BY <1>1, <2>1
    <2>3. (LastTold(feed, book) => LastTold(feed', book)) /\ (Silent(feed', 0) => Silent(feed, 0))
      BY <1>1, <2>1, AddedSilently
    <2> QED
      BY <1>2, <1>3, <2>2, <2>3 DEF FeedInv, Listens
  <1>4. CASE ~(Listens /\ Len(feed) < FeedCap)
    BY <1>2, <1>4 DEF FeedInv, Publish
  <1> QED
    BY <1>3, <1>4

LEMMA NextFeed == FeedInv /\ FeedTypes /\ [Next]_vars => FeedInv'
  <1> SUFFICES ASSUME FeedInv, FeedTypes, [Next]_vars PROVE FeedInv'
    OBVIOUS
  <1> USE DEF streamVars, playerVars
  <1>0. book \in Nat /\ book + 1 # Unsaid
    BY FeedAssumption DEF FeedTypes, Unsaid
  <1>1. ASSUME NEW m \in Moves, PlaceOrder(m) PROVE FeedInv'
    <2>1. /\ Publish([book |-> book', price |-> state'.price]) /\ UNCHANGED <<phase, view>>
          /\ book' = book + 1
      BY <1>1 DEF PlaceOrder
    <2> QED
      BY <1>0, <2>1, PublishKeepsUp
  <1>2. CASE CancelOrder
    <2>1. /\ Publish([book |-> book', price |-> state'.price]) /\ UNCHANGED <<phase, view>>
          /\ book' = book + 1
      BY <1>2 DEF CancelOrder
    <2> QED
      BY <1>0, <2>1, PublishKeepsUp
  <1>3. ASSUME NEW pct \in Shocks, NEW d \in Durations, NEW t \in OccursAt,
               TriggerMarketEvent(pct, d, t)
        PROVE  FeedInv'
    <2>1. Publish([book |-> Unsaid, price |-> state'.price]) /\ UNCHANGED <<phase, view, book>>
      BY <1>3 DEF TriggerMarketEvent
    <2>2. dropped \in BOOLEAN
      BY DEF FeedTypes
    <2> QED
      BY <2>1, <2>2, PublishSilently
  <1>4. CASE Open
    BY <1>4 DEF Open, FeedInv
  <1>5. CASE Request \/ Refresh
    <2>1. /\ phase' = "sending" /\ view'.book = book /\ dropped' = (dropped /\ feed # <<>>)
          /\ feed' = feed /\ book' = book
      BY <1>5 DEF Request, Refresh, SendMarketState
    <2>2. CASE feed = <<>>
      BY <2>1, <2>2 DEF FeedInv, LastTold
    <2>3. CASE feed # <<>>
      BY <2>1, <2>3 DEF FeedInv
    <2> QED
      BY <2>2, <2>3
  <1>6. CASE Sent
    BY <1>6 DEF Sent, FeedInv
  <1>7. CASE Forward
    <2>1. PICK S : feed \in Seq(S)
      BY DEF FeedInv
    <2>2. /\ feed # <<>> /\ feed' = Tail(feed) /\ phase # "closed"
          /\ view'.book = IF Head(feed).book = Unsaid THEN view.book ELSE Head(feed).book
          /\ phase' = phase /\ dropped' = dropped /\ book' = book
      BY <1>7 DEF Forward
    <2>3. feed' \in Seq(S)
      BY <2>1, <2>2
    <2>4. /\ LastTold(feed, book) => LastTold(feed', book)
          /\ Silent(feed', 0) /\ Head(feed).book = Unsaid => Silent(feed, 0)
          /\ Silent(feed', 0) /\ Head(feed).book # Unsaid /\ LastTold(feed, book)
                => Head(feed).book = book
      BY <2>1, <2>2, TakenOut
    <2> QED
      BY <2>2, <2>3, <2>4 DEF FeedInv
  <1>8. ASSUME UNCHANGED <<book, streamVars>> PROVE FeedInv'
    BY <1>8 DEF FeedInv
  <1>9. ReadPrice \/ RequestPortfolio \/ Passes \/ UNCHANGED vars => UNCHANGED <<book, streamVars>>
    BY DEF ReadPrice, RequestPortfolio, Passes, vars
  <1>10. ASSUME NEW p \in coming, ApplyActionResponse(p) PROVE UNCHANGED <<book, streamVars>>
    BY <1>10 DEF ApplyActionResponse
  <1> QED
    BY <1>1, <1>2, <1>3, <1>4, <1>5, <1>6, <1>7, <1>8, <1>9, <1>10 DEF Next, Market, Stream

(* "publishes market updates to subscribers" (README.md:105): a client     *)
(* that has got everything its channel held knows the book, unless a       *)
(* change of it was lost since; events, which say nothing of it, may be.   *)
THEOREM NothingFallsBetween == Spec => []DrainedMeansCurrent
  <1>1. Init => FeedInv
    <2>1. <<>> \in Seq({})
      OBVIOUS
    <2> QED
      BY <2>1 DEF Init, FeedInv, LastTold
  <1>2. FeedInv => DrainedMeansCurrent
    BY DEF FeedInv, DrainedMeansCurrent, Silent
  <1> QED
    BY <1>1, <1>2, NextFeed, TypesHold, PTL DEF Spec
=============================================================================
