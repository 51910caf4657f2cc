----------------------------- MODULE PriceEngine -----------------------------
(***************************************************************************)
(* The price of one ticker (internal/exchange/price_engine.go).  It moves  *)
(* with every order (Apply) and every market event (TriggerShock); an      *)
(* event leaves an effect behind, and while it lasts every read (Current)  *)
(* lets the price drift.  Prices are whole numbers aligned to the tick.    *)
(*                                                                         *)
(* How far an order moves the price is any of Moves: the code computes it  *)
(* from volumes, depth and its own averages and cuts it to 3.5 percent.    *)
(* Drift is computed as in the code, in units of 1/100000.  The effects    *)
(* are a bag: they are added up, and their order makes no difference.      *)
(***************************************************************************)
EXTENDS Integers, Sequences, FiniteSets, SequencesExt, Bags

CONSTANTS InitialPrice, TickSize,
          Moves,      \* moves by an order, in basis points
          Shocks,     \* multiplierPct of market events
          Durations,  \* of their effects
          Unit,       \* seconds in a unit of time
          Lag,        \* how late an event may be applied: the scheduler's poll
          MaxNow      \* bound: time

ASSUME PriceAssumption ==
    /\ TickSize \in Nat \ {0} /\ InitialPrice \in Nat \ {0}
    /\ \E k \in 1..InitialPrice : InitialPrice = k * TickSize
ASSUME MovesAssumption == Moves \subseteq -350..350 /\ Shocks \subseteq Int
ASSUME ClockAssumption == /\ Durations \subseteq Nat \ {0} /\ Unit \in Nat \ {0}
                          /\ Lag \in Nat /\ MaxNow \in Nat

VARIABLES now,
          state,   \* the ticker's price, when it was last set, and its effects
          drifted  \* history: the spans of time the price has drifted for, added up

priceVars == <<now, state, drifted>>

Effect == [shock : -35..35, from : Nat, until : Nat]

Whole == 100000

Clamp(x, low, high) == IF x < low THEN low ELSE IF x > high THEN high ELSE x

AlignToTick(p) == IF p < TickSize THEN TickSize ELSE (p \div TickSize) * TickSize

(* The price p after a move of the given parts of Whole.                   *)
Moved(p, move) == AlignToTick((2 * p * (Whole + move) + Whole) \div (2 * Whole))

(* pruneExpiredLocked *)
Live(effects, t) == Restrict(effects, {e \in DOMAIN effects : e.until > t})

(* How much of its strength an effect has left: it wears off linearly.     *)
Left(e, t) == IF e.until > t THEN (600 * (e.until - t)) \div (e.until - e.from) ELSE 0

(* fault: the size of a shock counts, as it does for the volatility        *)
BiasBySize(effects, t) ==
    LET part(e) == effects[e] * ((IF e.shock < 0 THEN -e.shock ELSE e.shock) * Left(e, t))
    IN  Clamp(SumFunction([e \in DOMAIN effects |-> part(e)]), -45000, 45000)

(* activeBias *)
Bias(effects, t) ==
    LET part(e) == effects[e] * (e.shock * Left(e, t))
    IN  Clamp(SumFunction([e \in DOMAIN effects |-> part(e)]), -45000, 45000)

(* The drift between two readings.                                         *)
Step(effects, since, t) ==
    LET thousandths == Clamp(((t - since) * Unit * 1000) \div 30, 0, 180)
    IN  Clamp((Bias(effects, t) * thousandths) \div 1000, -1200, 1200)

(* fault: the time of the drift is not kept                                *)
RefreshedOpen(s, t) ==
    LET live == Live(s.effects, t)
    IN  IF t <= s.updatedAt THEN [s EXCEPT !.effects = live]
        ELSE [s EXCEPT !.effects = live, !.price = Moved(s.price, Step(live, s.updatedAt, t))]

(* refreshStateLocked *)
Refreshed(s, t) ==
    LET live == Live(s.effects, t)
        next == Moved(s.price, Step(live, s.updatedAt, t))
    IN  IF t <= s.updatedAt \/ Bias(live, t) = 0 \/ next = s.price
        THEN [s EXCEPT !.effects = live]
        ELSE [price |-> next, updatedAt |-> t, effects |-> live]

----------------------------------------------------------------------------

PriceInit ==
    /\ now = 0
    /\ state = [price |-> InitialPrice, updatedAt |-> 0, effects |-> EmptyBag]
    /\ drifted = 0

(* A refresh at t that moves the price has it drift since it was last set. *)
Drifts(s, t) ==
    drifted' = IF s.price = state.price THEN drifted ELSE drifted + (t - state.updatedAt)

(* An order is processed.                                                  *)
Apply(m) ==
    LET s == Refreshed(state, now)
    IN  /\ state' = [s EXCEPT !.price = Moved(s.price, m * 10), !.updatedAt = now]
        /\ Drifts(s, now)

(* A market event, with the time it was planned for.                       *)
TriggerShock(pct, duration, occurredAt) ==
    LET s == Refreshed(state, occurredAt)
        shock == Clamp(pct, -35, 35)
        effect == [shock |-> shock, from |-> occurredAt, until |-> occurredAt + duration]
    IN  /\ state' = [price |-> Moved(s.price, shock * 1000), updatedAt |-> occurredAt,
                     effects |-> Live(s.effects (+) SetToBag({effect}), occurredAt)]
        /\ Drifts(s, occurredAt)

(* A reader of the price moves it, too.                                    *)
Current == state' = Refreshed(state, now) /\ Drifts(state', now)

OccursAt == {t \in 0..now : now <= t + Lag}

Advance ==
    /\ now < MaxNow
    /\ now' = now + 1
    /\ UNCHANGED <<state, drifted>>

PriceNext ==
    \/ \E m \in Moves : Apply(m) /\ UNCHANGED now
    \/ \E pct \in Shocks, d \in Durations, t \in OccursAt : TriggerShock(pct, d, t) /\ UNCHANGED now
    \/ Current /\ UNCHANGED now
    \/ Advance

PriceSpec == PriceInit /\ [][PriceNext]_priceVars

----------------------------------------------------------------------------
(* Properties                                                              *)

(* Reading twice at one time gives one price, also right after an event    *)
(* that was applied late and set the time of the price back.               *)
ReadsAgree ==
    LET s == Refreshed(state, now) IN Refreshed(s, now).price = s.price

(* Effects pull the price their way and no other: when all of them point   *)
(* down no read raises the price, when all point up none lowers it, and    *)
(* when the last has ended the price rests.                                *)
DriftFollowsEffects ==
    LET live == {e \in DOMAIN state.effects : e.until > now}
        next == Refreshed(state, now).price
    IN  /\ (\A e \in live : e.shock <= 0) => next <= state.price
        /\ (\A e \in live : e.shock >= 0) => next >= state.price
=============================================================================
