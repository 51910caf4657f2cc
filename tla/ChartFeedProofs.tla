--------------------------- MODULE ChartFeedProofs ---------------------------
(***************************************************************************)
(* Proofs about ChartFeed, for any tickers and clients, any capacities and *)
(* any limits.                                                             *)
(***************************************************************************)
EXTENDS ChartFeed, SequenceTheorems, FiniteSetTheorems, TLAPS

Least(a, b) == IF a <= b THEN a ELSE b

(* The points of h are consecutive and end with the point at.              *)
Run(h, at) == \A i \in 1..Len(h) : h[i] = at - Len(h) + i

(* The newest points of a run are a run with the same end.                 *)
LEMMA NewestRun ==
    ASSUME NEW S, NEW h \in Seq(S), NEW at \in Nat, Run(h, at), NEW n \in Nat \ {0}
    PROVE  /\ Newest(h, n) \in Seq(S) /\ Run(Newest(h, n), at)
           /\ Len(Newest(h, n)) = Least(n, Len(h))
  <1>1. CASE Len(h) <= n
    BY <1>1 DEF Newest, Least
  <1>2. CASE ~(Len(h) <= n)
    <2> DEFINE k == Len(h) - n + 1
               b == SubSeq(h, k, Len(h))
    <2>1. Len(h) \in Nat /\ k \in 1..Len(h) /\ \A i \in k..Len(h) : h[i] \in S
      BY <1>2
    <2>2. /\ b \in Seq(S) /\ Len(b) = n
          /\ \A i \in 1..n : b[i] = h[k + i - 1]
      <3>1. b \in Seq(S) /\ Len(b) = Len(h) - k + 1
        BY <2>1
      <3>2. Len(b) = n
        BY <2>1, <3>1
      <3>3. \A i \in 1..n : b[i] = h[k + i - 1]
        BY <2>1
      <3> QED
        BY <3>1, <3>2, <3>3
    <2>3. ASSUME NEW i \in 1..n PROVE b[i] = at - n + i
      <3>1. k + i - 1 \in 1..Len(h)
        BY <1>2, <2>1
      <3>2. h[k + i - 1] = at - Len(h) + (k + i - 1)
        BY <3>1 DEF Run
      <3> QED
        BY <2>1, <2>2, <3>2
    <2>4. Newest(h, n) = b
      BY <1>2 DEF Newest
    <2>5. Least(n, Len(h)) = n
      BY <1>2, <2>1 DEF Least
    <2> HIDE DEF b, k
    <2> QED
      BY <2>2, <2>3, <2>4, <2>5 DEF Run
  <1> QED
    BY <1>1, <1>2

(* A run grows by the next point.                                          *)
LEMMA AppendRun ==
    ASSUME NEW S, NEW h \in Seq(S), NEW at \in Nat, Run(h, at), at + 1 \in S
    PROVE  /\ Append(h, at + 1) \in Seq(S) /\ Run(Append(h, at + 1), at + 1)
           /\ Len(Append(h, at + 1)) = Len(h) + 1
  <1> DEFINE b == Append(h, at + 1)
  <1>1. b \in Seq(S) /\ Len(b) = Len(h) + 1 /\ Len(h) \in Nat
    OBVIOUS
  <1>2. (\A i \in 1..Len(h) : b[i] = h[i]) /\ b[Len(h) + 1] = at + 1
    OBVIOUS
  <1> HIDE DEF b
  <1>3. ASSUME NEW i \in 1..Len(b) PROVE b[i] = at + 1 - Len(b) + i
    <2>1. CASE i = Len(h) + 1
      BY <1>1, <1>2, <2>1
    <2>2. CASE i # Len(h) + 1
      <3>1. i \in 1..Len(h)
        BY <1>1, <2>2
      <3>2. h[i] = at - Len(h) + i
        BY <3>1 DEF Run
      <3> QED
        BY <1>1, <1>2, <3>1, <3>2
    <2> QED
      BY <2>1, <2>2
  <1>4. Run(b, at + 1)
    BY <1>3 DEF Run
  <1> QED
    BY <1>1, <1>4 DEF b

----------------------------------------------------------------------------
(* The invariant                                                           *)

(* How many points a tick shows to client c.                               *)
Depth(c, at) ==
    IF LimitOf[c] = 0 THEN Least(HistoryLimit, at)
    ELSE Least(LimitOf[c], Least(HistoryLimit, at))

(* Ticks fit for client c.                                                 *)
Good(c) == {k \in Tick : Run(k.history, k.at) /\ Len(k.history) = Depth(c, k.at)}

Histories ==
    \A t \in Tickers : Run(history[t], made[t]) /\ Len(history[t]) = Least(HistoryLimit, made[t])

(* Wherever a tick is, it is fit for the client it is on its way to.       *)
TicksGood ==
    /\ \A s \in DOMAIN subs : /\ ch[s] \in Seq(Good(subs[s].client))
                              /\ hand[s] \in Seq(Good(subs[s].client))
    /\ \A s \in Subs \ DOMAIN subs : ch[s] = <<>> /\ hand[s] = <<>>
    /\ \A c \in Clients : out[c] \in Seq(Good(c))
    /\ \A c \in Clients, t \in Tickers : screen[c][t] \in Good(c)

IInv == TypeOK /\ Histories /\ TicksGood

LEMMA SubsInside ==
    ASSUME TypeOK
    PROVE  /\ DOMAIN subs \subseteq Subs /\ DOMAIN subs = 1..Len(subs) /\ Len(subs) \in Nat
           /\ \A s \in DOMAIN subs : subs[s] \in [client : Clients, ticker : Tickers, id : 0..MaxSubs]
  <1> DEFINE T == [client : Clients, ticker : Tickers, id : 0..MaxSubs]
  <1>1. subs \in Seq(T) /\ Len(subs) <= MaxSubs
    BY DEF TypeOK
  <1> HIDE DEF T
  <1>2. DOMAIN subs = 1..Len(subs) /\ Len(subs) \in Nat /\ \A s \in DOMAIN subs : subs[s] \in T
    BY <1>1
  <1>3. DOMAIN subs \subseteq Subs
    BY <1>1, <1>2, ChartAssumption DEF Subs
  <1> QED
    BY <1>2, <1>3 DEF T

LEMMA InitInvariant == Init => IInv
  <1> SUFFICES ASSUME Init PROVE IInv
    OBVIOUS
  <1>1. /\ DOMAIN <<>> = {} /\ Len(<<>>) = 0
        /\ \A S : <<>> \in Seq(S)
    OBVIOUS
  <1>2. ASSUME NEW c \in Clients, NEW t \in Tickers
        PROVE  [ticker |-> t, at |-> 0, history |-> <<>>] \in Good(c)
    <2>1. [ticker |-> t, at |-> 0, history |-> <<>>] \in Tick
      BY <1>1, ChartAssumption DEF Tick
    <2>2. LimitOf[c] \in Nat
      BY ChartAssumption
    <2>3. Depth(c, 0) = 0
      BY <2>2, ChartAssumption DEF Depth, Least
    <2>4. Run(<<>>, 0)
      BY <1>1 DEF Run
    <2> QED
      BY <1>1, <2>1, <2>3, <2>4 DEF Good
  <1>4. TypeOK
    <2>1. screen \in [Clients -> [Tickers -> Tick]]
      BY <1>2 DEF Init, Good
    <2>2. /\ history \in [Tickers -> Seq(1..MaxTicks)]
          /\ out \in [Clients -> Seq(Tick)]
          /\ ch \in [Subs -> Seq(Tick)] /\ hand \in [Subs -> Seq(Tick)]
      BY <1>1 DEF Init
    <2>3. subs \in Seq([client : Clients, ticker : Tickers, id : 0..MaxSubs]) /\ Len(subs) <= MaxSubs
      BY <1>1, ChartAssumption DEF Init
    <2>4. /\ \A t \in Tickers : Len(history[t]) <= HistoryLimit
          /\ \A x \in Subs : Len(ch[x]) <= ChanCap /\ Len(hand[x]) <= 1
          /\ \A c \in Clients : Len(out[c]) <= OutCap
      BY <1>1, ChartAssumption DEF Init
    <2>5. /\ made \in [Tickers -> 0..MaxTicks]
          /\ closed \subseteq DOMAIN subs
          /\ stream \in [Clients -> {"closed", "open", "ended"}]
      BY ChartAssumption DEF Init
    <2>8. down \in BOOLEAN
      BY DEF Init
    <2>6. /\ DOMAIN subscribers = Tickers
          /\ \A t \in Tickers : \A i \in DOMAIN subscribers[t] : subscribers[t][i] \in DOMAIN subs
      <3>1. \A t \in Tickers : subscribers[t] = <<>>
        BY DEF Init
      <3>2. \A t \in Tickers : DOMAIN subscribers[t] = {}
        BY <3>1, <1>1
      <3>3. DOMAIN subscribers = Tickers
        BY DEF Init
      <3> QED
        BY <3>2, <3>3
    <2>7. todo \in [Tickers -> SUBSET DOMAIN subs]
      BY DEF Init
    <2> QED
      BY <2>1, <2>2, <2>3, <2>4, <2>5, <2>6, <2>7, <2>8 DEF TypeOK
  <1>5. Histories
    BY <1>1, ChartAssumption DEF Init, Histories, Run, Least
  <1>6. TicksGood
    BY <1>1, <1>2 DEF Init, TicksGood
  <1> QED
    BY <1>4, <1>5, <1>6 DEF IInv

----------------------------------------------------------------------------
(* Every step keeps it                                                     *)

LEMMA ConnectInvariant ==
    ASSUME IInv, NEW c \in Clients, Connect(c)
    PROVE  IInv'
  BY DEF IInv, Connect, engineVars, TypeOK, Histories, TicksGood

LEMMA EndInvariant ==
    ASSUME IInv, NEW c \in Clients, End(c)
    PROVE  IInv'
  <1>1. /\ \A S : <<>> \in Seq(S)
        /\ Len(<<>>) = 0
    OBVIOUS
  <1> QED
    BY <1>1, ChartAssumption DEF IInv, End, engineVars, TypeOK, Histories, TicksGood

LEMMA SubscribeInvariant ==
    ASSUME IInv, NEW c \in Clients, NEW t \in Tickers, Subscribe(c, t)
    PROVE  IInv'
  <1> DEFINE n == Len(subs)
             T == [client : Clients, ticker : Tickers, id : 0..MaxSubs]
             new == [client |-> c, ticker |-> t, id |-> n]
  <1>1. /\ DOMAIN subs = 1..n /\ n \in Nat /\ subs \in Seq(T) /\ n < MaxSubs
        /\ DOMAIN subs \subseteq Subs
    BY SubsInside DEF IInv, TypeOK, Subscribe
  <1>2. new \in T
    BY <1>1, ChartAssumption
  <1>3. subs' = Append(subs, new)
    BY DEF Subscribe
  <1>4. /\ subs' \in Seq(T) /\ Len(subs') = n + 1 /\ DOMAIN subs' = 1..(n + 1)
        /\ subs'[n + 1] = new /\ \A s \in 1..n : subs'[s] = subs[s]
    <2> HIDE DEF new, T
    <2> QED
      BY <1>1, <1>2, <1>3
  <1>5. /\ UNCHANGED <<made, history, todo, closed, ch, hand, stream, out, screen, down>>
        /\ DOMAIN subscribers' = Tickers
        /\ \A x \in Tickers : \A i \in DOMAIN subscribers'[x] : subscribers'[x][i] \in DOMAIN subs'
    BY <1>1, <1>4 DEF IInv, TypeOK, Subscribe
  <1>6. DOMAIN subs \subseteq DOMAIN subs' /\ n + 1 <= MaxSubs
    BY <1>1, <1>4, ChartAssumption
  <1>7. TypeOK'
    BY <1>4, <1>5, <1>6 DEF IInv, TypeOK
  <1>8. Histories'
    BY <1>5 DEF IInv, Histories
  <1>9. TicksGood'
    <2>1. n + 1 \in Subs /\ n + 1 \notin DOMAIN subs
      BY <1>1, ChartAssumption DEF Subs
    <2>2. ch[n + 1] = <<>> /\ hand[n + 1] = <<>>
      BY <2>1 DEF IInv, TicksGood
    <2>3. ASSUME NEW s \in DOMAIN subs'
          PROVE  ch[s] \in Seq(Good(subs'[s].client)) /\ hand[s] \in Seq(Good(subs'[s].client))
      <3>1. CASE s = n + 1
        <4>1. \A S : <<>> \in Seq(S)
          OBVIOUS
        <4> HIDE DEF n
        <4> QED
          BY <2>2, <3>1, <4>1
      <3>2. CASE s # n + 1
        <4>1. s \in 1..n
          BY <1>1, <1>4, <3>2
        <4> QED
          BY <1>1, <1>4, <4>1 DEF IInv, TicksGood
      <3> QED
        BY <3>1, <3>2
    <2> HIDE DEF n, new
    <2> QED
      BY <1>4, <1>5, <1>6, <2>3 DEF IInv, TicksGood
  <1> QED
    BY <1>7, <1>8, <1>9 DEF IInv

LEMMA DisconnectInvariant ==
    ASSUME IInv, NEW s \in Subs, Disconnect(s)
    PROVE  IInv'
  <1>1. (\A S : <<>> \in Seq(S)) /\ Len(<<>>) = 0
    OBVIOUS
  <1>2. /\ UNCHANGED <<made, history, todo, subs, stream, out, screen, down>>
        /\ closed' \subseteq DOMAIN subs /\ s \in DOMAIN subs
        /\ ch' = [ch EXCEPT ![s] = <<>>] /\ hand' = [hand EXCEPT ![s] = <<>>]
    BY DEF Disconnect, IInv, TypeOK
  <1>3. subs[s].ticker \in Tickers
    BY <1>2, SubsInside DEF IInv
  <1>4. /\ DOMAIN subscribers' = Tickers
        /\ \A t \in Tickers : \A i \in DOMAIN subscribers'[t] : subscribers'[t][i] \in DOMAIN subs
    BY <1>2, <1>3 DEF Disconnect, Forget, IInv, TypeOK
  <1>5. \A r \in Subs : /\ ch'[r] = IF r = s THEN <<>> ELSE ch[r]
                        /\ hand'[r] = IF r = s THEN <<>> ELSE hand[r]
    <2>1. ch \in [Subs -> Seq(Tick)] /\ hand \in [Subs -> Seq(Tick)]
      BY DEF IInv, TypeOK
    <2>2. \A r \in Subs : ch'[r] = IF r = s THEN <<>> ELSE ch[r]
      BY <1>2, <2>1
    <2>3. \A r \in Subs : hand'[r] = IF r = s THEN <<>> ELSE hand[r]
      BY <1>2, <2>1
    <2> QED
      BY <2>2, <2>3
  <1>6. TypeOK'
    <2>1. ch' \in [Subs -> Seq(Tick)] /\ hand' \in [Subs -> Seq(Tick)]
      BY <1>1, <1>2 DEF IInv, TypeOK
    <2>2. ASSUME NEW r \in Subs PROVE Len(ch'[r]) <= ChanCap /\ Len(hand'[r]) <= 1
      <3>1. Len(ch[r]) <= ChanCap /\ Len(hand[r]) <= 1 /\ 0 <= ChanCap
        BY ChartAssumption DEF IInv, TypeOK
      <3>2. CASE r = s
        BY <1>1, <1>5, <3>1, <3>2
      <3>3. CASE r # s
        BY <1>5, <3>1, <3>3
      <3> QED
        BY <3>2, <3>3
    <2> QED
      BY <1>2, <1>4, <2>1, <2>2 DEF IInv, TypeOK
  <1>7. Histories'
    BY <1>2 DEF IInv, Histories
  <1>8. TicksGood'
    <2>1. DOMAIN subs \subseteq Subs
      BY SubsInside DEF IInv
    <2>2. ASSUME NEW r \in DOMAIN subs
          PROVE  ch'[r] \in Seq(Good(subs[r].client)) /\ hand'[r] \in Seq(Good(subs[r].client))
      <3>1. ch[r] \in Seq(Good(subs[r].client)) /\ hand[r] \in Seq(Good(subs[r].client))
        BY DEF IInv, TicksGood
      <3>2. CASE r = s
        BY <1>1, <1>5, <3>2
      <3>3. CASE r # s
        BY <1>5, <2>1, <3>1, <3>3
      <3> QED
        BY <3>2, <3>3
    <2>3. \A r \in Subs \ DOMAIN subs : ch'[r] = <<>> /\ hand'[r] = <<>>
      BY <1>2, <1>5 DEF IInv, TicksGood
    <2> QED
      BY <1>2, <2>2, <2>3 DEF IInv, TicksGood
  <1> QED
    BY <1>6, <1>7, <1>8 DEF IInv

(* A tick's point continues the history, and the trimmed history is still  *)
(* a run of the right length.                                              *)
LEMMA MakeTickInvariant ==
    ASSUME IInv, NEW t \in Tickers, MakeTick(t)
    PROVE  IInv'
  <1> DEFINE m == made[t]
             h == history[t]
             g == Append(h, m + 1)
  <1>1. /\ m \in 0..MaxTicks /\ m < MaxTicks /\ h \in Seq(1..MaxTicks)
        /\ Run(h, m) /\ Len(h) = Least(HistoryLimit, m)
    BY DEF IInv, TypeOK, Histories, MakeTick
  <1>2. m \in Nat /\ m + 1 \in 1..MaxTicks /\ m + 1 \in Nat /\ HistoryLimit \in Nat \ {0}
    BY <1>1, ChartAssumption
  <1>3. /\ made' = [made EXCEPT ![t] = m + 1]
        /\ history' = [history EXCEPT ![t] = Trimmed(g)]
        /\ UNCHANGED <<subscribers, subs, closed, ch, hand, stream, out, screen, down>>
        /\ todo' \in [Tickers -> SUBSET DOMAIN subs]
    <2>1. made' = [made EXCEPT ![t] = m + 1] /\ made'[t] = m + 1
      BY DEF MakeTick, IInv, TypeOK
    <2>2. history' = [history EXCEPT ![t] = Trimmed(g)]
      BY <2>1 DEF MakeTick
    <2>3. todo' \in [Tickers -> SUBSET DOMAIN subs]
      BY DEF MakeTick, IInv, TypeOK
    <2> QED
      BY <2>1, <2>2, <2>3 DEF MakeTick
  <1> HIDE DEF m, h
  <1>4. g \in Seq(1..MaxTicks) /\ Run(g, m + 1) /\ Len(g) = Len(h) + 1
    BY <1>1, <1>2, AppendRun
  <1> HIDE DEF g
  <1>5. /\ Trimmed(g) \in Seq(1..MaxTicks) /\ Run(Trimmed(g), m + 1)
        /\ Len(Trimmed(g)) = Least(HistoryLimit, Len(g))
    BY <1>2, <1>4, NewestRun DEF Trimmed
  <1>6. Len(Trimmed(g)) = Least(HistoryLimit, m + 1) /\ Len(Trimmed(g)) <= HistoryLimit
    BY <1>1, <1>2, <1>4, <1>5 DEF Least
  <1> DEFINE f == Trimmed(g)
  <1>7. f \in Seq(1..MaxTicks) /\ Run(f, m + 1) /\ Len(f) = Least(HistoryLimit, m + 1)
        /\ Len(f) <= HistoryLimit /\ history' = [history EXCEPT ![t] = f]
    BY <1>3, <1>5, <1>6
  <1> HIDE DEF f
  <1>8. TypeOK'
    BY <1>2, <1>3, <1>7 DEF IInv, TypeOK
  <1>9. Histories'
    BY <1>3, <1>7 DEF IInv, TypeOK, Histories
  <1>10. TicksGood'
    BY <1>3 DEF IInv, TicksGood
  <1> QED
    BY <1>8, <1>9, <1>10 DEF IInv

(* A tick is built fit for its subscriber.                                 *)
LEMMA TickBuilt ==
    ASSUME IInv, NEW s \in DOMAIN subs
    PROVE  BuildTick(s) \in Good(subs[s].client)
  <1> DEFINE c == subs[s].client
             t == subs[s].ticker
             h == history[t]
             l == LimitOf[c]
             k == IF l = 0 THEN h ELSE Newest(h, l)
  <1>1. c \in Clients /\ t \in Tickers
    BY SubsInside DEF IInv
  <1>2. l \in Nat /\ made[t] \in 0..MaxTicks /\ made[t] \in Nat
    <2>1. l \in Nat
      BY <1>1, ChartAssumption
    <2>2. made[t] \in 0..MaxTicks
      BY <1>1 DEF IInv, TypeOK
    <2> QED
      BY <2>1, <2>2
  <1>3. h \in Seq(1..MaxTicks) /\ Run(h, made[t]) /\ Len(h) = Least(HistoryLimit, made[t])
    BY <1>1 DEF IInv, TypeOK, Histories
  <1>4. BuildTick(s) = [ticker |-> t, at |-> made[t], history |-> k]
    BY DEF BuildTick
  <1>5. l = LimitOf[c]
    OBVIOUS
  <1> HIDE DEF c, t, h, l
  <1>6. k \in Seq(1..MaxTicks) /\ Run(k, made[t]) /\ Len(k) = Depth(c, made[t])
    <2>1. CASE l = 0
      BY <1>3, <1>5, <2>1 DEF Depth
    <2>2. CASE l # 0
      <3>1. /\ Newest(h, l) \in Seq(1..MaxTicks) /\ Run(Newest(h, l), made[t])
            /\ Len(Newest(h, l)) = Least(l, Len(h))
        BY <1>2, <1>3, <2>2, NewestRun
      <3> QED
        BY <1>3, <1>5, <2>2, <3>1 DEF Depth
    <2> QED
      BY <2>1, <2>2
  <1> HIDE DEF k
  <1>7. BuildTick(s) \in Tick
    BY <1>1, <1>2, <1>4, <1>6 DEF Tick
  <1>8. BuildTick(s) \in Good(c)
    BY <1>4, <1>6, <1>7 DEF Good
  <1> QED
    BY <1>8 DEF c

LEMMA EmitTickInvariant ==
    ASSUME IInv, NEW t \in Tickers, NEW s \in Subs, EmitTick(t, s)
    PROVE  IInv'
  <1> DEFINE c == subs[s].client
             k == BuildTick(s)
  <1>1. s \in DOMAIN subs
    BY DEF EmitTick, IInv, TypeOK
  <1>2. k \in Good(c) /\ Good(c) \subseteq Tick
    BY <1>1, TickBuilt DEF Good
  <1>3. /\ UNCHANGED <<made, history, subscribers, subs, closed, hand, stream, out, screen>>
        /\ todo' \in [Tickers -> SUBSET DOMAIN subs] /\ down' \in BOOLEAN
    <2>1. todo' \in [Tickers -> SUBSET DOMAIN subs]
      BY DEF EmitTick, IInv, TypeOK
    <2>2. down' \in BOOLEAN
      BY DEF EmitTick
    <2> QED
      BY <2>1, <2>2 DEF EmitTick
  <1>4. CASE ch' = ch
    BY <1>3, <1>4 DEF IInv, TypeOK, Histories, TicksGood
  <1>5. CASE Len(ch[s]) # ChanCap /\ ch' = [ch EXCEPT ![s] = Append(ch[s], k)]
    <2> DEFINE q == Append(ch[s], k)
    <2>1. /\ ch[s] \in Seq(Good(c)) /\ ch[s] \in Seq(Tick) /\ Len(ch[s]) <= ChanCap
      BY <1>1 DEF IInv, TypeOK, TicksGood
    <2> HIDE DEF c, k
    <2>2. q \in Seq(Good(c)) /\ q \in Seq(Tick) /\ Len(q) <= ChanCap
      <3>1. q \in Seq(Good(c)) /\ q \in Seq(Tick) /\ Len(q) = Len(ch[s]) + 1 /\ Len(ch[s]) \in Nat
        BY <1>2, <2>1
      <3> QED
        BY <1>5, <2>1, <3>1, ChartAssumption
    <2>3. ch' \in [Subs -> Seq(Tick)] /\ \A r \in Subs : ch'[r] = IF r = s THEN q ELSE ch[r]
      BY <1>5, <2>2 DEF IInv, TypeOK
    <2> HIDE DEF q
    <2>4. TypeOK'
      <3>1. \A r \in Subs : Len(ch'[r]) <= ChanCap /\ Len(hand'[r]) <= 1
        BY <1>3, <2>2, <2>3 DEF IInv, TypeOK
      <3> QED
        BY <1>3, <2>3, <3>1 DEF IInv, TypeOK
    <2>5. Histories'
      BY <1>3 DEF IInv, Histories
    <2>6. TicksGood'
      <3>1. DOMAIN subs \subseteq Subs
        BY SubsInside DEF IInv
      <3>2. \A r \in DOMAIN subs : ch'[r] \in Seq(Good(subs[r].client))
        BY <2>2, <2>3, <3>1 DEF IInv, TicksGood, c
      <3>3. \A r \in Subs \ DOMAIN subs : ch'[r] = <<>>
        BY <1>1, <2>3 DEF IInv, TicksGood
      <3> QED
        BY <1>3, <3>2, <3>3 DEF IInv, TicksGood
    <2> QED
      BY <2>4, <2>5, <2>6 DEF IInv
  <1> QED
    BY <1>4, <1>5 DEF EmitTick

(* Taking the first element of a channel, and what is left.                *)
LEMMA TakeFirst ==
    ASSUME NEW S, NEW q \in Seq(S), q # <<>>
    PROVE  /\ Head(q) \in S /\ <<Head(q)>> \in Seq(S) /\ Len(<<Head(q)>>) = 1
           /\ Tail(q) \in Seq(S) /\ Len(Tail(q)) = Len(q) - 1 /\ Len(q) \in Nat
  OBVIOUS

LEMMA TakeInvariant ==
    ASSUME IInv, NEW s \in Subs, Take(s)
    PROVE  IInv'
  <1> DEFINE c == subs[s].client
             k == <<Head(ch[s])>>
             q == Tail(ch[s])
  <1>1. /\ s \in DOMAIN subs /\ ch[s] # <<>>
        /\ ch' = [ch EXCEPT ![s] = q] /\ hand' = [hand EXCEPT ![s] = k]
        /\ UNCHANGED <<engineVars, stream, out, screen, down>>
    BY DEF Take
  <1>2. ch[s] \in Seq(Good(c)) /\ ch[s] \in Seq(Tick) /\ Len(ch[s]) <= ChanCap /\ ChanCap \in Nat
    BY <1>1, ChartAssumption DEF IInv, TypeOK, TicksGood
  <1>3. /\ k \in Seq(Good(c)) /\ k \in Seq(Tick) /\ Len(k) <= 1
        /\ q \in Seq(Good(c)) /\ q \in Seq(Tick) /\ Len(q) <= ChanCap
    <2> HIDE DEF c
    <2>1. /\ k \in Seq(Good(c)) /\ Len(k) = 1 /\ q \in Seq(Good(c))
          /\ Len(q) = Len(ch[s]) - 1 /\ Len(ch[s]) \in Nat
      BY <1>1, <1>2, TakeFirst
    <2>2. k \in Seq(Tick) /\ q \in Seq(Tick)
      BY <1>1, <1>2, TakeFirst
    <2> QED
      BY <1>2, <2>1, <2>2
  <1> HIDE DEF k, q
  <1>4. ch' \in [Subs -> Seq(Tick)] /\ hand' \in [Subs -> Seq(Tick)]
    BY <1>1, <1>3 DEF IInv, TypeOK
  <1>5. \A r \in Subs : ch'[r] = (IF r = s THEN q ELSE ch[r]) /\ hand'[r] = (IF r = s THEN k ELSE hand[r])
    BY <1>1 DEF IInv, TypeOK
  <1>6. TypeOK'
    <2>1. \A r \in Subs : Len(ch'[r]) <= ChanCap /\ Len(hand'[r]) <= 1
      BY <1>3, <1>5 DEF IInv, TypeOK
    <2> QED
      BY <1>1, <1>4, <2>1 DEF IInv, TypeOK, engineVars
  <1>7. Histories'
    BY <1>1 DEF IInv, Histories, engineVars
  <1>8. TicksGood'
    <2>1. DOMAIN subs \subseteq Subs
      BY SubsInside DEF IInv
    <2>2. \A r \in DOMAIN subs : ch'[r] \in Seq(Good(subs[r].client)) /\ hand'[r] \in Seq(Good(subs[r].client))
      BY <1>3, <1>5, <2>1 DEF IInv, TicksGood
    <2>3. \A r \in Subs \ DOMAIN subs : ch'[r] = <<>> /\ hand'[r] = <<>>
      BY <1>1, <1>5 DEF IInv, TicksGood
    <2> QED
      BY <1>1, <2>2, <2>3 DEF IInv, TicksGood, engineVars
  <1> QED
    BY <1>6, <1>7, <1>8 DEF IInv

LEMMA HandOverInvariant ==
    ASSUME IInv, NEW s \in Subs, HandOver(s)
    PROVE  IInv'
  <1> DEFINE c == subs[s].client
             q == out[c] \o hand[s]
  <1>1. /\ s \in DOMAIN subs /\ Len(out[c]) < OutCap
        /\ out' = [out EXCEPT ![c] = q] /\ hand' = [hand EXCEPT ![s] = <<>>]
        /\ UNCHANGED <<engineVars, ch, stream, screen, down>>
    BY DEF HandOver
  <1>2. c \in Clients
    BY <1>1, SubsInside DEF IInv
  <1>3. /\ out[c] \in Seq(Good(c)) /\ out[c] \in Seq(Tick)
        /\ hand[s] \in Seq(Good(c)) /\ hand[s] \in Seq(Tick) /\ Len(hand[s]) <= 1
    BY <1>1, <1>2 DEF IInv, TypeOK, TicksGood
  <1> HIDE DEF c
  <1>4. q \in Seq(Good(c)) /\ q \in Seq(Tick) /\ Len(q) <= OutCap
    <2>1. q \in Seq(Good(c)) /\ q \in Seq(Tick) /\ Len(q) = Len(out[c]) + Len(hand[s])
      BY <1>3
    <2>2. Len(out[c]) \in Nat /\ Len(hand[s]) \in Nat
      BY <1>3
    <2>3. Len(hand[s]) <= 1 /\ Len(out[c]) < OutCap /\ OutCap \in Nat
      BY <1>1, <1>3, ChartAssumption DEF c
    <2> HIDE DEF q
    <2>4. Len(q) <= OutCap
      <3>1. Len(q) = Len(out[c]) + Len(hand[s])
        BY <2>1
      <3>2. \A a, b, m \in Nat : a < m /\ b <= 1 => a + b <= m
        OBVIOUS
      <3>3. Len(out[c]) + Len(hand[s]) <= OutCap
        BY <2>2, <2>3, <3>2
      <3> QED
        BY <3>1, <3>3
    <2> QED
      BY <2>1, <2>4
  <1> HIDE DEF q
  <1>5. (\A S : <<>> \in Seq(S)) /\ Len(<<>>) = 0
    OBVIOUS
  <1>6. hand' \in [Subs -> Seq(Tick)] /\ out' \in [Clients -> Seq(Tick)]
    BY <1>1, <1>2, <1>4, <1>5 DEF IInv, TypeOK
  <1>7. /\ \A r \in Subs : hand'[r] = IF r = s THEN <<>> ELSE hand[r]
        /\ \A d \in Clients : out'[d] = IF d = c THEN q ELSE out[d]
    BY <1>1, <1>2 DEF IInv, TypeOK
  <1>8. TypeOK'
    <2>1. \A r \in Subs : Len(hand'[r]) <= 1
      BY <1>5, <1>7 DEF IInv, TypeOK
    <2>2. \A d \in Clients : Len(out'[d]) <= OutCap
      BY <1>4, <1>7 DEF IInv, TypeOK
    <2> QED
      BY <1>1, <1>6, <2>1, <2>2 DEF IInv, TypeOK, engineVars
  <1>9. Histories'
    BY <1>1 DEF IInv, Histories, engineVars
  <1>10. TicksGood'
    <2>1. DOMAIN subs \subseteq Subs
      BY SubsInside DEF IInv
    <2>2. \A r \in DOMAIN subs : hand'[r] \in Seq(Good(subs[r].client))
      BY <1>5, <1>7, <2>1 DEF IInv, TicksGood
    <2>3. \A r \in Subs \ DOMAIN subs : hand'[r] = <<>>
      BY <1>7 DEF IInv, TicksGood
    <2>4. \A d \in Clients : out'[d] \in Seq(Good(d))
      BY <1>4, <1>7 DEF IInv, TicksGood
    <2> QED
      BY <1>1, <2>2, <2>3, <2>4 DEF IInv, TicksGood, engineVars
  <1> QED
    BY <1>8, <1>9, <1>10 DEF IInv

LEMMA SendInvariant ==
    ASSUME IInv, NEW c \in Clients, Send(c)
    PROVE  IInv'
  <1> DEFINE k == Head(out[c])
             q == Tail(out[c])
  <1>1. /\ out[c] # <<>>
        /\ screen' = [screen EXCEPT ![c][k.ticker] = k] /\ out' = [out EXCEPT ![c] = q]
        /\ UNCHANGED <<engineVars, ch, hand, stream, down>>
    BY DEF Send
  <1>2. out[c] \in Seq(Good(c)) /\ out[c] \in Seq(Tick) /\ Len(out[c]) <= OutCap /\ OutCap \in Nat
    BY ChartAssumption DEF IInv, TypeOK, TicksGood
  <1>3. k \in Good(c) /\ k \in Tick /\ q \in Seq(Good(c)) /\ q \in Seq(Tick) /\ Len(q) <= OutCap
    <2>1. /\ k \in Good(c) /\ q \in Seq(Good(c))
          /\ Len(q) = Len(out[c]) - 1 /\ Len(out[c]) \in Nat
      BY <1>1, <1>2, TakeFirst
    <2>2. k \in Tick /\ q \in Seq(Tick)
      BY <1>1, <1>2, TakeFirst
    <2> QED
      BY <1>2, <2>1, <2>2
  <1>4. k.ticker \in Tickers
    BY <1>3 DEF Tick
  <1> HIDE DEF k, q
  <1>5. /\ out' \in [Clients -> Seq(Tick)] /\ screen' \in [Clients -> [Tickers -> Tick]]
        /\ \A d \in Clients : out'[d] = IF d = c THEN q ELSE out[d]
        /\ \A d \in Clients, t \in Tickers :
               screen'[d][t] = IF d = c /\ t = k.ticker THEN k ELSE screen[d][t]
    BY <1>1, <1>3, <1>4 DEF IInv, TypeOK
  <1>6. TypeOK'
    <2>1. \A d \in Clients : Len(out'[d]) <= OutCap
      BY <1>3, <1>5 DEF IInv, TypeOK
    <2> QED
      BY <1>1, <1>5, <2>1 DEF IInv, TypeOK, engineVars
  <1>7. Histories'
    BY <1>1 DEF IInv, Histories, engineVars
  <1>8. TicksGood'
    <2>1. \A d \in Clients : out'[d] \in Seq(Good(d))
      BY <1>3, <1>5 DEF IInv, TicksGood
    <2>2. \A d \in Clients, t \in Tickers : screen'[d][t] \in Good(d)
      BY <1>3, <1>5 DEF IInv, TicksGood
    <2> QED
      BY <1>1, <2>1, <2>2 DEF IInv, TicksGood, engineVars
  <1> QED
    BY <1>6, <1>7, <1>8 DEF IInv

LEMMA NextInvariant == IInv /\ [Next]_vars => IInv'
  <1> SUFFICES ASSUME IInv, [Next]_vars PROVE IInv'
    OBVIOUS
  <1>1. CASE UNCHANGED vars
    BY <1>1 DEF IInv, TypeOK, Histories, TicksGood, vars, engineVars
  <1>2. CASE Next
    BY <1>2, ConnectInvariant, EndInvariant, SendInvariant, SubscribeInvariant, DisconnectInvariant,
       TakeInvariant, HandOverInvariant, MakeTickInvariant, EmitTickInvariant DEF Next
  <1> QED
    BY <1>1, <1>2

(* Every reachable state is of its type, and every channel keeps to its    *)
(* capacity: a tick for which there is no room is dropped.                 *)
THEOREM TypeCorrect == Spec => []TypeOK
  <1>1. IInv => TypeOK
    BY DEF IInv
  <1> QED
    BY InitInvariant, NextInvariant, <1>1, PTL DEF Spec

(* Whatever ticks are dropped on the way, what a client shows has no gaps  *)
(* and goes back as far as it asked for.                                   *)
THEOREM NoGaps == Spec => []ChartsHaveNoGaps
  <1>1. ASSUME IInv PROVE ChartsHaveNoGaps
    <2> SUFFICES ASSUME NEW c \in Clients, NEW t \in Tickers
                 PROVE  LET shown == screen[c][t]
                            wanted == (IF LimitOf[c] = 0 THEN {} ELSE {LimitOf[c]})
                                          \cup {HistoryLimit, shown.at}
                        IN  /\ \E n \in wanted : Len(shown.history) = n /\ \A m \in wanted : n <= m
                            /\ \A i \in DOMAIN shown.history :
                                   shown.history[i] = shown.at - Len(shown.history) + i
      BY DEF ChartsHaveNoGaps
    <2> DEFINE k == screen[c][t]
               l == LimitOf[c]
               wanted == (IF l = 0 THEN {} ELSE {l}) \cup {HistoryLimit, k.at}
    <2>1. k \in Good(c)
      BY <1>1 DEF IInv, TicksGood
    <2>2. l \in Nat
      BY ChartAssumption
    <2>3. /\ k.at \in 0..MaxTicks /\ k.history \in Seq(1..MaxTicks)
          /\ Run(k.history, k.at) /\ Len(k.history) = Depth(c, k.at)
      BY <2>1 DEF Good, Tick
    <2> HIDE DEF k
    <2>4. k.at \in Nat /\ HistoryLimit \in Nat /\ MaxTicks \in Nat
      BY <2>3, ChartAssumption
    <2>5. \A i \in DOMAIN k.history : k.history[i] = k.at - Len(k.history) + i
      BY <2>3 DEF Run
    <2>6. \E n \in wanted : Len(k.history) = n /\ \A m \in wanted : n <= m
      <3> DEFINE n == Depth(c, k.at)
      <3>1. n \in wanted /\ \A m \in wanted : n <= m
        BY <2>2, <2>4 DEF Depth, Least
      <3> HIDE DEF wanted, n
      <3>2. Len(k.history) = n
        BY <2>3 DEF n
      <3> QED
        BY <3>1, <3>2
    <2> QED
      BY <2>5, <2>6 DEF k
  <1> QED
    BY InitInvariant, NextInvariant, <1>1, PTL DEF Spec
----------------------------------------------------------------------------
(* Ticks in order                                                          *)

(* The ticks of t in q are of time n or later, in p none is later than one *)
(* in q, and in q they rise.                                               *)
From(n, q, t) == \A i \in DOMAIN q : q[i].ticker = t => n <= q[i].at
Before(p, q, t) == \A i \in DOMAIN p : p[i].ticker = t => From(p[i].at, q, t)
Rising(q, t) ==
    \A i, j \in DOMAIN q : i < j /\ q[i].ticker = t /\ q[j].ticker = t => q[i].at <= q[j].at

LEMMA NoneInOrder ==
    \A t, n, q : From(n, <<>>, t) /\ Before(<<>>, q, t) /\ Before(q, <<>>, t) /\ Rising(<<>>, t)
  <1>1. DOMAIN <<>> = {}
    OBVIOUS
  <1> QED
    BY <1>1 DEF From, Before, Rising

LEMMA OneInOrder ==
    ASSUME NEW k, NEW t, NEW n, NEW q
    PROVE  /\ (k.ticker = t => n <= k.at) => From(n, <<k>>, t)
           /\ (k.ticker = t => From(k.at, q, t)) => Before(<<k>>, q, t)
  <1>1. PICK p : p = <<k>>
    OBVIOUS
  <1>2. DOMAIN p = {1} /\ p[1] = k
    BY <1>1
  <1>3. /\ (k.ticker = t => n <= k.at) => From(n, p, t)
        /\ (k.ticker = t => From(k.at, q, t)) => Before(p, q, t)
    BY <1>2 DEF From, Before
  <1> QED
    BY <1>1, <1>3

LEMMA MoreInOrder ==
    ASSUME NEW S, NEW q \in Seq(S), NEW k \in S, NEW t, NEW n, NEW p
    PROVE  /\ From(n, q, t) /\ (k.ticker = t => n <= k.at) => From(n, Append(q, k), t)
           /\ Before(q, p, t) /\ (k.ticker = t => From(k.at, p, t)) => Before(Append(q, k), p, t)
           /\ Rising(q, t) /\ (k.ticker = t => \A i \in DOMAIN q : q[i].ticker = t => q[i].at <= k.at)
                => Rising(Append(q, k), t)
  <1>1. PICK b : b = Append(q, k)
    OBVIOUS
  <1>2. /\ DOMAIN b = 1..(Len(q) + 1) /\ DOMAIN q = 1..Len(q) /\ Len(q) \in Nat
        /\ b[Len(q) + 1] = k /\ \A i \in 1..Len(q) : b[i] = q[i]
    BY <1>1
  <1>3. DOMAIN b = DOMAIN q \cup {Len(q) + 1} /\ \A i \in DOMAIN q : b[i] = q[i]
    BY <1>2
  <1>4. From(n, q, t) /\ (k.ticker = t => n <= k.at) => From(n, b, t)
    BY <1>2, <1>3 DEF From
  <1>5. Before(q, p, t) /\ (k.ticker = t => From(k.at, p, t)) => Before(b, p, t)
    BY <1>2, <1>3 DEF Before
  <1>6. ASSUME Rising(q, t), k.ticker = t => \A i \in DOMAIN q : q[i].ticker = t => q[i].at <= k.at
        PROVE  Rising(b, t)
    <2> SUFFICES ASSUME NEW i \in DOMAIN b, NEW j \in DOMAIN b, i < j, b[i].ticker = t, b[j].ticker = t
                 PROVE  b[i].at <= b[j].at
      BY DEF Rising
    <2>1. i \in DOMAIN q
      BY <1>2
    <2>2. CASE j \in DOMAIN q
      BY <1>3, <1>6, <2>1, <2>2 DEF Rising
    <2>3. CASE j = Len(q) + 1
      BY <1>2, <1>3, <1>6, <2>1, <2>3
    <2> QED
      BY <1>3, <2>2, <2>3
  <1> QED
    BY <1>1, <1>4, <1>5, <1>6

LEMMA FewerInOrder ==
    ASSUME NEW S, NEW q \in Seq(S), q # <<>>, NEW t, NEW n, NEW p
    PROVE  /\ From(n, q, t) => From(n, Tail(q), t) /\ (Head(q).ticker = t => n <= Head(q).at)
           /\ Before(q, p, t) => Before(Tail(q), p, t) /\ (Head(q).ticker = t => From(Head(q).at, p, t))
           /\ Rising(q, t) => Rising(Tail(q), t) /\ (Head(q).ticker = t => From(Head(q).at, Tail(q), t))
  <1>1. PICK b : b = Tail(q)
    OBVIOUS
  <1>2. /\ DOMAIN b = 1..(Len(q) - 1) /\ DOMAIN q = 1..Len(q) /\ Len(q) \in Nat \ {0}
        /\ Head(q) = q[1] /\ \A i \in 1..(Len(q) - 1) : b[i] = q[i + 1]
    BY <1>1
  <1>3. \A i \in DOMAIN b : i \in Nat /\ i + 1 \in DOMAIN q /\ b[i] = q[i + 1] /\ 1 < i + 1
    BY <1>2
  <1>4. 1 \in DOMAIN q
    BY <1>2
  <1>5. From(n, q, t) => From(n, b, t) /\ (Head(q).ticker = t => n <= Head(q).at)
    BY <1>2, <1>3, <1>4 DEF From
  <1>6. Before(q, p, t) => Before(b, p, t) /\ (Head(q).ticker = t => From(Head(q).at, p, t))
    BY <1>2, <1>3, <1>4 DEF Before
  <1>7. ASSUME Rising(q, t) PROVE Rising(b, t)
    <2>1. \A i, j \in DOMAIN b : i < j => i + 1 < j + 1
      BY <1>3
    <2> QED
      BY <1>3, <1>7, <2>1 DEF Rising
  <1>8. ASSUME Rising(q, t), Head(q).ticker = t PROVE From(Head(q).at, b, t)
    BY <1>2, <1>3, <1>4, <1>8 DEF Rising, From
  <1> QED
    BY <1>1, <1>5, <1>6, <1>7, <1>8

(* No tick is ahead of its ticker, and a subscription has ticks of its     *)
(* ticker only.                                                            *)
Past(q) == \A i \in DOMAIN q : q[i].at <= made[q[i].ticker]

TicksPast ==
    /\ \A s \in Subs : Past(ch[s]) /\ Past(hand[s])
    /\ \A c \in Clients : Past(out[c])
    /\ \A c \in Clients, t \in Tickers : screen[c][t].at <= made[t]

Of(q, t) == \A i \in DOMAIN q : q[i].ticker = t

TicksOwn == \A s \in DOMAIN subs : Of(ch[s], subs[s].ticker) /\ Of(hand[s], subs[s].ticker)

(* A client with one subscription to t at most has its ticks in order, all *)
(* the way from the engine to the screen.                                  *)
Once(c, t) == \A r, s \in Subscriptions(c, t) : r = s

InOrder(c, t) ==
    LET shown == screen[c][t].at
    IN  /\ From(shown, out[c], t) /\ Rising(out[c], t)
        /\ \A s \in Subscriptions(c, t) :
               /\ From(shown, hand[s], t) /\ From(shown, ch[s], t)
               /\ Before(out[c], hand[s], t) /\ Before(out[c], ch[s], t)
               /\ Before(hand[s], ch[s], t) /\ Rising(ch[s], t)

Ordered == \A c \in Clients, t \in Tickers : Once(c, t) => InOrder(c, t)

OInv == TicksPast /\ TicksOwn /\ Ordered

LEMMA InitOrder == Init => OInv
  <1> SUFFICES ASSUME Init PROVE OInv
    OBVIOUS
  <1>1. DOMAIN <<>> = {}
    OBVIOUS
  <1>2. TicksPast
    BY <1>1 DEF Init, TicksPast, Past
  <1>3. TicksOwn
    BY <1>1 DEF Init, TicksOwn
  <1>4. Ordered
    BY <1>1, NoneInOrder DEF Init, Ordered, InOrder, Subscriptions
  <1> QED
    BY <1>2, <1>3, <1>4 DEF OInv

LEMMA ConnectOrder ==
    ASSUME OInv, NEW c \in Clients, Connect(c)
    PROVE  OInv'
  BY DEF OInv, Connect, engineVars, TicksPast, Past, TicksOwn, Ordered, Once, InOrder, Subscriptions

LEMMA EndOrder ==
    ASSUME IInv, OInv, NEW c \in Clients, End(c)
    PROVE  OInv'
  <1>1. /\ UNCHANGED <<made, subs, ch, hand, screen>>
        /\ \A d \in Clients : out'[d] = IF d = c THEN <<>> ELSE out[d]
    BY DEF End, engineVars, IInv, TypeOK
  <1>2. DOMAIN <<>> = {}
    OBVIOUS
  <1>3. TicksPast' /\ TicksOwn'
    BY <1>1, <1>2 DEF OInv, TicksPast, Past, TicksOwn
  <1>4. ASSUME NEW d \in Clients, NEW t \in Tickers, Once(d, t)' PROVE InOrder(d, t)'
    <2>1. InOrder(d, t)
      BY <1>1, <1>4 DEF OInv, Ordered, Once, Subscriptions
    <2> QED
      BY <1>1, <2>1, NoneInOrder DEF InOrder, Subscriptions
  <1> QED
    BY <1>3, <1>4 DEF OInv, Ordered

LEMMA SubscribeOrder ==
    ASSUME IInv, OInv, NEW c \in Clients, NEW t \in Tickers, Subscribe(c, t)
    PROVE  OInv'
  <1>1. PICK n : n = Len(subs)
    OBVIOUS
  <1>2. DOMAIN subs = 1..n /\ n \in Nat /\ DOMAIN subs \subseteq Subs
    BY <1>1, SubsInside DEF IInv
  <1>3. /\ DOMAIN subs' = 1..(n + 1) /\ \A s \in 1..n : subs'[s] = subs[s]
    <2>1. PICK T, new : new \in T /\ subs \in Seq(T) /\ subs' = Append(subs, new)
      <3>1. [client |-> c, ticker |-> t, id |-> n] \in [client : Clients, ticker : Tickers, id : 0..MaxSubs]
        BY <1>1, <1>2, ChartAssumption DEF Subscribe
      <3>2. subs \in Seq([client : Clients, ticker : Tickers, id : 0..MaxSubs])
        BY DEF IInv, TypeOK
      <3>3. subs' = Append(subs, [client |-> c, ticker |-> t, id |-> n])
        BY <1>1 DEF Subscribe
      <3> QED
        BY <3>1, <3>2, <3>3
    <2> QED
      BY <1>1, <2>1
  <1>4. UNCHANGED <<made, ch, hand, out, screen>>
    BY DEF Subscribe
  <1>5. n + 1 \in Subs /\ n + 1 \notin DOMAIN subs
    BY <1>1, <1>2, ChartAssumption DEF Subscribe, Subs
  <1>6. ch[n + 1] = <<>> /\ hand[n + 1] = <<>>
    BY <1>5 DEF IInv, TicksGood
  <1>7. DOMAIN subs' = DOMAIN subs \cup {n + 1} /\ \A s \in DOMAIN subs : subs'[s] = subs[s]
    BY <1>2, <1>3
  <1>8. DOMAIN <<>> = {}
    OBVIOUS
  <1>9. TicksPast'
    BY <1>4 DEF OInv, TicksPast, Past
  <1>10. TicksOwn'
    BY <1>4, <1>6, <1>7, <1>8 DEF OInv, TicksOwn, Of
  <1>11. ASSUME NEW d \in Clients, NEW u \in Tickers, Once(d, u)' PROVE InOrder(d, u)'
    <2>1. /\ Subscriptions(d, u) \subseteq Subscriptions(d, u)'
          /\ \A s \in Subscriptions(d, u)' : s \in Subscriptions(d, u) \/ s = n + 1
      BY <1>7 DEF Subscriptions
    <2>2. InOrder(d, u)
      BY <1>11, <2>1 DEF OInv, Ordered, Once
    <2> QED
      BY <1>4, <1>6, <2>1, <2>2, NoneInOrder DEF InOrder
  <1> QED
    BY <1>9, <1>10, <1>11 DEF OInv, Ordered

LEMMA DisconnectOrder ==
    ASSUME IInv, OInv, NEW s \in Subs, Disconnect(s)
    PROVE  OInv'
  <1>1. /\ UNCHANGED <<made, subs, out, screen>>
        /\ \A r \in Subs : /\ ch'[r] = IF r = s THEN <<>> ELSE ch[r]
                           /\ hand'[r] = IF r = s THEN <<>> ELSE hand[r]
    BY DEF Disconnect, IInv, TypeOK
  <1>2. DOMAIN <<>> = {} /\ DOMAIN subs \subseteq Subs
    BY SubsInside DEF IInv
  <1>3. TicksPast' /\ TicksOwn'
    BY <1>1, <1>2 DEF OInv, TicksPast, Past, TicksOwn, Of
  <1>4. ASSUME NEW d \in Clients, NEW t \in Tickers, Once(d, t)' PROVE InOrder(d, t)'
    <2>1. Subscriptions(d, t)' = Subscriptions(d, t) /\ Subscriptions(d, t) \subseteq Subs
      BY <1>1, <1>2 DEF Subscriptions
    <2>2. InOrder(d, t)
      BY <1>4, <2>1 DEF OInv, Ordered, Once
    <2> QED
      BY <1>1, <2>1, <2>2, NoneInOrder DEF InOrder
  <1> QED
    BY <1>3, <1>4 DEF OInv, Ordered

(* Times and tickers of the ticks under way.                               *)
LEMMA TickTypes ==
    ASSUME IInv
    PROVE  /\ \A t \in Tickers : made[t] \in Nat
           /\ \A s \in Subs : \A i \in DOMAIN ch[s] : ch[s][i].at \in Nat /\ ch[s][i].ticker \in Tickers
           /\ \A s \in Subs : \A i \in DOMAIN hand[s] : hand[s][i].at \in Nat /\ hand[s][i].ticker \in Tickers
           /\ \A c \in Clients : \A i \in DOMAIN out[c] : out[c][i].at \in Nat /\ out[c][i].ticker \in Tickers
           /\ \A c \in Clients, t \in Tickers : screen[c][t].at \in Nat
  <1>1. \A k \in Tick : k.at \in Nat /\ k.ticker \in Tickers
    BY DEF Tick
  <1>2. \A q \in Seq(Tick) : \A i \in DOMAIN q : q[i] \in Tick
    OBVIOUS
  <1>3. \A t \in Tickers : made[t] \in Nat
    BY DEF IInv, TypeOK
  <1>4. \A s \in Subs : ch[s] \in Seq(Tick) /\ hand[s] \in Seq(Tick)
    BY DEF IInv, TypeOK
  <1>5. (\A c \in Clients : out[c] \in Seq(Tick)) /\ \A c \in Clients, t \in Tickers : screen[c][t] \in Tick
    BY DEF IInv, TypeOK
  <1> QED
    BY <1>1, <1>2, <1>3, <1>4, <1>5

LEMMA MakeTickOrder ==
    ASSUME IInv, OInv, NEW t \in Tickers, MakeTick(t)
    PROVE  OInv'
  <1>1. /\ UNCHANGED <<subs, ch, hand, out, screen>>
        /\ \A u \in Tickers : made'[u] = IF u = t THEN made[u] + 1 ELSE made[u]
    BY DEF MakeTick, IInv, TypeOK
  <1>2. \A u \in Tickers : \A n \in Nat : n <= made[u] => n <= made'[u]
    BY <1>1, TickTypes
  <1>3. TicksPast'
    BY <1>1, <1>2, TickTypes DEF OInv, TicksPast, Past
  <1>4. TicksOwn' /\ Ordered'
    BY <1>1 DEF OInv, TicksOwn, Ordered, Once, InOrder, Subscriptions
  <1> QED
    BY <1>3, <1>4 DEF OInv

LEMMA EmitTickOrder ==
    ASSUME IInv, OInv, NEW t \in Tickers, NEW s \in Subs, EmitTick(t, s)
    PROVE  OInv'
  <1>1. s \in DOMAIN subs /\ UNCHANGED <<made, subs, hand, out, screen>>
    BY DEF EmitTick, IInv, TypeOK
  <1>2. PICK k : k = BuildTick(s)
    OBVIOUS
  <1>3. /\ k \in Tick /\ k.ticker = subs[s].ticker /\ k.at = made[subs[s].ticker]
        /\ subs[s].client \in Clients /\ subs[s].ticker \in Tickers
    <2>1. k \in Tick
      BY <1>1, <1>2, TickBuilt DEF Good
    <2>2. k.ticker = subs[s].ticker /\ k.at = made[subs[s].ticker]
      BY <1>2 DEF BuildTick
    <2> QED
      BY <1>1, <2>1, <2>2, SubsInside DEF IInv
  <1>4. CASE ch' = ch
    BY <1>1, <1>4 DEF OInv, TicksPast, Past, TicksOwn, Of, Ordered, Once, InOrder, Subscriptions
  <1>5. CASE ch' = [ch EXCEPT ![s] = Append(ch[s], k)]
    <2>1. PICK q : q = Append(ch[s], k)
      OBVIOUS
    <2>2. ch[s] \in Seq(Tick) /\ \A r \in Subs : ch'[r] = IF r = s THEN q ELSE ch[r]
      BY <1>5, <2>1 DEF IInv, TypeOK
    <2>3. /\ DOMAIN q = DOMAIN ch[s] \cup {Len(ch[s]) + 1} /\ q[Len(ch[s]) + 1] = k
          /\ \A i \in DOMAIN ch[s] : q[i] = ch[s][i]
      <3>1. /\ DOMAIN q = 1..(Len(ch[s]) + 1) /\ DOMAIN ch[s] = 1..Len(ch[s]) /\ Len(ch[s]) \in Nat
            /\ q[Len(ch[s]) + 1] = k /\ \A i \in 1..Len(ch[s]) : q[i] = ch[s][i]
        BY <1>3, <2>1, <2>2
      <3> QED
        BY <3>1
    <2>4. Past(q) /\ Of(q, subs[s].ticker)
      <3>1. k.at <= made[k.ticker]
        BY <1>3, TickTypes
      <3> QED
        BY <1>1, <1>3, <2>3, <3>1 DEF OInv, TicksPast, Past, TicksOwn, Of
    <2>5. TicksPast' /\ TicksOwn'
      <3>1. DOMAIN subs \subseteq Subs
        BY SubsInside DEF IInv
      <3>2. TicksPast'
        BY <1>1, <2>2, <2>4 DEF OInv, TicksPast, Past
      <3>3. TicksOwn'
        BY <1>1, <2>2, <2>4, <3>1 DEF OInv, TicksOwn
      <3> QED
        BY <3>2, <3>3
    <2>6. ASSUME NEW d \in Clients, NEW u \in Tickers, Once(d, u)' PROVE InOrder(d, u)'
      <3>1. /\ Subscriptions(d, u)' = Subscriptions(d, u) /\ Subscriptions(d, u) \subseteq Subs
            /\ s \in Subscriptions(d, u) => u = k.ticker
        BY <1>1, <1>3, SubsInside DEF Subscriptions, IInv
      <3>2. InOrder(d, u)
        BY <2>6, <3>1 DEF OInv, Ordered, Once
      <3>3. CASE s \notin Subscriptions(d, u)
        BY <1>1, <2>2, <3>1, <3>2, <3>3 DEF InOrder
      <3>4. CASE s \in Subscriptions(d, u)
        <4>1. screen[d][u].at <= k.at
          BY <1>3, <3>1, <3>4 DEF OInv, TicksPast
        <4>2. From(screen[d][u].at, q, u)
          BY <1>3, <2>1, <2>2, <3>2, <3>4, <4>1, MoreInOrder DEF InOrder
        <4>3. \A i \in DOMAIN ch[s] : ch[s][i].ticker = u => ch[s][i].at <= k.at
          BY <1>3, <3>1, <3>4 DEF OInv, TicksPast, Past
        <4>4. Rising(q, u)
          BY <1>3, <2>1, <2>2, <3>2, <3>4, <4>3, MoreInOrder DEF InOrder
        <4>5. ASSUME NEW p, Past(p), Before(p, ch[s], u) PROVE Before(p, q, u)
          <5> SUFFICES ASSUME NEW i \in DOMAIN p, p[i].ticker = u PROVE From(p[i].at, q, u)
            BY DEF Before
          <5>1. From(p[i].at, ch[s], u) /\ p[i].at <= k.at
            BY <1>3, <3>1, <3>4, <4>5 DEF Before, Past
          <5> QED
            BY <1>3, <2>1, <2>2, <5>1, MoreInOrder
        <4>6. Before(out[d], q, u) /\ Before(hand[s], q, u)
          BY <3>2, <3>4, <4>5 DEF InOrder, OInv, TicksPast
        <4> QED
          BY <1>1, <2>2, <3>1, <3>2, <4>2, <4>4, <4>6 DEF InOrder
      <3> QED
        BY <3>3, <3>4
    <2> QED
      BY <2>5, <2>6 DEF OInv, Ordered
  <1> QED
    BY <1>2, <1>4, <1>5 DEF EmitTick

LEMMA TakeOrder ==
    ASSUME IInv, OInv, NEW s \in Subs, Take(s)
    PROVE  OInv'
  <1>1. PICK k, q : k = Head(ch[s]) /\ q = Tail(ch[s])
    OBVIOUS
  <1>2. /\ s \in DOMAIN subs /\ ch[s] # <<>> /\ UNCHANGED <<made, subs, out, screen>>
        /\ ch[s] \in Seq(Tick)
        /\ \A r \in Subs : /\ ch'[r] = IF r = s THEN q ELSE ch[r]
                           /\ hand'[r] = IF r = s THEN <<k>> ELSE hand[r]
    BY <1>1 DEF Take, engineVars, IInv, TypeOK
  <1>3. /\ DOMAIN <<k>> = {1} /\ <<k>>[1] = k /\ 1 \in DOMAIN ch[s] /\ k = ch[s][1]
        /\ \A i \in DOMAIN q : i + 1 \in DOMAIN ch[s] /\ q[i] = ch[s][i + 1]
    <2>1. /\ DOMAIN q = 1..(Len(ch[s]) - 1) /\ DOMAIN ch[s] = 1..Len(ch[s]) /\ Len(ch[s]) \in Nat \ {0}
          /\ k = ch[s][1] /\ \A i \in 1..(Len(ch[s]) - 1) : q[i] = ch[s][i + 1]
      BY <1>1, <1>2
    <2> QED
      BY <2>1
  <1>4. TicksPast'
    <2>1. Past(q) /\ Past(<<k>>)
      BY <1>3 DEF OInv, TicksPast, Past
    <2> QED
      BY <1>2, <2>1 DEF OInv, TicksPast, Past
  <1>5. TicksOwn'
    <2>1. Of(q, subs[s].ticker) /\ Of(<<k>>, subs[s].ticker)
      BY <1>2, <1>3 DEF OInv, TicksOwn, Of
    <2>2. DOMAIN subs \subseteq Subs
      BY SubsInside DEF IInv
    <2> QED
      BY <1>2, <2>1, <2>2 DEF OInv, TicksOwn
  <1>6. ASSUME NEW d \in Clients, NEW u \in Tickers, Once(d, u)' PROVE InOrder(d, u)'
    <2>1. Subscriptions(d, u)' = Subscriptions(d, u) /\ Subscriptions(d, u) \subseteq Subs
      BY <1>2, SubsInside DEF Subscriptions, IInv
    <2>2. InOrder(d, u)
      BY <1>6, <2>1 DEF OInv, Ordered, Once
    <2>3. ASSUME s \in Subscriptions(d, u)
          PROVE  /\ From(screen[d][u].at, <<k>>, u) /\ From(screen[d][u].at, q, u)
                 /\ Before(out[d], <<k>>, u) /\ Before(out[d], q, u)
                 /\ Before(<<k>>, q, u) /\ Rising(q, u)
      <3>1. /\ From(screen[d][u].at, ch[s], u) /\ Before(out[d], ch[s], u) /\ Rising(ch[s], u)
        BY <2>2, <2>3 DEF InOrder
      <3>2. \A n : From(n, ch[s], u) => From(n, q, u) /\ From(n, <<k>>, u)
        BY <1>1, <1>2, FewerInOrder, OneInOrder
      <3>3. Before(out[d], <<k>>, u) /\ Before(out[d], q, u)
        BY <3>1, <3>2 DEF Before
      <3>4. Rising(q, u) /\ (k.ticker = u => From(k.at, q, u))
        BY <1>1, <1>2, <3>1, FewerInOrder
      <3>5. Before(<<k>>, q, u)
        BY <3>4, OneInOrder
      <3> QED
        BY <3>1, <3>2, <3>3, <3>4, <3>5
    <2> QED
      BY <1>2, <2>1, <2>2, <2>3 DEF InOrder
  <1> QED
    BY <1>4, <1>5, <1>6 DEF OInv, Ordered

LEMMA HandOverOrder ==
    ASSUME IInv, OInv, NEW s \in Subs, HandOver(s)
    PROVE  OInv'
  <1>1. PICK c : c = subs[s].client
    OBVIOUS
  <1>2. /\ s \in DOMAIN subs /\ c \in Clients /\ hand[s] # <<>> /\ UNCHANGED <<made, subs, ch, screen>>
        /\ hand[s] \in Seq(Tick) /\ Len(hand[s]) <= 1 /\ out[c] \in Seq(Tick)
    BY <1>1, SubsInside DEF HandOver, engineVars, IInv, TypeOK
  <1>3. PICK k : k = hand[s][1]
    OBVIOUS
  <1>4. PICK q : q = Append(out[c], k)
    OBVIOUS
  <1>5. DOMAIN hand[s] = {1} /\ k \in Tick /\ hand[s] = <<k>>
    <2>1. PICK h \in Seq(Tick) : h = hand[s]
      BY <1>2
    <2>2. Len(h) \in Nat /\ h # <<>> /\ Len(h) <= 1
      BY <1>2, <2>1
    <2>3. Len(h) = 1
      <3>1. Tail(h) \in Seq(Tick) /\ Len(Tail(h)) = Len(h) - 1
        BY <2>1, <2>2, TakeFirst
      <3>2. Len(Tail(h)) \in Nat
        BY <3>1
      <3> QED
        BY <2>2, <3>1, <3>2
    <2>4. DOMAIN h = {1} /\ h[1] \in Tick
      BY <2>1, <2>3
    <2>5. h = <<h[1]>>
      BY <2>1, <2>3
    <2> QED
      BY <1>3, <2>1, <2>4, <2>5
  <1>6. out[c] \o hand[s] = q
    BY <1>2, <1>4, <1>5
  <1>7. /\ \A r \in Subs : hand'[r] = IF r = s THEN <<>> ELSE hand[r]
        /\ \A d \in Clients : out'[d] = IF d = c THEN q ELSE out[d]
    BY <1>1, <1>2, <1>6 DEF HandOver, IInv, TypeOK
  <1>8. /\ DOMAIN q = DOMAIN out[c] \cup {Len(out[c]) + 1} /\ q[Len(out[c]) + 1] = k
        /\ \A i \in DOMAIN out[c] : q[i] = out[c][i]
    <2>1. /\ DOMAIN q = 1..(Len(out[c]) + 1) /\ DOMAIN out[c] = 1..Len(out[c]) /\ Len(out[c]) \in Nat
          /\ q[Len(out[c]) + 1] = k /\ \A i \in 1..Len(out[c]) : q[i] = out[c][i]
      BY <1>2, <1>4, <1>5
    <2> QED
      BY <2>1
  <1>9. DOMAIN <<>> = {} /\ DOMAIN subs \subseteq Subs
    BY SubsInside DEF IInv
  <1>10. k.at <= made[k.ticker] /\ k.ticker = subs[s].ticker
    BY <1>2, <1>3, <1>5 DEF OInv, TicksPast, Past, TicksOwn, Of
  <1>11. TicksPast'
    <2>1. Past(q)
      BY <1>2, <1>8, <1>10 DEF OInv, TicksPast, Past
    <2> QED
      BY <1>2, <1>7, <1>9, <2>1 DEF OInv, TicksPast, Past
  <1>12. TicksOwn'
    BY <1>2, <1>7, <1>9 DEF OInv, TicksOwn, Of
  <1>13. ASSUME NEW d \in Clients, NEW u \in Tickers, Once(d, u)' PROVE InOrder(d, u)'
    <2>1. Subscriptions(d, u)' = Subscriptions(d, u) /\ Subscriptions(d, u) \subseteq Subs
      BY <1>2, <1>9 DEF Subscriptions
    <2>2. InOrder(d, u) /\ Once(d, u)
      BY <1>13, <2>1 DEF OInv, Ordered, Once
    <2>3. d = c /\ u = k.ticker <=> s \in Subscriptions(d, u)
      BY <1>1, <1>2, <1>10 DEF Subscriptions
    <2>4. CASE d # c
      <3>1. out'[d] = out[d] /\ \A r \in Subscriptions(d, u) : hand'[r] = hand[r]
        BY <1>7, <2>1, <2>3, <2>4
      <3> QED
        BY <1>2, <2>1, <2>2, <3>1 DEF InOrder
    <2>5. CASE d = c /\ u # k.ticker
      <3>1. out'[d] = q /\ \A r \in Subscriptions(d, u) : hand'[r] = hand[r]
        BY <1>7, <2>1, <2>3, <2>5
      <3>2. /\ From(screen[d][u].at, q, u) /\ Rising(q, u)
            /\ \A p : Before(out[d], p, u) => Before(q, p, u)
        BY <1>2, <1>4, <1>5, <2>2, <2>5, MoreInOrder DEF InOrder
      <3> QED
        BY <1>2, <2>1, <2>2, <3>1, <3>2 DEF InOrder
    <2>6. CASE d = c /\ u = k.ticker
      <3>1. out'[d] = q /\ hand'[s] = <<>> /\ \A r \in Subscriptions(d, u) : r = s
        BY <1>7, <2>2, <2>3, <2>6 DEF Once
      <3>2. /\ From(screen[d][u].at, hand[s], u) /\ From(screen[d][u].at, out[d], u) /\ Rising(out[d], u)
            /\ Before(out[d], hand[s], u) /\ Before(out[d], ch[s], u) /\ Before(hand[s], ch[s], u)
            /\ From(screen[d][u].at, ch[s], u) /\ Rising(ch[s], u)
        BY <2>2, <2>3, <2>6 DEF InOrder
      <3>3. /\ screen[d][u].at <= k.at /\ From(k.at, ch[s], u)
            /\ \A i \in DOMAIN out[d] : out[d][i].ticker = u => out[d][i].at <= k.at
        BY <1>3, <1>5, <2>6, <3>2 DEF From, Before
      <3>4. From(screen[d][u].at, q, u) /\ Rising(q, u) /\ Before(q, ch[s], u)
        BY <1>2, <1>4, <1>5, <2>6, <3>2, <3>3, MoreInOrder
      <3> QED
        BY <1>2, <2>1, <3>1, <3>2, <3>4, NoneInOrder DEF InOrder
    <2> QED
      BY <2>4, <2>5, <2>6
  <1> QED
    BY <1>11, <1>12, <1>13 DEF OInv, Ordered

(* What the handler sends is on the screen then, and no older than what    *)
(* was there.                                                              *)
LEMMA SendOrder ==
    ASSUME IInv, OInv, NEW c \in Clients, Send(c)
    PROVE  /\ OInv'
           /\ \A d \in Clients, t \in Tickers : Once(d, t) => screen[d][t].at <= screen'[d][t].at
  <1>1. PICK k, q : k = Head(out[c]) /\ q = Tail(out[c])
    OBVIOUS
  <1>2. /\ out[c] # <<>> /\ out[c] \in Seq(Tick) /\ UNCHANGED <<made, subs, ch, hand>> /\ k \in Tick
        /\ \A d \in Clients : out'[d] = IF d = c THEN q ELSE out[d]
    BY <1>1 DEF Send, engineVars, IInv, TypeOK
  <1>3. \A d \in Clients, t \in Tickers :
            screen'[d][t] = IF d = c /\ t = k.ticker THEN k ELSE screen[d][t]
    <2>1. k.ticker \in Tickers /\ screen' = [screen EXCEPT ![c][k.ticker] = k]
      BY <1>1, <1>2 DEF Send, Tick
    <2> QED
      BY <2>1 DEF IInv, TypeOK
  <1>4. /\ 1 \in DOMAIN out[c] /\ k = out[c][1]
        /\ \A i \in DOMAIN q : i + 1 \in DOMAIN out[c] /\ q[i] = out[c][i + 1]
    <2>1. /\ DOMAIN q = 1..(Len(out[c]) - 1) /\ DOMAIN out[c] = 1..Len(out[c]) /\ Len(out[c]) \in Nat \ {0}
          /\ k = out[c][1] /\ \A i \in 1..(Len(out[c]) - 1) : q[i] = out[c][i + 1]
      BY <1>1, <1>2
    <2> QED
      BY <2>1
  <1>5. TicksPast'
    <2>1. Past(q) /\ k.at <= made[k.ticker]
      BY <1>4 DEF OInv, TicksPast, Past
    <2> QED
      BY <1>2, <1>3, <2>1 DEF OInv, TicksPast, Past
  <1>6. TicksOwn'
    BY <1>2 DEF OInv, TicksOwn
  <1>7. ASSUME NEW d \in Clients, NEW u \in Tickers, Once(d, u)
        PROVE  InOrder(d, u)' /\ screen[d][u].at <= screen'[d][u].at
    <2>1. Subscriptions(d, u)' = Subscriptions(d, u)
      BY <1>2 DEF Subscriptions
    <2>2. InOrder(d, u)
      BY <1>7 DEF OInv, Ordered
    <2>3. screen[d][u].at <= screen[d][u].at
      BY TickTypes
    <2>4. CASE d # c
      BY <1>2, <1>3, <2>1, <2>2, <2>3, <2>4 DEF InOrder
    <2>5. CASE d = c
      <3>1. /\ From(screen[d][u].at, q, u) /\ (k.ticker = u => screen[d][u].at <= k.at)
            /\ Rising(q, u) /\ (k.ticker = u => From(k.at, q, u))
        BY <1>1, <1>2, <2>2, <2>5, FewerInOrder DEF InOrder
      <3>2. \A p : Before(out[d], p, u) => Before(q, p, u) /\ (k.ticker = u => From(k.at, p, u))
        BY <1>1, <1>2, <2>5, FewerInOrder
      <3>3. CASE k.ticker # u
        BY <1>2, <1>3, <2>1, <2>2, <2>3, <2>5, <3>1, <3>2, <3>3 DEF InOrder
      <3>4. CASE k.ticker = u
        <4>1. screen'[d][u] = k /\ out'[d] = q
          BY <1>2, <1>3, <2>5, <3>4
        <4> QED
          BY <1>2, <2>1, <2>2, <3>1, <3>2, <3>4, <4>1 DEF InOrder
      <3> QED
        BY <3>3, <3>4
    <2> QED
      BY <2>4, <2>5
  <1>8. Ordered'
    BY <1>2, <1>7 DEF Ordered, Once, Subscriptions
  <1>9. \A d \in Clients, t \in Tickers : Once(d, t) => screen[d][t].at <= screen'[d][t].at
    BY <1>7
  <1> QED
    BY <1>5, <1>6, <1>8, <1>9 DEF OInv

(* A finite set without a second element.                                  *)
LEMMA AtMostOne ==
    ASSUME NEW S, IsFiniteSet(S), Cardinality(S) <= 1
    PROVE  \A r, s \in S : r = s
  <1> SUFFICES ASSUME NEW r \in S, NEW s \in S, r # s PROVE FALSE
    OBVIOUS
  <1>1. IsFiniteSet({s}) /\ Cardinality({s}) = 1
    BY FS_Singleton
  <1>2. Cardinality({s} \cup {r}) = 2
    <2>1. Cardinality({s} \cup {r}) = Cardinality({s}) + 1
      <3>1. r \notin {s}
        OBVIOUS
      <3> QED
        BY ONLY <1>1, <3>1, FS_AddElement
    <2> QED
      BY <1>1, <2>1
  <1>3. {s} \cup {r} \subseteq S
    OBVIOUS
  <1>4. Cardinality({s} \cup {r}) <= Cardinality(S) /\ Cardinality(S) \in Nat
    BY <1>3, FS_Subset, FS_CardinalityType
  <1> QED
    BY <1>2, <1>4

LEMMA NextOrder == IInv /\ OInv /\ [Next]_vars => OInv'
  <1> SUFFICES ASSUME IInv, OInv, [Next]_vars PROVE OInv'
    OBVIOUS
  <1>1. CASE UNCHANGED vars
    BY <1>1 DEF vars, engineVars, OInv, TicksPast, Past, TicksOwn, Of, Ordered, Once, InOrder, Subscriptions
  <1>2. CASE Next
    BY <1>2, ConnectOrder, EndOrder, SendOrder, SubscribeOrder, DisconnectOrder,
       TakeOrder, HandOverOrder, MakeTickOrder, EmitTickOrder DEF Next
  <1> QED
    BY <1>1, <1>2

LEMMA OnlySendShows == Next => screen' = screen \/ \E d \in Clients : Send(d)
  <1>1. \A c \in Clients : Connect(c) \/ End(c) => screen' = screen
    BY DEF Connect, End
  <1>2. \A c \in Clients, t \in Tickers : Subscribe(c, t) => screen' = screen
    BY DEF Subscribe
  <1>3. \A s \in Subs : Disconnect(s) \/ Take(s) \/ HandOver(s) => screen' = screen
    BY DEF Disconnect, Take, HandOver
  <1>4. \A t \in Tickers : MakeTick(t) => screen' = screen
    BY DEF MakeTick
  <1>5. \A t \in Tickers, s \in Subs : EmitTick(t, s) => screen' = screen
    BY DEF EmitTick
  <1> QED
    BY <1>1, <1>2, <1>3, <1>4, <1>5 DEF Next

(* A chart never goes back to an older tick (EmitTick, the forwarders of   *)
(* SubscribeToChart and its handler), whatever is dropped on the way, for  *)
(* a client with one subscription to the ticker.                           *)
THEOREM ChartsRise == Spec => ChartsGoForward
  <1>1. ASSUME IInv, OInv, [Next]_vars, NEW c \in Clients, NEW t \in Tickers,
               Cardinality(Subscriptions(c, t)) <= 1
        PROVE  screen'[c][t].at >= screen[c][t].at
    <2>1. Once(c, t)
      <3>1. Subscriptions(c, t) \subseteq Subs
        BY <1>1, SubsInside DEF Subscriptions, IInv
      <3>2. IsFiniteSet(Subs)
        BY FS_Interval, ChartAssumption DEF Subs
      <3> QED
        BY <1>1, <3>1, <3>2, FS_Subset, AtMostOne DEF Once
    <2>2. screen[c][t].at \in Nat
      BY <1>1, TickTypes
    <2>3. CASE \E d \in Clients : Send(d)
      <3>1. screen[c][t].at <= screen'[c][t].at
        BY <1>1, <2>1, <2>3, SendOrder
      <3> QED
        BY <3>1
    <2>4. CASE screen' = screen
      BY <2>2, <2>4
    <2> QED
      <3>1. CASE Next
        BY <2>3, <2>4, <3>1, OnlySendShows
      <3>2. CASE UNCHANGED vars
        BY <2>4, <3>2 DEF vars
      <3> QED
        BY <1>1, <3>1, <3>2
  <1>2. IInv /\ OInv /\ [Next]_vars =>
            [\A c \in Clients, t \in Tickers :
                 Cardinality(Subscriptions(c, t)) <= 1 => screen'[c][t].at >= screen[c][t].at]_vars
    BY <1>1
  <1> QED
    BY InitInvariant, NextInvariant, InitOrder, NextOrder, <1>2, PTL DEF Spec, ChartsGoForward
=============================================================================
