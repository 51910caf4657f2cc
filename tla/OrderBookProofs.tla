-------------------------- MODULE OrderBookProofs --------------------------
(***************************************************************************)
(* Proofs about OrderBook, for every choice of ids, players, prices and    *)
(* quantities and every number of orders.                                  *)
(***************************************************************************)
EXTENDS OrderBook, DataLemmas

----------------------------------------------------------------------------
(* The price index                                                         *)

(* Whether an index is strictly sorted, best price first.                  *)
Sorted(s, index) == \A i, j \in 1..Len(index) : i < j => Better(s, index[i], index[j])

(* The index new is a sorted version of index with p added.                *)
Grown(s, S, new, index, p) ==
    /\ new \in Seq(S)
    /\ Sorted(s, new)
    /\ \A i \in 1..Len(new) : new[i] = p \/ \E j \in 1..Len(index) : new[i] = index[j]
    /\ \E i \in 1..Len(new) : new[i] = p
    /\ \A j \in 1..Len(index) : \E i \in 1..Len(new) : new[i] = index[j]

(* The index new is a sorted version of index with p taken away.           *)
Shrunk(s, S, new, index, p) ==
    /\ new \in Seq(S)
    /\ Sorted(s, new)
    /\ \A i \in 1..Len(new) : new[i] # p /\ \E j \in 1..Len(index) : new[i] = index[j]
    /\ \A j \in 1..Len(index) : index[j] # p => \E i \in 1..Len(new) : new[i] = index[j]

(* A new price inserted into a sorted index leaves it sorted and adds just *)
(* that price (addResting: append, then sort).                             *)
LEMMA InsertPriceProperties ==
    ASSUME NEW s \in Side, NEW S \in SUBSET Nat, NEW index \in Seq(S), NEW p \in S,
           Sorted(s, index),
           \A i \in 1..Len(index) : index[i] # p
    PROVE  Grown(s, S, InsertPrice(s, index, p), index, p)
  <1> DEFINE n == Len(index)
             before == {i \in 1..n : Better(s, index[i], p)}
             new == InsertPrice(s, index, p)
  <1>1. new = [i \in 1..(n + 1) |-> IF i \in before THEN index[i]
                                    ELSE IF i = 1 \/ (i - 1) \in before THEN p
                                    ELSE index[i - 1]]
    BY DEF InsertPrice
  <1>2. n \in Nat /\ \A i \in 1..n : index[i] \in S /\ index[i] \in Nat
    <2>1. n \in Nat /\ \A i \in 1..n : index[i] \in S
      OBVIOUS
    <2>2. \A x \in S : x \in Nat
      OBVIOUS
    <2> QED
      BY <2>1, <2>2
  <1>3. \A i \in before : \A j \in 1..n : j < i => j \in before
    BY <1>2 DEF Sorted, Better, Side
  <1>4. \A i \in 1..n : i \notin before => Better(s, p, index[i])
    BY <1>2 DEF Better, Side
  <1>5. \A i \in before : i \in 1..n /\ Better(s, index[i], p)
    OBVIOUS
  <1> HIDE DEF before
  <1>6. new \in Seq(S) /\ Len(new) = n + 1 /\ DOMAIN new = 1..(n + 1)
    <2>1. \A i \in 1..(n + 1) : new[i] \in S
      BY <1>1, <1>2, <1>5
    <2>2. n + 1 \in Nat
      BY <1>2
    <2>3. new \in [1..(n + 1) -> S]
      BY <1>1, <2>1
    <2> QED
      BY <2>2, <2>3
  <1>7. \A i \in 1..(n + 1) : new[i] = p \/ \E j \in 1..n : new[i] = index[j]
    BY <1>1, <1>2, <1>5
  <1>8. \A j \in 1..n : \E i \in 1..(n + 1) : new[i] = index[j]
    <2> SUFFICES ASSUME NEW j \in 1..n PROVE \E i \in 1..(n + 1) : new[i] = index[j]
      OBVIOUS
    <2>1. CASE j \in before
      BY <2>1, <1>1, <1>2
    <2>2. CASE j \notin before
      <3>1. j + 1 \in 1..(n + 1) /\ (j + 1) \notin before
        BY <2>2, <1>2, <1>3, <1>5
      <3>2. new[j + 1] = index[j]
        BY <3>1, <2>2, <1>1, <1>2
      <3> QED
        BY <3>1, <3>2
    <2> QED
      BY <2>1, <2>2
  <1>9. PICK k \in 1..(n + 1) : k \notin before /\ (k = 1 \/ (k - 1) \in before)
    <2> DEFINE rest == {i \in 1..(n + 1) : i \notin before}
    <2>1. rest \in SUBSET Nat /\ (n + 1) \in rest
      BY <1>2, <1>5
    <2>2. PICK x \in rest : \A y \in rest : x <= y
      <3> HIDE DEF rest
      <3> QED BY <2>1, LeastElement
    <2>3. x \in 1..(n + 1) /\ x \notin before
      BY <2>2
    <2>4. x # 1 => (x - 1) \in before
      BY <2>2, <2>3, <1>2
    <2> QED
      BY <2>3, <2>4
  <1>10. new[k] = p
    BY <1>1, <1>9
  <1>11. \A i \in 1..(n + 1) : /\ i < k => i \in before
                               /\ i > k => (i - 1) \in 1..n /\ (i - 1) \notin before
                                           /\ i \notin before
    BY <1>2, <1>3, <1>5, <1>9
  <1>12. \A i \in 1..(n + 1) : /\ i < k => i \in 1..n /\ new[i] = index[i]
                               /\ i > k => new[i] = index[i - 1]
    BY <1>1, <1>2, <1>5, <1>11
  <1>13. Sorted(s, new)
    <2> SUFFICES ASSUME NEW i \in 1..(n + 1), NEW j \in 1..(n + 1), i < j
                 PROVE  Better(s, new[i], new[j])
      BY <1>6 DEF Sorted
    <2> HIDE DEF new
    <2>1. CASE j < k
      BY <2>1, <1>12 DEF Sorted
    <2>2. CASE j = k
      BY <2>2, <1>5, <1>10, <1>11, <1>12
    <2>3. CASE i < k /\ j > k
      <3>1. Better(s, index[i], p) /\ Better(s, p, index[j - 1])
        BY <2>3, <1>4, <1>5, <1>11
      <3>2. index[i] \in Nat /\ index[j - 1] \in Nat
        BY <2>3, <1>2, <1>11, <1>12
      <3> QED
        BY <3>1, <3>2, <2>3, <1>12 DEF Better
    <2>4. CASE i = k
      BY <2>4, <1>4, <1>10, <1>11, <1>12
    <2>5. CASE i > k
      BY <2>5, <1>11, <1>12 DEF Sorted
    <2> QED
      BY <2>1, <2>2, <2>3, <2>4, <2>5
  <1> QED
    BY <1>6, <1>7, <1>8, <1>10, <1>13 DEF Grown

(* Removing a price from a sorted index leaves it sorted and takes away    *)
(* just that price (removePrice).                                          *)
LEMMA RemovePriceProperties ==
    ASSUME NEW s \in Side, NEW S \in SUBSET Nat, NEW index \in Seq(S),
           Sorted(s, index),
           NEW at \in 1..Len(index)
    PROVE  Shrunk(s, S, RemovePrice(index, index[at]), index, index[at])
  <1> DEFINE p == index[at]
             new == RemovePrice(index, p)
  <1>1. PICK k \in 1..Len(index) : index[k] = p /\ new = RemoveAt(index, k)
    BY DEF RemovePrice
  <1>2. /\ new \in Seq(S)
        /\ Len(new) = Len(index) - 1
        /\ \A j \in 1..(Len(index) - 1) : new[j] = IF j < k THEN index[j] ELSE index[j + 1]
    BY <1>1, RemoveAtProperties
  <1>9. PICK old \in [1..(Len(index) - 1) -> 1..Len(index)] :
           /\ \A j \in 1..(Len(index) - 1) : new[j] = index[old[j]]
           /\ \A i, j \in 1..(Len(index) - 1) : i < j => old[i] < old[j]
    BY <1>1, RemoveAtPositions
  <1>3. \A i, j \in 1..Len(index) : i < j => Better(s, index[i], index[j])
    BY DEF Sorted
  <1>4. Len(index) \in Nat /\ \A i \in 1..Len(index) : index[i] \in Nat
    <2>1. Len(index) \in Nat /\ \A i \in 1..Len(index) : index[i] \in S
      OBVIOUS
    <2>2. \A x \in S : x \in Nat
      OBVIOUS
    <2> QED
      BY <2>1, <2>2
  <1>5. \A i \in 1..Len(index) : i # k => index[i] # p
    BY <1>1, <1>3, <1>4 DEF Better, Side
  <1> HIDE DEF new, p
  <1>6. \A i \in 1..Len(new) : new[i] # p /\ \E j \in 1..Len(index) : new[i] = index[j]
    BY <1>2, <1>5, <1>4
  <1>7. ASSUME NEW j \in 1..Len(index), index[j] # p
        PROVE  \E i \in 1..Len(new) : new[i] = index[j]
    <2>1. CASE j < k
      <3>1. j \in 1..(Len(index) - 1)
        BY <2>1, <1>4
      <3>2. j \in 1..Len(new) /\ new[j] = index[j]
        BY <1>2, <2>1, <3>1
      <3> QED BY <3>2
    <2>2. CASE j > k
      <3>1. (j - 1) \in 1..(Len(index) - 1) /\ ~(j - 1 < k) /\ (j - 1) + 1 = j
        <4>1. \A l \in Nat : \A a, b \in 1..l : a > b => (a - 1) \in 1..(l - 1) /\ ~(a - 1 < b)
          OBVIOUS
        <4> QED
          BY <2>2, <1>4, <4>1
      <3>2. (j - 1) \in 1..Len(new) /\ new[j - 1] = index[j]
        BY <1>2, <3>1
      <3> QED BY <3>2
    <2> QED
      BY <2>1, <2>2, <1>1, <1>7
  <1>8. Sorted(s, new)
    <2> SUFFICES ASSUME NEW i \in 1..Len(new), NEW j \in 1..Len(new), i < j
                 PROVE  Better(s, new[i], new[j])
      BY DEF Sorted
    <2>1. i \in 1..(Len(index) - 1) /\ j \in 1..(Len(index) - 1)
      BY <1>2
    <2>2. /\ old[i] \in 1..Len(index) /\ old[j] \in 1..Len(index) /\ old[i] < old[j]
          /\ new[i] = index[old[i]] /\ new[j] = index[old[j]]
      BY <2>1, <1>9
    <2> QED
      BY <2>2, <1>3
  <1> QED
    BY <1>2, <1>6, <1>7, <1>8 DEF new, p, Shrunk

----------------------------------------------------------------------------
(* One level and one side of the book                                      *)

(* The orders resting at price p of side s are live, arrived in the order  *)
(* they stand in, and none of them after the n-th placement.               *)
LevelOK(s, p, q, n) ==
    /\ q \in Seq(Order)
    /\ \A j \in 1..Len(q) :
          /\ q[j].side = s /\ q[j].price = p /\ q[j].type = "limit"
          /\ q[j].rem > 0 /\ q[j].rem <= q[j].qty /\ q[j].at <= n
    /\ \A i, j \in 1..Len(q) : i < j => q[i].at < q[j].at

(* The levels of side s and their index agree.                             *)
SideOK(s, level, index, n) ==
    /\ DOMAIN level \subseteq Prices
    /\ level = [p \in DOMAIN level |-> level[p]]
    /\ index \in Seq(Prices)
    /\ Sorted(s, index)
    /\ \A i \in 1..Len(index) : index[i] \in DOMAIN level
    /\ \A p \in DOMAIN level : \E i \in 1..Len(index) : index[i] = p
    /\ \A p \in DOMAIN level : level[p] # <<>> /\ LevelOK(s, p, level[p], n)

(* The stamps in a sound level are natural numbers no greater than n.      *)
LEMMA LevelStamps ==
    ASSUME NEW s, NEW p, NEW q, NEW n \in Nat, LevelOK(s, p, q, n)
    PROVE  /\ \A j \in 1..Len(q) : q[j] \in Order /\ q[j].at \in Nat /\ q[j].at <= n
           /\ LevelOK(s, p, q, n + 1)
  <1>1. q \in Seq(Order)
    BY DEF LevelOK
  <1>2. \A j \in 1..Len(q) : q[j] \in Order
    BY <1>1
  <1>3. \A x \in Order : x.at \in Nat
    BY DEF Order
  <1>4. \A j \in 1..Len(q) : q[j].at \in Nat /\ q[j].at <= n
    BY <1>2, <1>3 DEF LevelOK
  <1>5. \A j \in 1..Len(q) : q[j].at <= n + 1
    BY <1>4
  <1> QED
    BY <1>2, <1>4, <1>5 DEF LevelOK

(* Replacing the queue at one price by what a fill or a cancellation left  *)
(* of it, and dropping the price when nothing is left, keeps a side sound. *)
LEMMA WithLevelSound ==
    ASSUME NEW s \in Side, NEW n \in Nat, NEW level, NEW index,
           SideOK(s, level, index, n),
           NEW at \in 1..Len(index),
           NEW left, LevelOK(s, index[at], left, n)
    PROVE  /\ SideOK(s, WithLevel(level, index[at], left), IndexAfter(index, index[at], left), n)
           /\ DOMAIN WithLevel(level, index[at], left) \subseteq DOMAIN level
  <1> DEFINE price == index[at]
  <1>1. /\ Prices \in SUBSET Nat /\ index \in Seq(Prices) /\ Sorted(s, index)
        /\ price \in DOMAIN level
    BY PricesAssumption DEF SideOK
  <1>2. CASE left = <<>>
    <2> DEFINE new == RemovePrice(index, price)
               lev == [p \in DOMAIN level \ {price} |-> level[p]]
    <2>1. WithLevel(level, price, left) = lev /\ IndexAfter(index, price, left) = new
      BY <1>2 DEF WithLevel, IndexAfter
    <2>2. Shrunk(s, Prices, new, index, price)
      BY <1>1, RemovePriceProperties
    <2>3. DOMAIN lev = DOMAIN level \ {price} /\ \A p \in DOMAIN lev : lev[p] = level[p]
      OBVIOUS
    <2>4. lev = [p \in DOMAIN lev |-> lev[p]]
      OBVIOUS
    <2> HIDE DEF new, lev, price
    <2>5. SideOK(s, lev, new, n)
      <3>1. \A i \in 1..Len(new) : new[i] \in DOMAIN lev
        BY <2>2, <2>3 DEF Shrunk, SideOK
      <3>2. ASSUME NEW p \in DOMAIN lev PROVE \E i \in 1..Len(new) : new[i] = p
        <4>1. PICK j \in 1..Len(index) : index[j] = p
          BY <2>3 DEF SideOK
        <4>2. p # price
          BY <2>3
        <4> QED
          BY <2>2, <4>1, <4>2 DEF Shrunk
      <3>3. \A p \in DOMAIN lev : lev[p] # <<>> /\ LevelOK(s, p, lev[p], n)
        BY <2>3 DEF SideOK
      <3>4. DOMAIN lev \subseteq Prices
        BY <2>3 DEF SideOK
      <3> QED
        BY <2>2, <2>4, <3>1, <3>2, <3>3, <3>4 DEF Shrunk, SideOK
    <2>6. DOMAIN lev \subseteq DOMAIN level
      BY <2>3
    <2> QED
      BY <2>1, <2>5, <2>6 DEF price
  <1>3. CASE left # <<>>
    <2> DEFINE lev == [level EXCEPT ![price] = left]
    <2>1. WithLevel(level, price, left) = lev /\ IndexAfter(index, price, left) = index
      BY <1>3 DEF WithLevel, IndexAfter
    <2>2. /\ DOMAIN lev = DOMAIN level
          /\ lev[price] = left
          /\ \A p \in DOMAIN lev : p # price => lev[p] = level[p]
          /\ lev = [p \in DOMAIN lev |-> lev[p]]
      BY <1>1
    <2> HIDE DEF lev
    <2>3. SideOK(s, lev, index, n)
      BY <1>3, <2>2 DEF SideOK
    <2> QED
      BY <2>1, <2>2, <2>3
  <1> QED
    BY <1>2, <1>3

(* Resting an order that arrived last keeps a side sound.                  *)
LEMMA WithOrderSound ==
    ASSUME NEW s \in Side, NEW n \in Nat, NEW level, NEW index, NEW grown,
           SideOK(s, level, index, n),
           NEW o \in Order, o.side = s, o.type = "limit", o.price \in Prices,
           o.rem > 0, o.rem <= o.qty, o.at = n + 1,
           grown = IF o.price \in DOMAIN level THEN index ELSE InsertPrice(s, index, o.price)
    PROVE  /\ SideOK(s, WithOrder(level, o), grown, n + 1)
           /\ DOMAIN WithOrder(level, o) = DOMAIN level \cup {o.price}
  <1> DEFINE lev == WithOrder(level, o)
             queue == IF o.price \in DOMAIN level THEN Append(level[o.price], o) ELSE <<o>>
  <1>1. /\ DOMAIN lev = DOMAIN level \cup {o.price}
        /\ lev[o.price] = queue
        /\ \A p \in DOMAIN level : p # o.price => lev[p] = level[p]
        /\ lev = [p \in DOMAIN lev |-> lev[p]]
    BY DEF WithOrder
  <1>2. \A p \in DOMAIN level : LevelOK(s, p, level[p], n + 1)
    BY LevelStamps DEF SideOK
  <1>3. LevelOK(s, o.price, queue, n + 1) /\ queue # <<>>
    <2>1. CASE o.price \in DOMAIN level
      <3> DEFINE q == level[o.price]
      <3>1. LevelOK(s, o.price, q, n)
        BY <2>1 DEF SideOK
      <3>2. q \in Seq(Order)
        BY <3>1 DEF LevelOK
      <3>3. /\ Append(q, o) \in Seq(Order)
            /\ Len(Append(q, o)) = Len(q) + 1
            /\ \A j \in 1..Len(q) : Append(q, o)[j] = q[j]
            /\ Append(q, o)[Len(q) + 1] = o
            /\ Len(q) \in Nat
        BY <3>2
      <3>4. queue = Append(q, o)
        BY <2>1
      <3>5. \A j \in 1..Len(q) : q[j].at \in Nat /\ q[j].at <= n
        BY <3>1, LevelStamps
      <3> HIDE DEF q, queue
      <3>6. \A j \in 1..(Len(q) + 1) :
               LET x == Append(q, o)[j]
               IN  /\ x.side = s /\ x.price = o.price /\ x.type = "limit"
                   /\ x.rem > 0 /\ x.rem <= x.qty /\ x.at <= n + 1
        BY <3>1, <3>3, <3>5 DEF LevelOK
      <3>7. \A i, j \in 1..(Len(q) + 1) : i < j => Append(q, o)[i].at < Append(q, o)[j].at
        BY <3>1, <3>3, <3>5 DEF LevelOK
      <3>8. Append(q, o) # <<>>
        BY <3>3
      <3> QED
        BY <3>3, <3>4, <3>6, <3>7, <3>8 DEF LevelOK
    <2>2. CASE o.price \notin DOMAIN level
      <3>1. queue = <<o>>
        BY <2>2
      <3>2. <<o>> \in Seq(Order) /\ Len(<<o>>) = 1 /\ <<o>>[1] = o /\ <<o>> # <<>>
        OBVIOUS
      <3> HIDE DEF queue
      <3> QED
        BY <3>1, <3>2 DEF LevelOK, Order
    <2> QED
      BY <2>1, <2>2
  <1> HIDE DEF lev, queue
  <1>4. CASE o.price \in DOMAIN level
    <2>1. grown = index
      BY <1>4
    <2> QED
      BY <1>1, <1>2, <1>3, <1>4, <2>1 DEF SideOK, lev
  <1>5. CASE o.price \notin DOMAIN level
    <2> DEFINE new == InsertPrice(s, index, o.price)
    <2>1. /\ Prices \in SUBSET Nat /\ index \in Seq(Prices) /\ Sorted(s, index)
          /\ \A i \in 1..Len(index) : index[i] # o.price
      BY <1>5, PricesAssumption DEF SideOK
    <2>2. Grown(s, Prices, new, index, o.price)
      BY <2>1, InsertPriceProperties
    <2> HIDE DEF new
    <2>3. SideOK(s, lev, new, n + 1)
      <3>1. \A i \in 1..Len(new) : new[i] \in DOMAIN lev
        BY <1>1, <2>2 DEF Grown, SideOK
      <3>2. \A p \in DOMAIN lev : \E i \in 1..Len(new) : new[i] = p
        <4>1. \E i \in 1..Len(new) : new[i] = o.price
          BY <2>2 DEF Grown
        <4>2. ASSUME NEW p \in DOMAIN level PROVE \E i \in 1..Len(new) : new[i] = p
          <5>1. PICK j \in 1..Len(index) : index[j] = p
            BY DEF SideOK
          <5> QED BY <5>1, <2>2 DEF Grown
        <4> QED BY <4>1, <4>2, <1>1
      <3>3. \A p \in DOMAIN lev : lev[p] # <<>> /\ LevelOK(s, p, lev[p], n + 1)
        BY <1>1, <1>2, <1>3 DEF SideOK
      <3>4. DOMAIN lev \subseteq Prices
        BY <1>1 DEF SideOK
      <3> QED
        BY <1>1, <2>2, <3>1, <3>2, <3>3, <3>4 DEF Grown, SideOK
    <2>4. grown = new
      BY <1>5 DEF new
    <2> QED
      BY <1>1, <2>3, <2>4 DEF lev
  <1> QED
    BY <1>4, <1>5

(* What a fill leaves of the best level is a sound level.                  *)
LEMMA LevelAfterFillSound ==
    ASSUME NEW s, NEW p, NEW n \in Nat, NEW q, LevelOK(s, p, q, n), q # <<>>,
           NEW fill \in Nat, fill <= q[1].rem
    PROVE  LevelOK(s, p, LevelAfterFill(q, fill), n)
  <1>1. /\ q \in Seq(Order) /\ Len(q) \in Nat /\ Len(q) > 0
        /\ \A j \in 1..Len(q) : q[j] \in Order
    BY DEF LevelOK
  <1>2. CASE q[1].rem = fill
    <2>1. LevelAfterFill(q, fill) = Tail(q)
      BY <1>2 DEF LevelAfterFill
    <2>2. /\ Tail(q) \in Seq(Order) /\ Len(Tail(q)) = Len(q) - 1
          /\ \A j \in 1..(Len(q) - 1) : Tail(q)[j] = q[j + 1]
      BY <1>1
    <2>3. \A j \in 1..(Len(q) - 1) : (j + 1) \in 1..Len(q)
      BY <1>1
    <2> QED
      BY <1>1, <2>1, <2>2, <2>3 DEF LevelOK
  <1>3. CASE q[1].rem # fill
    <2> DEFINE head == [q[1] EXCEPT !.rem = q[1].rem - fill]
               new == [q EXCEPT ![1] = head]
    <2>1. LevelAfterFill(q, fill) = new
      BY <1>3 DEF LevelAfterFill
    <2>2. q[1] \in Order /\ q[1].rem \in Nat /\ q[1].qty \in Nat
      BY <1>1 DEF Order
    <2>3. q[1].rem - fill \in Nat /\ q[1].rem - fill > 0 /\ q[1].rem - fill <= q[1].rem
      BY <1>3, <2>2
    <2>4. /\ head \in Order /\ head.side = q[1].side /\ head.price = q[1].price
          /\ head.type = q[1].type /\ head.qty = q[1].qty /\ head.at = q[1].at
          /\ head.rem = q[1].rem - fill
      BY <2>2, <2>3 DEF Order
    <2>5. q[1].rem <= q[1].qty
      BY <1>1 DEF LevelOK
    <2>6. head.rem > 0 /\ head.rem <= head.qty
      BY <2>2, <2>3, <2>4, <2>5
    <2> HIDE DEF head
    <2>7. new \in Seq(Order) /\ Len(new) = Len(q) /\ new[1] = head
          /\ \A j \in 1..Len(q) : j # 1 => new[j] = q[j]
      BY <1>1, <2>4
    <2> HIDE DEF new
    <2>8. \A j \in 1..Len(q) : new[j].at = q[j].at
      BY <2>4, <2>7
    <2>9. \A j \in 1..Len(new) :
            /\ new[j].side = s /\ new[j].price = p /\ new[j].type = "limit"
            /\ new[j].rem > 0 /\ new[j].rem <= new[j].qty /\ new[j].at <= n
      BY <1>1, <2>4, <2>6, <2>7 DEF LevelOK
    <2> QED
      BY <2>1, <2>7, <2>8, <2>9 DEF LevelOK
  <1> QED
    BY <1>2, <1>3

(* A level without one of its orders is a sound level.                     *)
LEMMA RemoveAtSound ==
    ASSUME NEW s, NEW p, NEW n \in Nat, NEW q, LevelOK(s, p, q, n), NEW j \in 1..Len(q)
    PROVE  LevelOK(s, p, RemoveAt(q, j), n)
  <1> DEFINE new == RemoveAt(q, j)
  <1>1. q \in Seq(Order) /\ Len(q) \in Nat
    BY DEF LevelOK
  <1>2. /\ new \in Seq(Order)
        /\ Len(new) = Len(q) - 1
        /\ \A i \in 1..(Len(q) - 1) : new[i] = IF i < j THEN q[i] ELSE q[i + 1]
    BY <1>1, RemoveAtProperties
  <1>5. PICK old \in [1..(Len(q) - 1) -> 1..Len(q)] :
           /\ \A i \in 1..(Len(q) - 1) : new[i] = q[old[i]]
           /\ \A i, k \in 1..(Len(q) - 1) : i < k => old[i] < old[k]
    BY <1>1, RemoveAtPositions
  <1> HIDE DEF new
  <1>6. \A i \in 1..Len(new) : i \in 1..(Len(q) - 1)
    BY <1>2
  <1>3. \A i \in 1..Len(new) : \E k \in 1..Len(q) : new[i] = q[k]
    BY <1>5, <1>6
  <1>4. ASSUME NEW i \in 1..Len(new), NEW k \in 1..Len(new), i < k
        PROVE  new[i].at < new[k].at
    <2>1. /\ old[i] \in 1..Len(q) /\ old[k] \in 1..Len(q) /\ old[i] < old[k]
          /\ new[i] = q[old[i]] /\ new[k] = q[old[k]]
      BY <1>4, <1>5, <1>6
    <2> QED BY <2>1 DEF LevelOK
  <1> QED
    BY <1>2, <1>3, <1>4 DEF LevelOK, new

----------------------------------------------------------------------------
(* The inductive invariant                                                 *)

(* While an order is being placed, the resting ones arrived before it.     *)
Bound == IF pc = "matching" THEN placed - 1 ELSE placed

ScalarsOK ==
    /\ lastTradePrice \in Nat
    /\ sequence \in Nat
    /\ pc \in {"idle", "matching"}
    /\ incoming \in Order
    /\ trades \in Seq(Trade)
    /\ outcome \in OrderStatus \cup {"none", "error"}
    /\ placed \in Nat

BookOK ==
    /\ levels = [s \in Side |-> levels[s]]
    /\ prices = [s \in Side |-> prices[s]]
    /\ \A s \in Side : SideOK(s, levels[s], prices[s], Bound)

(* The order being placed is a valid one and the latest to arrive.         *)
IncomingOK ==
    pc = "matching" =>
        /\ placed > 0
        /\ incoming.at = placed
        /\ incoming.rem <= incoming.qty
        /\ incoming.type = "limit" => incoming.price \in Prices

IInv == ScalarsOK /\ BookOK /\ NeverCrossed /\ IncomingOK

LEMMA BoundNat == ScalarsOK /\ IncomingOK => Bound \in Nat
  BY DEF ScalarsOK, IncomingOK, Bound

(* A step that leaves the book, the pc and the stamps alone keeps them     *)
(* sound.                                                                  *)
LEMMA BookUnchanged ==
    ASSUME BookOK, NeverCrossed, UNCHANGED <<levels, prices>>, Bound' = Bound
    PROVE  BookOK' /\ NeverCrossed'
  BY DEF BookOK, NeverCrossed

(* Initially.                                                              *)
LEMMA InitInvariant == Init => IInv
  <1> SUFFICES ASSUME Init PROVE IInv
    OBVIOUS
  <1>1. ScalarsOK /\ IncomingOK /\ Bound = 0
    BY OpeningPriceAssumption DEF Init, ScalarsOK, IncomingOK, NoOrder, Order, Side, OrderType, Bound
  <1>2. ASSUME NEW s \in Side PROVE levels[s] = <<>> /\ prices[s] = <<>>
    BY DEF Init
  <1>3. ASSUME NEW s \in Side PROVE SideOK(s, <<>>, <<>>, 0)
    BY DEF SideOK, Sorted
  <1>4. BookOK
    BY <1>1, <1>2, <1>3 DEF BookOK, Init
  <1>5. NeverCrossed
    BY <1>2 DEF NeverCrossed, Side
  <1> QED
    BY <1>1, <1>4, <1>5 DEF IInv

(* A step that only replaces the queue at one price of one side by what    *)
(* is left of it keeps the whole book sound, and uncrossed.                *)
LEMMA ShrinkLevel ==
    ASSUME BookOK, NeverCrossed, Bound \in Nat, Bound' = Bound,
           NEW s \in Side, NEW at \in 1..Len(prices[s]),
           NEW left, LevelOK(s, prices[s][at], left, Bound),
           levels' = [levels EXCEPT ![s] = WithLevel(levels[s], prices[s][at], left)],
           prices' = [prices EXCEPT ![s] = IndexAfter(prices[s], prices[s][at], left)]
    PROVE  BookOK' /\ NeverCrossed'
  <1> DEFINE lev == WithLevel(levels[s], prices[s][at], left)
             index == IndexAfter(prices[s], prices[s][at], left)
  <1>1. SideOK(s, levels[s], prices[s], Bound)
    BY DEF BookOK
  <1>2. SideOK(s, lev, index, Bound) /\ DOMAIN lev \subseteq DOMAIN levels[s]
    BY <1>1, WithLevelSound
  <1> HIDE DEF lev, index
  <1>3. /\ levels' = [t \in Side |-> IF t = s THEN lev ELSE levels[t]]
        /\ prices' = [t \in Side |-> IF t = s THEN index ELSE prices[t]]
    BY DEF BookOK, lev, index
  <1>4. \A t \in Side : SideOK(t, levels'[t], prices'[t], Bound')
    BY <1>2, <1>3 DEF BookOK
  <1>5. \A t \in Side : DOMAIN levels'[t] \subseteq DOMAIN levels[t]
    BY <1>2, <1>3
  <1>6. NeverCrossed'
    BY <1>5 DEF NeverCrossed, Side
  <1> QED
    BY <1>3, <1>4, <1>6 DEF BookOK

(* What the matching loop relies on: the other side has a best order, and  *)
(* it is live.                                                             *)
LEMMA BestOrderExists ==
    ASSUME BookOK, NEW s \in Side, prices[s] # <<>>
    PROVE  /\ 1 \in 1..Len(prices[s])
           /\ BestPrice(s) = prices[s][1]
           /\ BestPrice(s) \in Prices /\ BestPrice(s) \in DOMAIN levels[s]
           /\ levels[s][BestPrice(s)] # <<>>
           /\ LevelOK(s, BestPrice(s), levels[s][BestPrice(s)], Bound)
           /\ BestOrder(s) = levels[s][BestPrice(s)][1]
           /\ BestOrder(s) \in Order /\ BestOrder(s).rem > 0
           /\ BestOrder(s).price = BestPrice(s) /\ BestOrder(s).type = "limit"
  <1>1. SideOK(s, levels[s], prices[s], Bound)
    BY DEF BookOK
  <1>2. prices[s] \in Seq(Prices) /\ Len(prices[s]) > 0
    BY <1>1 DEF SideOK
  <1>3. /\ 1 \in 1..Len(prices[s])
        /\ BestPrice(s) \in Prices /\ BestPrice(s) \in DOMAIN levels[s]
    BY <1>1, <1>2 DEF SideOK, BestPrice
  <1>4. /\ levels[s][BestPrice(s)] # <<>>
        /\ LevelOK(s, BestPrice(s), levels[s][BestPrice(s)], Bound)
    BY <1>1, <1>3 DEF SideOK
  <1> DEFINE q == levels[s][BestPrice(s)]
  <1>5. q \in Seq(Order) /\ Len(q) > 0 /\ 1 \in 1..Len(q)
    BY <1>4 DEF LevelOK
  <1>6. q[1] \in Order
    BY <1>5
  <1> QED
    BY <1>3, <1>4, <1>5, <1>6 DEF LevelOK, BestOrder, BestPrice

LEMMA PlaceStartInvariant ==
    ASSUME IInv, NEW r \in Request, PlaceStart(r) PROVE IInv'
  <1>1. /\ r.id \in OrderIds /\ r.player \in Players /\ r.side \in Side
        /\ r.type \in OrderType /\ r.price \in Prices \cup {0} /\ r.qty \in Nat
    BY QuantitiesAssumption DEF Request, OrderType
  <1>2. r.type = "limit" => r.price \in Prices
    BY <1>1 DEF PlaceStart, Valid
  <1>3. placed \in Nat /\ placed' = placed + 1 /\ pc = "idle" /\ pc' = "matching"
    BY DEF PlaceStart, IInv, ScalarsOK
  <1>4. Bound' = Bound
    BY <1>3 DEF Bound
  <1>5. BookOK' /\ NeverCrossed'
    BY <1>4, BookUnchanged DEF IInv, PlaceStart
  <1>6. incoming' \in Order /\ incoming'.at = placed' /\ incoming'.rem = incoming'.qty
        /\ incoming'.type = r.type /\ incoming'.price = r.price /\ incoming'.qty = r.qty
    BY <1>1, <1>3 DEF PlaceStart, Order
  <1>7. IncomingOK'
    BY <1>1, <1>2, <1>3, <1>6 DEF IncomingOK
  <1>8. ScalarsOK'
    BY <1>3, <1>6 DEF ScalarsOK, PlaceStart, IInv
  <1> QED
    BY <1>5, <1>7, <1>8 DEF IInv

(* One iteration of the loop takes a positive quantity from both orders.   *)
LEMMA MatchStepFill ==
    ASSUME IInv, MatchStep
    PROVE  LET s == Opposite(incoming.side)
               fill == Fill(incoming, BestOrder(s))
           IN  /\ s \in Side /\ prices[s] # <<>>
               /\ fill \in Nat /\ fill > 0
               /\ fill <= incoming.rem /\ fill <= BestOrder(s).rem
  <1> DEFINE s == Opposite(incoming.side)
  <1>1. incoming \in Order /\ incoming.rem \in Nat /\ incoming.rem > 0
    BY DEF IInv, ScalarsOK, MatchStep, Order
  <1>2. s \in Side /\ prices[s] # <<>>
    BY <1>1 DEF MatchStep, CanCross, Opposite, Side, Order
  <1>3. BestOrder(s) \in Order /\ BestOrder(s).rem > 0
    BY <1>2, BestOrderExists DEF IInv
  <1>4. BestOrder(s).rem \in Nat
    BY <1>3 DEF Order
  <1> HIDE DEF s
  <1> QED
    BY <1>1, <1>2, <1>3, <1>4 DEF Fill, s

LEMMA MatchStepInvariant == ASSUME IInv, MatchStep PROVE IInv'
  <1> DEFINE s       == Opposite(incoming.side)
             price   == BestPrice(s)
             resting == BestOrder(s)
             fill    == Fill(incoming, resting)
             left    == LevelAfterFill(levels[s][price], fill)
  <1>1. /\ s \in Side /\ prices[s] # <<>>
        /\ fill \in Nat /\ fill > 0 /\ fill <= incoming.rem /\ fill <= resting.rem
    BY MatchStepFill
  <1>2. /\ 1 \in 1..Len(prices[s]) /\ price = prices[s][1]
        /\ levels[s][price] # <<>> /\ LevelOK(s, price, levels[s][price], Bound)
        /\ resting = levels[s][price][1] /\ resting \in Order
        /\ resting.price = price /\ price \in Prices /\ resting.type = "limit"
    BY <1>1, BestOrderExists DEF IInv
  <1>3. Bound \in Nat /\ Bound' = Bound
    BY BoundNat DEF IInv, MatchStep, Bound
  <1>4. LevelOK(s, price, left, Bound)
    BY <1>1, <1>2, <1>3, LevelAfterFillSound
  <1>5. /\ levels' = [levels EXCEPT ![s] = WithLevel(levels[s], price, left)]
        /\ prices' = [prices EXCEPT ![s] = IndexAfter(prices[s], price, left)]
        /\ incoming' = [incoming EXCEPT !.rem = incoming.rem - fill]
        /\ trades' = Append(trades, TradeOf(incoming, resting))
        /\ lastTradePrice' = TradePrice(resting, incoming)
        /\ sequence' = sequence + 1
        /\ UNCHANGED <<pc, outcome, placed>>
    BY DEF MatchStep, NextSequence
  <1> HIDE DEF s, price, resting, fill, left
  <1>6. BookOK' /\ NeverCrossed'
    BY <1>1, <1>2, <1>3, <1>4, <1>5, ShrinkLevel DEF IInv
  <1>7. incoming \in Order /\ incoming.rem \in Nat /\ incoming.qty \in Nat
    BY DEF IInv, ScalarsOK, Order
  <1>8. incoming' \in Order /\ incoming'.at = incoming.at /\ incoming'.qty = incoming.qty
        /\ incoming'.type = incoming.type /\ incoming'.price = incoming.price
        /\ incoming'.rem = incoming.rem - fill
    <2>1. incoming.rem - fill \in Nat
      BY <1>1, <1>7
    <2> QED
      BY <1>5, <1>7, <2>1 DEF Order
  <1>9. IncomingOK'
    BY <1>1, <1>5, <1>7, <1>8 DEF IInv, IncomingOK
  <1>10. TradePrice(resting, incoming) \in Nat
    BY <1>2, <1>7, PricesAssumption DEF TradePrice
  <1>11. TradeOf(incoming, resting) \in Trade
    BY <1>1, <1>2, <1>7, <1>10 DEF TradeOf, Trade, Order, fill
  <1>12. ScalarsOK'
    BY <1>5, <1>8, <1>10, <1>11 DEF IInv, ScalarsOK
  <1> QED
    BY <1>6, <1>9, <1>12 DEF IInv

LEMMA PlaceFinishInvariant == ASSUME IInv, PlaceFinish PROVE IInv'
  <1> DEFINE s == incoming.side
  <1>1. /\ incoming \in Order /\ s \in Side /\ incoming.rem \in Nat
        /\ placed \in Nat /\ placed > 0 /\ incoming.at = placed
        /\ incoming.rem <= incoming.qty
        /\ incoming.type = "limit" => incoming.price \in Prices
    BY DEF IInv, ScalarsOK, IncomingOK, PlaceFinish, Order
  <1>2. Bound = placed - 1 /\ Bound' = placed /\ Bound \in Nat
    BY <1>1 DEF Bound, PlaceFinish
  <1>3. IncomingOK'
    BY DEF IncomingOK, PlaceFinish
  <1>4. ScalarsOK'
    <2>1. StatusOf(incoming) \in OrderStatus
      BY DEF StatusOf, OrderStatus
    <2> QED
      BY <2>1 DEF IInv, ScalarsOK, PlaceFinish, NextSequence
  <1>5. \A t \in Side : SideOK(t, levels[t], prices[t], Bound)
    BY DEF IInv, BookOK
  <1>6. \A t \in Side : SideOK(t, levels[t], prices[t], placed)
    <2> SUFFICES ASSUME NEW t \in Side PROVE SideOK(t, levels[t], prices[t], placed)
      OBVIOUS
    <2>1. \A p \in DOMAIN levels[t] : LevelOK(t, p, levels[t][p], Bound + 1)
      BY <1>2, <1>5, LevelStamps DEF SideOK
    <2> QED
      BY <1>1, <1>2, <1>5, <2>1 DEF SideOK
  <1>7. CASE ~Rests(incoming)
    BY <1>2, <1>3, <1>4, <1>6, <1>7 DEF IInv, BookOK, NeverCrossed, PlaceFinish
  <1>8. CASE Rests(incoming)
    <2> DEFINE lev == WithOrder(levels[s], incoming)
               index == IF incoming.price \in DOMAIN levels[s] THEN prices[s]
                        ELSE InsertPrice(s, prices[s], incoming.price)
    <2>1. incoming.rem > 0 /\ incoming.type = "limit" /\ incoming.price \in Prices
      BY <1>1, <1>8 DEF Rests
    <2>2. SideOK(s, lev, index, placed) /\ DOMAIN lev = DOMAIN levels[s] \cup {incoming.price}
      <3>1. incoming.at = Bound + 1 /\ Bound + 1 = placed
        BY <1>1, <1>2
      <3>2. SideOK(s, levels[s], prices[s], Bound)
        BY <1>1, <1>5
      <3>3. index = IF incoming.price \in DOMAIN levels[s] THEN prices[s]
                    ELSE InsertPrice(s, prices[s], incoming.price)
        OBVIOUS
      <3>4. s \in Side /\ incoming \in Order /\ incoming.side = s /\ Bound \in Nat
        BY <1>1, <1>2
      <3>5. incoming.rem <= incoming.qty
        BY <1>1
      <3> HIDE DEF s, index
      <3>6. SideOK(s, WithOrder(levels[s], incoming), index, Bound + 1)
            /\ DOMAIN WithOrder(levels[s], incoming) = DOMAIN levels[s] \cup {incoming.price}
        BY <2>1, <3>1, <3>2, <3>3, <3>4, <3>5, WithOrderSound
      <3> QED
        BY <3>1, <3>6 DEF lev
    <2>3. /\ levels' = [levels EXCEPT ![s] = lev]
          /\ prices' = [prices EXCEPT ![s] = index]
      <3>1. prices = [prices EXCEPT ![s] = prices[s]]
        BY <1>1 DEF IInv, BookOK
      <3> QED
        BY <1>8, <3>1 DEF PlaceFinish
    <2> HIDE DEF lev, index
    <2>4. /\ levels' = [t \in Side |-> IF t = s THEN lev ELSE levels[t]]
          /\ prices' = [t \in Side |-> IF t = s THEN index ELSE prices[t]]
      BY <2>3 DEF IInv, BookOK
    <2>5. BookOK'
      BY <1>2, <1>6, <2>2, <2>4 DEF BookOK
    <2>6. \A p \in DOMAIN levels[Opposite(s)] : Better(Opposite(s), incoming.price, p)
      <3> DEFINE t == Opposite(s)
      <3> SUFFICES ASSUME NEW p \in DOMAIN levels[t] PROVE Better(t, incoming.price, p)
        OBVIOUS
      <3>1. t \in Side
        BY <1>1 DEF Opposite, Side
      <3>2. SideOK(t, levels[t], prices[t], Bound)
        BY <3>1, <1>5
      <3>3. prices[t] \in Seq(Prices) /\ Prices \subseteq Nat /\ incoming.price \in Nat
        BY <2>1, <3>2, PricesAssumption DEF SideOK
      <3>4. PICK i \in 1..Len(prices[t]) : prices[t][i] = p
        BY <3>2 DEF SideOK
      <3>5. prices[t] # <<>> /\ 1 \in 1..Len(prices[t])
        BY <3>3, <3>4
      <3>6. Better(t, incoming.price, prices[t][1])
        BY <2>1, <3>5 DEF PlaceFinish, CanCross
      <3>7. prices[t][1] \in Nat /\ p \in Nat
        <4>1. prices[t][1] \in Prices /\ prices[t][i] \in Prices
          BY <3>3, <3>4, <3>5
        <4> QED
          BY <3>3, <3>4, <4>1
      <3>8. i = 1 \/ Better(t, prices[t][1], p)
        BY <3>2, <3>4, <3>5 DEF SideOK, Sorted
      <3> HIDE DEF t
      <3> QED
        BY <3>3, <3>4, <3>6, <3>7, <3>8 DEF Better
    <2>7. NeverCrossed'
      <3>1. CASE s = "buy"
        <4>1. Opposite(s) = "sell" /\ levels'["sell"] = levels["sell"] /\ levels'["buy"] = lev
          BY <3>1, <2>4 DEF Opposite, Side
        <4>2. \A p \in DOMAIN levels["sell"] : incoming.price < p
          BY <2>6, <4>1 DEF Better
        <4> QED
          BY <3>1, <4>1, <4>2, <2>2 DEF NeverCrossed, IInv
      <3>2. CASE s = "sell"
        <4>1. Opposite(s) = "buy" /\ levels'["buy"] = levels["buy"] /\ levels'["sell"] = lev
          BY <3>2, <2>4 DEF Opposite, Side
        <4>2. /\ DOMAIN levels["buy"] \subseteq Prices /\ Prices \subseteq Nat
              /\ incoming.price \in Nat
          BY <1>5, <2>1, PricesAssumption DEF SideOK, Side
        <4>3. \A p \in DOMAIN levels["buy"] : p < incoming.price
          BY <2>6, <4>1, <4>2 DEF Better
        <4> QED
          BY <3>2, <4>1, <4>3, <2>2 DEF NeverCrossed, IInv
      <3> QED
        BY <1>1, <3>1, <3>2 DEF Side
    <2> QED
      BY <1>3, <1>4, <2>5, <2>7 DEF IInv
  <1> QED
    BY <1>7, <1>8

LEMMA CancelInvariant ==
    ASSUME IInv, NEW s \in Side, NEW id \in OrderIds, CancelOn(s, id) PROVE IInv'
  <1>1. PICK i \in DOMAIN prices[s] : \E j \in DOMAIN levels[s][prices[s][i]] :
           LET left == RemoveAt(levels[s][prices[s][i]], j)
           IN  /\ levels' = [levels EXCEPT ![s] = WithLevel(levels[s], prices[s][i], left)]
               /\ prices' = [prices EXCEPT ![s] = IndexAfter(prices[s], prices[s][i], left)]
    BY DEF CancelOn
  <1> DEFINE q == levels[s][prices[s][i]]
  <1>2. PICK j \in DOMAIN q :
           /\ levels' = [levels EXCEPT ![s] = WithLevel(levels[s], prices[s][i], RemoveAt(q, j))]
           /\ prices' = [prices EXCEPT ![s] = IndexAfter(prices[s], prices[s][i], RemoveAt(q, j))]
    BY <1>1
  <1>3. Bound \in Nat /\ Bound' = Bound
    BY BoundNat DEF IInv, CancelOn, Bound
  <1>4. SideOK(s, levels[s], prices[s], Bound)
    BY DEF IInv, BookOK
  <1>5. i \in 1..Len(prices[s])
    BY <1>4 DEF SideOK
  <1>6. LevelOK(s, prices[s][i], q, Bound)
    BY <1>4, <1>5 DEF SideOK
  <1> HIDE DEF q
  <1>7. j \in 1..Len(q)
    <2>1. q \in Seq(Order)
      BY <1>6 DEF LevelOK
    <2> QED
      BY <1>2, <2>1
  <1>8. LevelOK(s, prices[s][i], RemoveAt(q, j), Bound)
    BY <1>3, <1>6, <1>7, RemoveAtSound
  <1>9. BookOK' /\ NeverCrossed'
    <2>1. /\ levels' = [levels EXCEPT ![s] = WithLevel(levels[s], prices[s][i], RemoveAt(q, j))]
          /\ prices' = [prices EXCEPT ![s] = IndexAfter(prices[s], prices[s][i], RemoveAt(q, j))]
      BY <1>2
    <2>2. BookOK /\ NeverCrossed
      BY DEF IInv
    <2>3. PICK left : left = RemoveAt(q, j)
      OBVIOUS
    <2> QED
      BY ONLY <1>3, <1>5, <1>8, <2>1, <2>2, <2>3, ShrinkLevel, s \in Side
  <1>10. ScalarsOK' /\ IncomingOK'
    BY DEF IInv, ScalarsOK, IncomingOK, CancelOn, NextSequence, OrderStatus
  <1> QED
    BY <1>9, <1>10 DEF IInv

LEMMA NextInvariant == IInv /\ [Next]_vars => IInv'
  <1> SUFFICES ASSUME IInv, [Next]_vars PROVE IInv'
    OBVIOUS
  <1>1. CASE UNCHANGED <<levels, prices, lastTradePrice, sequence, pc, incoming, trades, placed>>
             /\ outcome' \in OrderStatus \cup {"none", "error"}
    <2>1. Bound' = Bound
      BY <1>1 DEF Bound
    <2>2. BookOK' /\ NeverCrossed'
      BY <1>1, <2>1, BookUnchanged DEF IInv
    <2> QED
      BY <1>1, <2>2 DEF IInv, ScalarsOK, IncomingOK
  <1>2. ASSUME NEW r \in Request, PlaceInvalid(r) PROVE IInv'
    BY <1>1, <1>2 DEF PlaceInvalid
  <1>3. ASSUME NEW r \in Request, PlaceStart(r) PROVE IInv'
    BY <1>3, PlaceStartInvariant
  <1>4. CASE MatchStep
    BY <1>4, MatchStepInvariant
  <1>5. CASE PlaceFinish
    BY <1>5, PlaceFinishInvariant
  <1>6. ASSUME NEW id \in OrderIds, Cancel(id) PROVE IInv'
    BY <1>6, CancelInvariant DEF Cancel
  <1>7. ASSUME NEW id \in OrderIds, CancelUnknown(id) PROVE IInv'
    BY <1>1, <1>7 DEF CancelUnknown
  <1>8. CASE UNCHANGED vars
    BY <1>1, <1>8 DEF vars, IInv, ScalarsOK
  <1> QED
    BY <1>2, <1>3, <1>4, <1>5, <1>6, <1>7, <1>8 DEF Next

----------------------------------------------------------------------------
(* The theorems                                                            *)

LEMMA InductiveInvariant == Spec => []IInv
  BY InitInvariant, NextInvariant, PTL DEF Spec

LEMMA LevelDomain ==
    ASSUME IInv, NEW s \in Side
    PROVE  /\ DOMAIN prices[s] = 1..Len(prices[s])
           /\ \A p \in DOMAIN levels[s] : /\ levels[s][p] \in Seq(Order)
                                          /\ DOMAIN levels[s][p] = 1..Len(levels[s][p])
  BY DEF IInv, BookOK, SideOK, LevelOK

(* The book is well typed in every state.                                  *)
THEOREM TypeCorrect == Spec => []TypeOK
  <1>1. IInv => TypeOK
    <2> SUFFICES ASSUME IInv PROVE TypeOK
      OBVIOUS
    <2>1. \A s \in Side : /\ DOMAIN levels[s] \subseteq Prices
                          /\ levels[s] \in [DOMAIN levels[s] -> Seq(Order)]
                          /\ prices[s] \in Seq(Prices)
      BY LevelDomain DEF IInv, BookOK, SideOK
    <2>2. prices \in [Side -> Seq(Prices)] /\ levels = [s \in Side |-> levels[s]]
      BY <2>1 DEF IInv, BookOK
    <2> QED
      BY <2>1, <2>2 DEF IInv, ScalarsOK, TypeOK
  <1> QED
    BY <1>1, InductiveInvariant, PTL

(* The price index and the map of levels never disagree, so the "missing   *)
(* level" and "empty level" errors of the matching loop cannot occur.      *)
THEOREM IndexAgrees == Spec => []IndexMatchesLevels
  <1>1. IInv => IndexMatchesLevels
    <2> SUFFICES ASSUME IInv, NEW s \in Side
                 PROVE  /\ \A i, j \in DOMAIN prices[s] : i < j => Better(s, prices[s][i], prices[s][j])
                        /\ \A i \in DOMAIN prices[s] : prices[s][i] \in DOMAIN levels[s]
                        /\ \A p \in DOMAIN levels[s] : \E i \in DOMAIN prices[s] : prices[s][i] = p
                        /\ \A p \in DOMAIN levels[s] : levels[s][p] # <<>>
      BY DEF IndexMatchesLevels
    <2>1. SideOK(s, levels[s], prices[s], Bound)
      BY DEF IInv, BookOK
    <2> QED
      BY <2>1, LevelDomain DEF SideOK, Sorted
  <1> QED
    BY <1>1, InductiveInvariant, PTL

(* Only live limit orders rest, each where it belongs.                     *)
THEOREM OnlyLiveOrdersRest == Spec => []RestingOrdersAreLive
  <1>1. IInv => RestingOrdersAreLive
    <2> SUFFICES ASSUME IInv, NEW s \in Side, NEW p \in DOMAIN levels[s],
                        NEW j \in DOMAIN levels[s][p]
                 PROVE  LET o == levels[s][p][j]
                        IN  /\ o.side = s /\ o.price = p /\ o.type = "limit"
                            /\ o.rem > 0 /\ o.rem <= o.qty
      BY DEF RestingOrdersAreLive
    <2>1. LevelOK(s, p, levels[s][p], Bound)
      BY DEF IInv, BookOK, SideOK
    <2> QED
      BY <2>1, LevelDomain DEF LevelOK
  <1> QED
    BY <1>1, InductiveInvariant, PTL

(* The best bid is below the best ask in every state.                      *)
THEOREM BookNeverCrossed == Spec => []NeverCrossed
  <1>1. IInv => NeverCrossed
    BY DEF IInv
  <1> QED
    BY <1>1, InductiveInvariant, PTL

(* Orders of one price stand in the order of their arrival.                *)
THEOREM FirstComeFirstServed == Spec => []TimePriority
  <1>1. IInv => TimePriority
    <2> SUFFICES ASSUME IInv, NEW s \in Side, NEW p \in DOMAIN levels[s]
                 PROVE  \A i, j \in DOMAIN levels[s][p] :
                            i < j => levels[s][p][i].at < levels[s][p][j].at
      BY DEF TimePriority
    <2>1. LevelOK(s, p, levels[s][p], Bound)
      BY DEF IInv, BookOK, SideOK
    <2> QED
      BY <2>1, LevelDomain DEF LevelOK
  <1> QED
    BY <1>1, InductiveInvariant, PTL

(* What the trades of an order and its remaining quantity add up to: the   *)
(* sum over the list of trades, and over that list with one more trade.    *)
LEMMA TradedQuantity ==
    ASSUME NEW list \in Seq(Trade)
    PROVE  /\ Taken(list) \in Int
           /\ \A t \in Trade : Taken(Append(list, t)) = t.qty + Taken(list)
  <1>1. PICK n, f : n = Len(list) /\ f = [i \in DOMAIN list |-> list[i].qty]
    OBVIOUS
  <1>2. n \in Nat /\ DOMAIN list = 1..n /\ DOMAIN f = 1..n /\ \A i \in 1..n : f[i] = list[i].qty
    BY <1>1
  <1>3. \A t \in Trade : t.qty \in Int
    BY DEF Trade
  <1>4. \A i \in 1..n : f[i] \in Int
    BY <1>2, <1>3
  <1>5. IsFiniteSet(1..n)
    <2>1. 1 \in Int /\ n \in Int
      BY <1>2
    <2> QED
      BY <2>1, FS_Interval
  <1>6. Taken(list) \in Int /\ Taken(list) = SumFunctionOnSet(f, 1..n)
    BY <1>1, <1>2, <1>4, <1>5, SumOut DEF SumFunction, Taken
  <1>7. ASSUME NEW t \in Trade
        PROVE  Taken(Append(list, t)) = t.qty + Taken(list)
    <2>1. PICK g : g = [i \in DOMAIN Append(list, t) |-> Append(list, t)[i].qty]
      OBVIOUS
    <2>2. DOMAIN g = 1..(n + 1) /\ g[n + 1] = t.qty /\ \A i \in 1..n : g[i] = f[i]
      <3>1. /\ DOMAIN Append(list, t) = 1..(n + 1) /\ Append(list, t)[n + 1] = t
            /\ \A i \in 1..n : Append(list, t)[i] = list[i] /\ i \in 1..(n + 1)
            /\ n + 1 \in 1..(n + 1)
        BY <1>1, <1>2
      <3> QED
        BY <1>2, <2>1, <3>1
    <2>3. \A i \in 1..(n + 1) : g[i] \in Int
      BY <1>2, <1>3, <1>4, <2>2
    <2>4. SumFunctionOnSet(g, 1..(n + 1)) = g[n + 1] + SumFunctionOnSet(g, 1..n)
      BY <1>2, <2>3, SumAppend
    <2>5. SumFunctionOnSet(g, 1..n) = SumFunctionOnSet(f, 1..n)
      BY <1>5, <2>2, SumAlike
    <2> QED
      BY <1>6, <2>1, <2>2, <2>4, <2>5 DEF SumFunction, Taken
  <1> QED
    BY <1>6, <1>7

(* No share is invented or lost while an order is worked.                  *)
THEOREM NoShareLost == Spec => []QuantityConserved
  <1>1. Init => QuantityConserved
    BY DEF Init, QuantityConserved
  <1>2. IInv /\ QuantityConserved /\ [Next]_vars => QuantityConserved'
    <2> SUFFICES ASSUME IInv, QuantityConserved, [Next]_vars PROVE QuantityConserved'
      OBVIOUS
    <2>1. ASSUME UNCHANGED <<incoming, trades, placed>> PROVE QuantityConserved'
      BY <2>1 DEF QuantityConserved
    <2>2. ASSUME NEW r \in Request, PlaceStart(r) PROVE QuantityConserved'
      <3>1. incoming'.rem = r.qty /\ incoming'.qty = r.qty /\ trades' = <<>>
        BY <2>2 DEF PlaceStart
      <3>2. r.qty \in Nat
        BY QuantitiesAssumption DEF Request
      <3>3. Taken(<<>>) = 0
        <4>1. DOMAIN [i \in DOMAIN <<>> |-> <<>>[i].qty] = {}
          OBVIOUS
        <4> QED
          BY <4>1, SumEmpty DEF SumFunction, Taken
      <3> QED
        BY <3>1, <3>2, <3>3 DEF QuantityConserved
    <2>3. ASSUME MatchStep PROVE QuantityConserved'
      <3>1. PICK fill, t : /\ fill = Fill(incoming, BestOrder(Opposite(incoming.side)))
                           /\ t = TradeOf(incoming, BestOrder(Opposite(incoming.side)))
        OBVIOUS
      <3>2. /\ incoming' = [incoming EXCEPT !.rem = incoming.rem - fill]
            /\ trades' = Append(trades, t) /\ placed' = placed
        BY <2>3, <3>1 DEF MatchStep
      <3>3. fill \in Nat /\ t.qty = fill
        <4>1. fill \in Nat
          BY <2>3, <3>1, MatchStepFill
        <4>2. t.qty = fill
          BY <3>1 DEF TradeOf
        <4> QED
          BY <4>1, <4>2
      <3>4. trades \in Seq(Trade) /\ trades' \in Seq(Trade)
        <4>1. IInv'
          BY <2>3, MatchStepInvariant
        <4> QED
          BY <4>1 DEF IInv, ScalarsOK
      <3>5. t \in Trade
        <4>1. /\ trades'[Len(trades) + 1] = t /\ Len(trades') = Len(trades) + 1
              /\ Len(trades) + 1 \in 1..Len(trades')
          BY <3>2, <3>4
        <4> QED
          BY <3>4, <4>1
      <3>6. /\ incoming.rem \in Nat /\ incoming.qty \in Nat /\ incoming'.qty = incoming.qty
            /\ incoming'.rem = incoming.rem - fill
        BY <3>2 DEF IInv, ScalarsOK, Order
      <3>7. Taken(trades) \in Int /\ Taken(trades') = fill + Taken(trades)
        BY <3>2, <3>3, <3>4, <3>5, TradedQuantity
      <3>8. placed > 0 => incoming.rem + Taken(trades) = incoming.qty
        BY DEF QuantityConserved
      <3>9. placed' > 0 => incoming'.rem + Taken(trades') = incoming'.qty
        BY <3>2, <3>3, <3>6, <3>7, <3>8
      <3> QED
        BY <3>9 DEF QuantityConserved
    <2> QED
      BY <2>1, <2>2, <2>3
      DEF Next, PlaceInvalid, PlaceFinish, Cancel, CancelOn, CancelUnknown, vars
  <1> QED
    BY <1>1, <1>2, InductiveInvariant, PTL DEF Spec

(* Every iteration of the matching loop shrinks the incoming order.        *)
THEOREM MatchingTerminates == Spec => LoopMakesProgress
  <1>1. IInv /\ [Next]_vars =>
            [pc = "matching" /\ pc' = "matching" => incoming'.rem < incoming.rem]_vars
    <2> SUFFICES ASSUME IInv, Next, pc = "matching", pc' = "matching"
                 PROVE  incoming'.rem < incoming.rem
      OBVIOUS
    <2>1. MatchStep
      BY DEF Next, PlaceInvalid, PlaceStart, PlaceFinish, Cancel, CancelOn, CancelUnknown
    <2> DEFINE fill == Fill(incoming, BestOrder(Opposite(incoming.side)))
    <2>2. fill \in Nat /\ fill > 0
      BY <2>1, MatchStepFill
    <2>3. incoming \in Order /\ incoming.rem \in Nat
      BY DEF IInv, ScalarsOK, Order
    <2>4. incoming' = [incoming EXCEPT !.rem = incoming.rem - fill]
      BY <2>1 DEF MatchStep
    <2> HIDE DEF fill
    <2>5. incoming'.rem = incoming.rem - fill
      BY <2>3, <2>4 DEF Order
    <2> QED
      BY <2>2, <2>3, <2>5
  <1> QED
    BY <1>1, InductiveInvariant, PTL DEF Spec, LoopMakesProgress

----------------------------------------------------------------------------
(* The book implements PriceTimeBook: every step of the maps, queues and   *)
(* sorted indexes is a step of price-time priority over the set of resting *)
(* orders, or changes nothing of it.                                       *)


----------------------------------------------------------------------------
(* The orders of a queue as a set                                          *)

(* No order stands twice in a level.                                       *)
LEMMA LevelDistinct ==
    ASSUME NEW s, NEW p, NEW n \in Nat, NEW q, LevelOK(s, p, q, n)
    PROVE  /\ q \in Seq(Order) /\ DOMAIN q = 1..Len(q) /\ Len(q) \in Nat
           /\ \A i, j \in 1..Len(q) : i # j => q[i] # q[j]
  <1>1. q \in Seq(Order) /\ DOMAIN q = 1..Len(q) /\ Len(q) \in Nat
    BY DEF LevelOK
  <1>2. \A j \in 1..Len(q) : q[j].at \in Nat
    BY LevelStamps
  <1>3. ASSUME NEW i \in 1..Len(q), NEW j \in 1..Len(q), i # j PROVE q[i].at # q[j].at
    <2>1. i < j \/ j < i
      BY <1>1, <1>3
    <2>2. \A a, b \in 1..Len(q) : a < b => q[a].at < q[b].at
      BY DEF LevelOK
    <2>3. q[i].at < q[j].at \/ q[j].at < q[i].at
      BY <2>1, <2>2
    <2> QED
      BY <1>2, <2>3
  <1> QED
    BY <1>1, <1>3

LEMMA SetWithout ==
    ASSUME NEW s, NEW p, NEW n \in Nat, NEW q, LevelOK(s, p, q, n), NEW k \in 1..Len(q)
    PROVE  ToSet(RemoveAt(q, k)) = ToSet(q) \ {q[k]}
  <1>1. /\ q \in Seq(Order) /\ DOMAIN q = 1..Len(q) /\ Len(q) \in Nat
        /\ \A i, j \in 1..Len(q) : i # j => q[i] # q[j]
    BY LevelDistinct
  <1>2. PICK b : b = RemoveAt(q, k)
    OBVIOUS
  <1>3. /\ b \in Seq(Order) /\ Len(b) = Len(q) - 1
        /\ \A j \in 1..(Len(q) - 1) : b[j] = IF j < k THEN q[j] ELSE q[j + 1]
    BY <1>1, <1>2, RemoveAtProperties
  <1>4. DOMAIN b = 1..(Len(q) - 1)
    BY <1>1, <1>3
  <1>5. ASSUME NEW o \in ToSet(b) PROVE o \in ToSet(q) /\ o # q[k]
    <2>1. PICK j \in 1..(Len(q) - 1) : o = b[j]
      BY <1>4 DEF ToSet
    <2>2. PICK i \in 1..Len(q) : i # k /\ o = q[i]
      <3>1. CASE j < k
        BY <1>1, <1>3, <2>1, <3>1
      <3>2. CASE ~(j < k)
        <4>1. j + 1 \in 1..Len(q) /\ j + 1 # k /\ o = q[j + 1]
          BY <1>1, <1>3, <2>1, <3>2
        <4> QED
          BY <4>1
      <3> QED
        BY <3>1, <3>2
    <2> QED
      BY <1>1, <2>2 DEF ToSet
  <1>6. ASSUME NEW o \in ToSet(q), o # q[k] PROVE o \in ToSet(b)
    <2>1. PICK i \in 1..Len(q) : o = q[i] /\ i # k
      BY <1>1, <1>6 DEF ToSet
    <2>2. CASE i < k
      <3>1. i \in 1..(Len(q) - 1) /\ b[i] = q[i]
        BY <1>1, <1>3, <2>1, <2>2
      <3> QED
        BY <1>4, <2>1, <3>1 DEF ToSet
    <2>3. CASE ~(i < k)
      <3>1. i - 1 \in 1..(Len(q) - 1) /\ ~(i - 1 < k) /\ (i - 1) + 1 = i
        BY <1>1, <2>1, <2>3
      <3>2. b[i - 1] = q[i]
        BY <1>3, <3>1
      <3> QED
        BY <1>4, <2>1, <3>1, <3>2 DEF ToSet
    <2> QED
      BY <2>2, <2>3
  <1> QED
    BY <1>2, <1>5, <1>6

(* A fill takes the first order of the level, or leaves less of it.        *)
LEMMA SetAfterFill ==
    ASSUME NEW s, NEW p, NEW n \in Nat, NEW q, LevelOK(s, p, q, n), q # <<>>, NEW fill \in Nat,
           NEW less, less = [q[1] EXCEPT !.rem = q[1].rem - fill]
    PROVE  ToSet(LevelAfterFill(q, fill)) =
               (ToSet(q) \ {q[1]}) \cup (IF q[1].rem = fill THEN {} ELSE {less})
  <1>1. /\ q \in Seq(Order) /\ DOMAIN q = 1..Len(q) /\ Len(q) \in Nat
        /\ \A i, j \in 1..Len(q) : i # j => q[i] # q[j]
    BY LevelDistinct
  <1>2. 1 \in 1..Len(q)
    BY <1>1
  <1>3. CASE q[1].rem = fill
    <2>1. /\ LevelAfterFill(q, fill) = Tail(q)
          /\ Tail(q) \in Seq(Order) /\ Len(Tail(q)) = Len(q) - 1
          /\ \A j \in 1..(Len(q) - 1) : Tail(q)[j] = q[j + 1]
      BY <1>1, <1>3 DEF LevelAfterFill
    <2>2. PICK b : b = Tail(q)
      OBVIOUS
    <2>3. DOMAIN b = 1..(Len(q) - 1) /\ \A j \in 1..(Len(q) - 1) : b[j] = q[j + 1]
      BY <1>1, <2>1, <2>2
    <2>4. ASSUME NEW o \in ToSet(b) PROVE o \in ToSet(q) /\ o # q[1]
      <3>1. PICK j \in 1..(Len(q) - 1) : o = q[j + 1]
        BY <2>3 DEF ToSet
      <3>2. j + 1 \in 1..Len(q) /\ j + 1 # 1
        BY <1>1
      <3> QED
        BY <1>1, <1>2, <3>1, <3>2 DEF ToSet
    <2>5. ASSUME NEW o \in ToSet(q), o # q[1] PROVE o \in ToSet(b)
      <3>1. PICK i \in 1..Len(q) : o = q[i] /\ i # 1
        BY <1>1, <2>5 DEF ToSet
      <3>2. i - 1 \in 1..(Len(q) - 1) /\ (i - 1) + 1 = i
        BY <1>1, <3>1
      <3>3. b[i - 1] = q[i]
        BY <2>3, <3>2
      <3> QED
        BY <2>3, <3>1, <3>2, <3>3 DEF ToSet
    <2>6. ToSet(b) = ToSet(q) \ {q[1]}
      BY <2>4, <2>5
    <2> QED
      BY <1>3, <2>1, <2>2, <2>6
  <1>4. CASE q[1].rem # fill
    <2>2. PICK b : b = [q EXCEPT ![1] = less]
      OBVIOUS
    <2>3. LevelAfterFill(q, fill) = b
      BY <1>4, <2>2 DEF LevelAfterFill
    <2>4. DOMAIN b = 1..Len(q) /\ b[1] = less /\ \A i \in 1..Len(q) : i # 1 => b[i] = q[i]
      BY <1>1, <1>2, <2>2
    <2>5. ToSet(b) = (ToSet(q) \ {q[1]}) \cup {less}
      <3>1. ASSUME NEW o \in ToSet(b) PROVE o \in (ToSet(q) \ {q[1]}) \cup {less}
        BY <1>1, <1>2, <2>4 DEF ToSet
      <3>2. ASSUME NEW o \in (ToSet(q) \ {q[1]}) \cup {less} PROVE o \in ToSet(b)
        BY <1>1, <1>2, <2>4 DEF ToSet
      <3> QED
        BY <3>1, <3>2
    <2> QED
      BY <1>4, <2>3, <2>5
  <1> QED
    BY <1>3, <1>4

LEMMA SetWith ==
    ASSUME NEW q \in Seq(Order), NEW o \in Order
    PROVE  ToSet(Append(q, o)) = ToSet(q) \cup {o}
  <1>1. PICK b : b = Append(q, o)
    OBVIOUS
  <1>2. /\ DOMAIN b = 1..(Len(q) + 1) /\ DOMAIN q = 1..Len(q) /\ Len(q) \in Nat
        /\ \A i \in 1..Len(q) : b[i] = q[i]
        /\ b[Len(q) + 1] = o
    BY <1>1
  <1>3. DOMAIN b = DOMAIN q \cup {Len(q) + 1}
    BY <1>2
  <1> QED
    BY <1>1, <1>2, <1>3 DEF ToSet

----------------------------------------------------------------------------
(* The orders of the book as a set                                         *)

Collected(book) == UNION {UNION {ToSet(book[s][p]) : p \in DOMAIN book[s]} : s \in Side}

LEMMA RestingCollected ==
    Resting = Collected(levels) /\ Resting' = Collected(levels')
  BY DEF Resting, Collected

(* An order is collected from the level of its own side and price.         *)
LEMMA CollectedFrom ==
    ASSUME NEW book, NEW n \in Nat,
           \A s \in Side : \A p \in DOMAIN book[s] : LevelOK(s, p, book[s][p], n)
    PROVE  \A o : o \in Collected(book) <=> /\ o.side \in Side
                                            /\ o.price \in DOMAIN book[o.side]
                                            /\ o \in ToSet(book[o.side][o.price])
  <1>1. ASSUME NEW s \in Side, NEW p \in DOMAIN book[s], NEW o \in ToSet(book[s][p])
        PROVE  o.side = s /\ o.price = p
    <2>1. LevelOK(s, p, book[s][p], n)
      OBVIOUS
    <2>2. PICK q : q = book[s][p]
      OBVIOUS
    <2>3. DOMAIN q = 1..Len(q)
      BY <2>1, <2>2, LevelDistinct
    <2> QED
      BY <2>1, <2>2, <2>3 DEF LevelOK, ToSet
  <1>2. ASSUME NEW o
        PROVE  o \in Collected(book) <=>
                   \E s \in Side : \E p \in DOMAIN book[s] : o \in ToSet(book[s][p])
    BY DEF Collected
  <1> QED
    BY <1>1, <1>2

LEMMA BookLevels ==
    ASSUME IInv
    PROVE  /\ Bound \in Nat
           /\ \A s \in Side : \A p \in DOMAIN levels[s] : LevelOK(s, p, levels[s][p], Bound)
           /\ \A o : o \in Resting <=> /\ o.side \in Side
                                       /\ o.price \in DOMAIN levels[o.side]
                                       /\ o \in ToSet(levels[o.side][o.price])
  <1>1. Bound \in Nat
    BY BoundNat DEF IInv
  <1>2. \A s \in Side : \A p \in DOMAIN levels[s] : LevelOK(s, p, levels[s][p], Bound)
    BY DEF IInv, BookOK, SideOK
  <1> QED
    BY <1>1, <1>2, CollectedFrom, RestingCollected

(* Replacing one level replaces its orders and no others.                  *)
LEMMA LevelReplaced ==
    ASSUME NEW book, NEW n \in Nat, NEW s \in Side, NEW p \in DOMAIN book[s], NEW left, NEW new,
           \A t \in Side : \A r \in DOMAIN book[t] : LevelOK(t, r, book[t][r], n),
           LevelOK(s, p, left, n),
           \A t \in Side : new[t] = IF t = s THEN WithLevel(book[s], p, left) ELSE book[t]
    PROVE  Collected(new) = (Collected(book) \ ToSet(book[s][p])) \cup ToSet(left)
  <1>1. PICK level : level = WithLevel(book[s], p, left)
    OBVIOUS
  <1>2. \A t \in Side : new[t] = IF t = s THEN level ELSE book[t]
    BY <1>1
  <1>3. CASE left = <<>>
    <2>1. level = [r \in DOMAIN book[s] \ {p} |-> book[s][r]]
      BY <1>1, <1>3 DEF WithLevel
    <2>2. DOMAIN level = DOMAIN book[s] \ {p} /\ \A r \in DOMAIN level : level[r] = book[s][r]
      BY <2>1
    <2>3. ToSet(left) = {}
      BY <1>3 DEF ToSet
    <2>4. \A t \in Side : \A r \in DOMAIN new[t] : LevelOK(t, r, new[t][r], n)
      BY <1>2, <2>2
    <2>5. \A o : o \in Collected(new) <=> /\ o.side \in Side
                                          /\ o.price \in DOMAIN new[o.side]
                                          /\ o \in ToSet(new[o.side][o.price])
      BY <2>4, CollectedFrom
    <2>6. \A o : o \in Collected(book) <=> /\ o.side \in Side
                                           /\ o.price \in DOMAIN book[o.side]
                                           /\ o \in ToSet(book[o.side][o.price])
      BY CollectedFrom
    <2>7. \A o \in ToSet(book[s][p]) : o.side = s /\ o.price = p
      <3>1. DOMAIN book[s][p] = 1..Len(book[s][p]) /\ LevelOK(s, p, book[s][p], n)
        BY LevelDistinct
      <3> QED
        BY <3>1 DEF LevelOK, ToSet
    <2> QED
      BY <1>2, <2>2, <2>3, <2>5, <2>6, <2>7
  <1>4. CASE left # <<>>
    <2>1. level = [book[s] EXCEPT ![p] = left]
      BY <1>1, <1>4 DEF WithLevel
    <2>2. DOMAIN level = DOMAIN book[s] /\ level[p] = left
          /\ \A r \in DOMAIN level : r # p => level[r] = book[s][r]
      BY <2>1
    <2>4. \A t \in Side : \A r \in DOMAIN new[t] : LevelOK(t, r, new[t][r], n)
      BY <1>2, <2>2
    <2>5. \A o : o \in Collected(new) <=> /\ o.side \in Side
                                          /\ o.price \in DOMAIN new[o.side]
                                          /\ o \in ToSet(new[o.side][o.price])
      BY <2>4, CollectedFrom
    <2>6. \A o : o \in Collected(book) <=> /\ o.side \in Side
                                           /\ o.price \in DOMAIN book[o.side]
                                           /\ o \in ToSet(book[o.side][o.price])
      BY CollectedFrom
    <2>7. \A o \in ToSet(book[s][p]) : o.side = s /\ o.price = p
      <3>1. DOMAIN book[s][p] = 1..Len(book[s][p]) /\ LevelOK(s, p, book[s][p], n)
        BY LevelDistinct
      <3> QED
        BY <3>1 DEF LevelOK, ToSet
    <2>8. \A o \in ToSet(left) : o.side = s /\ o.price = p
      <3>1. DOMAIN left = 1..Len(left)
        BY LevelDistinct
      <3> QED
        BY <3>1 DEF LevelOK, ToSet
    <2> QED
      BY <1>2, <2>2, <2>5, <2>6, <2>7, <2>8
  <1> QED
    BY <1>3, <1>4

----------------------------------------------------------------------------
(* The best order                                                          *)

(* The head of the best level is the order price-time priority serves.     *)
LEMMA BestIsFirst ==
    ASSUME IInv, NEW s \in Side, prices[s] # <<>>
    PROVE  /\ BestOrder(s) \in Resting /\ BestOrder(s).side = s
           /\ Abstract!FirstInLine(BestOrder(s))
           /\ \A o \in Resting : o.side = s => /\ o.price \in Nat /\ BestOrder(s).price \in Nat
                                               /\ ~Better(s, o.price, BestOrder(s).price)
  <1> DEFINE best  == BestPrice(s)
             queue == levels[s][best]
             m     == BestOrder(s)
  <1>1. /\ 1 \in 1..Len(prices[s]) /\ best = prices[s][1] /\ best \in DOMAIN levels[s]
        /\ queue # <<>> /\ LevelOK(s, best, queue, Bound) /\ m = queue[1] /\ m.price = best
    BY BestOrderExists DEF IInv
  <1>2. SideOK(s, levels[s], prices[s], Bound) /\ Bound \in Nat
    BY BookLevels DEF IInv, BookOK
  <1>3. /\ DOMAIN queue = 1..Len(queue) /\ Len(queue) \in Nat /\ 1 \in 1..Len(queue)
    BY <1>1, <1>2, LevelDistinct
  <1>4. m.side = s /\ m \in ToSet(queue)
    BY <1>1, <1>3 DEF LevelOK, ToSet
  <1>5. m \in Resting
    BY <1>1, <1>4, BookLevels
  <1>6. ASSUME NEW o \in Resting, o.side = s
        PROVE  /\ o.price \in Nat /\ best \in Nat
               /\ o.price # best => Better(s, best, o.price)
               /\ o.price = best => o \in ToSet(queue)
    <2>1. o.price \in DOMAIN levels[s] /\ o \in ToSet(levels[s][o.price])
      BY <1>6, BookLevels
    <2>2. PICK i \in 1..Len(prices[s]) : prices[s][i] = o.price
      BY <1>2, <2>1 DEF SideOK
    <2>3. prices[s] \in Seq(Prices) /\ Len(prices[s]) \in Nat
      BY <1>2 DEF SideOK
    <2>4. o.price \in Prices /\ best \in Prices
      BY <1>1, <2>2, <2>3
    <2>5. o.price # best => Better(s, best, o.price)
      BY <1>1, <1>2, <2>2, <2>3 DEF SideOK, Sorted
    <2> QED
      BY <2>1, <2>4, <2>5, PricesAssumption
  <1>7. ASSUME NEW o \in ToSet(queue), o # m PROVE m.at < o.at
    <2>1. PICK j \in 1..Len(queue) : o = queue[j]
      BY <1>3 DEF ToSet
    <2>2. 1 < j
      BY <1>1, <1>3, <1>7, <2>1
    <2> QED
      BY <1>1, <1>3, <2>1, <2>2 DEF LevelOK
  <1> HIDE DEF best, queue, m
  <1>8. Abstract!FirstInLine(m)
    <2> SUFFICES ASSUME NEW o \in Resting, o.side = m.side, o # m PROVE Abstract!HasPriority(m, o)
      BY DEF Abstract!FirstInLine
    <2>1. CASE o.price = best
      BY <1>1, <1>4, <1>6, <1>7, <2>1 DEF Abstract!HasPriority
    <2>2. CASE o.price # best
      BY <1>1, <1>4, <1>6, <2>2 DEF Abstract!HasPriority, Abstract!BeforeInPrice, Better
    <2> QED
      BY <2>1, <2>2
  <1>9. ASSUME NEW o \in Resting, o.side = s
        PROVE  o.price \in Nat /\ m.price \in Nat /\ ~Better(s, o.price, m.price)
    BY <1>1, <1>6, <1>9 DEF Better
  <1> QED
    BY <1>4, <1>5, <1>8, <1>9 DEF m

(* canCross says whether some resting order may trade with the incoming    *)
(* one; it is enough to ask the best.                                      *)
LEMMA CrossingAdmits ==
    ASSUME IInv, pc = "matching"
    PROVE  LET s == Opposite(incoming.side)
           IN  /\ s \in Side
               /\ CanCross(incoming) => prices[s] # <<>> /\ Abstract!Admits(incoming, BestOrder(s))
               /\ ~CanCross(incoming) => \A m \in Resting : ~Abstract!Admits(incoming, m)
  <1> DEFINE s == Opposite(incoming.side)
  <1>1. incoming.side \in Side /\ incoming.price \in Nat
    <2>1. incoming.side \in Side /\ incoming.price \in Prices \cup {0}
      BY DEF IInv, ScalarsOK, Order
    <2>2. \A x \in Prices \cup {0} : x \in Nat
      BY PricesAssumption
    <2> QED
      BY <2>1, <2>2
  <1>2. s \in Side /\ s # incoming.side /\ \A t \in Side : t # incoming.side => t = s
    BY <1>1 DEF Opposite, Side
  <1>3. prices[s] # <<>> => BestOrder(s).price = prices[s][1] /\ BestOrder(s).side = s
    BY <1>2, BestOrderExists, BestIsFirst DEF IInv
  <1>4. CanCross(incoming) <=> /\ prices[s] # <<>>
                               /\ incoming.type = "market" \/ ~Better(s, incoming.price, prices[s][1])
    BY DEF CanCross
  <1>5. ASSUME prices[s] = <<>>, NEW m \in Resting PROVE m.side # s
    <2>1. SUFFICES ASSUME m.side = s PROVE FALSE
      OBVIOUS
    <2>2. m.price \in DOMAIN levels[s]
      BY <2>1, BookLevels
    <2>3. SideOK(s, levels[s], prices[s], Bound)
      BY <1>2 DEF IInv, BookOK
    <2>4. \E i \in 1..Len(prices[s]) : prices[s][i] = m.price
      BY <2>2, <2>3 DEF SideOK
    <2> QED
      BY <1>5, <2>4
  <1> HIDE DEF s
  <1>6. ASSUME CanCross(incoming) PROVE prices[s] # <<>> /\ Abstract!Admits(incoming, BestOrder(s))
    BY <1>2, <1>3, <1>4, <1>6 DEF Abstract!Admits, Abstract!BeforeInPrice, Better
  <1>7. ASSUME ~CanCross(incoming), NEW m \in Resting PROVE ~Abstract!Admits(incoming, m)
    <2> SUFFICES ASSUME m.side = s PROVE ~Abstract!Admits(incoming, m)
      <3>1. m.side \in Side
        BY BookLevels
      <3> QED
        BY <1>2, <3>1 DEF Abstract!Admits
    <2>1. prices[s] # <<>>
      BY <1>5
    <2>2. incoming.type # "market" /\ Better(s, incoming.price, BestOrder(s).price)
      BY <1>3, <1>4, <1>7, <2>1
    <2>3. m.price \in Nat /\ BestOrder(s).price \in Nat /\ ~Better(s, m.price, BestOrder(s).price)
      BY <1>2, <2>1, BestIsFirst
    <2>4. Better(s, incoming.price, m.price)
      BY <1>1, <2>2, <2>3 DEF Better
    <2> QED
      BY <2>2, <2>4 DEF Abstract!Admits, Abstract!BeforeInPrice, Better
  <1> QED
    BY <1>2, <1>6, <1>7 DEF s

----------------------------------------------------------------------------
(* Steps                                                                   *)

LEMMA ArriveStep ==
    ASSUME IInv, NEW r \in Request, PlaceStart(r)
    PROVE  Abstract!AbstractNext
  <1>1. /\ r.id \in OrderIds /\ r.player \in Players /\ r.side \in {"buy", "sell"}
        /\ r.type \in {"limit", "market"} /\ r.price \in Prices \cup {0} /\ r.qty \in Quantities
    BY DEF Request, Side
  <1>2. Resting' = Resting
    BY RestingCollected DEF PlaceStart, Collected
  <1>3. Abstract!Arrive(r.id, r.player, r.side, r.type, r.price, r.qty)
    BY <1>2 DEF PlaceStart, Valid, Abstract!Arrive
  <1> QED
    BY <1>1, <1>3 DEF Abstract!AbstractNext

LEMMA TradeStep ==
    ASSUME IInv, MatchStep
    PROVE  LET m == BestOrder(Opposite(incoming.side))
           IN  m \in Resting /\ m \in Order /\ Abstract!TradeWith(m)
  <1>0. PICK s : s = Opposite(incoming.side)
    OBVIOUS
  <1>1. pc = "matching" /\ CanCross(incoming) /\ incoming.rem > 0
    BY DEF MatchStep
  <1>2. s \in Side /\ prices[s] # <<>> /\ Abstract!Admits(incoming, BestOrder(s))
    BY <1>0, <1>1, CrossingAdmits
  <1>3. PICK m : m = BestOrder(s)
    OBVIOUS
  <1>4. PICK p : p = BestPrice(s)
    OBVIOUS
  <1>5. PICK fill : fill = Fill(incoming, m)
    OBVIOUS
  <1>6. PICK q : q = levels[s][p]
    OBVIOUS
  <1>7. PICK left : left = LevelAfterFill(q, fill)
    OBVIOUS
  <1>8. /\ levels' = [levels EXCEPT ![s] = WithLevel(levels[s], p, left)]
        /\ incoming' = [incoming EXCEPT !.rem = incoming.rem - fill]
        /\ trades' = Append(trades, TradeOf(incoming, m))
        /\ UNCHANGED <<pc, placed>>
    BY <1>0, <1>3, <1>4, <1>5, <1>6, <1>7 DEF MatchStep
  <1>24. PICK n \in Nat : n = Bound
    BY BookLevels
  <1>9. /\ p \in Prices /\ p \in DOMAIN levels[s] /\ q # <<>> /\ LevelOK(s, p, q, n)
        /\ m = q[1] /\ m \in Order /\ m.price = p /\ m.type = "limit"
    BY <1>2, <1>3, <1>4, <1>6, <1>24, BestOrderExists DEF IInv
  <1>10. fill \in Nat /\ fill <= m.rem
    BY <1>0, <1>3, <1>5, MatchStepFill
  <1>11. m \in Resting /\ Abstract!FirstInLine(m) /\ m.side = s
    BY <1>2, <1>3, BestIsFirst
  <1>12. PICK after : after = [m EXCEPT !.rem = m.rem - fill]
    OBVIOUS
  <1>13. m.rem \in Nat /\ after.rem = m.rem - fill
    BY <1>9, <1>12 DEF Order
  <1>14. ToSet(left) = (ToSet(q) \ {m}) \cup (IF after.rem = 0 THEN {} ELSE {after})
    <2>1. ToSet(left) = (ToSet(q) \ {m}) \cup (IF m.rem = fill THEN {} ELSE {after})
      <3>1. ToSet(LevelAfterFill(q, fill)) =
               (ToSet(q) \ {q[1]}) \cup (IF q[1].rem = fill THEN {} ELSE {after})
        <4>1. after = [q[1] EXCEPT !.rem = q[1].rem - fill]
          BY <1>9, <1>12
        <4> QED
          BY <1>9, <1>10, <4>1, SetAfterFill
      <3> QED
        BY <1>7, <1>9, <3>1
    <2>2. m.rem = fill <=> after.rem = 0
      BY <1>10, <1>13
    <2> QED
      BY <2>1, <2>2
  <1>15. Resting' = (Resting \ ToSet(q)) \cup ToSet(left)
    <2>1. LevelOK(s, p, left, n)
      BY <1>7, <1>9, <1>10, LevelAfterFillSound
    <2>2. \A t \in Side : levels'[t] = IF t = s THEN WithLevel(levels[s], p, left) ELSE levels[t]
      BY <1>8 DEF IInv, BookOK
    <2>3. \A t \in Side : \A r \in DOMAIN levels[t] : LevelOK(t, r, levels[t][r], n)
      BY <1>24, BookLevels
    <2>4. PICK book, new : book = levels /\ new = levels'
      OBVIOUS
    <2>5. s \in Side /\ p \in DOMAIN book[s] /\ n \in Nat
      BY <1>2, <1>9, <2>4
    <2>6. /\ \A t \in Side : \A r \in DOMAIN book[t] : LevelOK(t, r, book[t][r], n)
          /\ \A t \in Side : new[t] = IF t = s THEN WithLevel(book[s], p, left) ELSE book[t]
      BY <2>2, <2>3, <2>4
    <2>7. Collected(new) = (Collected(book) \ ToSet(book[s][p])) \cup ToSet(left)
      BY <2>1, <2>5, <2>6, LevelReplaced
    <2>8. Collected(levels') = (Collected(levels) \ ToSet(levels[s][p])) \cup ToSet(left)
      BY <2>4, <2>7
    <2> QED
      BY <1>6, <2>8, RestingCollected
  <1>16. \A o \in ToSet(q) : o \in Resting
    <2>1. DOMAIN q = 1..Len(q)
      BY <1>9, <1>10, LevelDistinct
    <2>2. \A o \in ToSet(q) : o.side = s /\ o.price = p
      BY <1>9, <2>1 DEF LevelOK, ToSet
    <2> QED
      BY <1>2, <1>6, <1>9, <2>2, BookLevels
  <1>17. m \in ToSet(q)
    <2>1. 1 \in 1..Len(q) /\ DOMAIN q = 1..Len(q)
      BY <1>9, <1>10, LevelDistinct
    <2> QED
      BY <1>9, <2>1 DEF ToSet
  <1>18. Resting' = (Resting \ {m}) \cup (IF after.rem = 0 THEN {} ELSE {after})
    BY <1>14, <1>15, <1>16, <1>17
  <1>19. incoming.rem \in Nat /\ fill = Abstract!Smaller(incoming.rem, m.rem)
    BY <1>5 DEF Fill, Abstract!Smaller, IInv, ScalarsOK, Order
  <1>20. TradePrice(m, incoming) = m.price
    BY <1>9, PricesAssumption DEF TradePrice
  <1>21. PICK buy, sell : /\ buy = IF incoming.side = "buy" THEN incoming ELSE m
                          /\ sell = IF incoming.side = "buy" THEN m ELSE incoming
    OBVIOUS
  <1>22. TradeOf(incoming, m) =
            [price |-> m.price, qty |-> fill, aggressor |-> incoming.side,
             buyOrder |-> buy.id, sellOrder |-> sell.id, buyer |-> buy.player, seller |-> sell.player]
    BY <1>5, <1>20, <1>21 DEF TradeOf
  <1>23. Abstract!TradeWith(m)
    BY <1>1, <1>2, <1>3, <1>8, <1>11, <1>12, <1>18, <1>19, <1>21, <1>22 DEF Abstract!TradeWith
  <1> QED
    BY <1>0, <1>3, <1>9, <1>11, <1>23

LEMMA SettleStep ==
    ASSUME IInv, PlaceFinish
    PROVE  Abstract!Settle
  <1>1. PICK s, o : s = incoming.side /\ o = incoming
    OBVIOUS
  <1>2. /\ pc = "matching" /\ pc' = "idle" /\ UNCHANGED <<incoming, trades, placed>>
        /\ o.rem = 0 \/ ~CanCross(o)
    BY <1>1 DEF PlaceFinish
  <1>3. o.rem = 0 \/ \A m \in Resting : ~Abstract!Admits(o, m)
    BY <1>1, <1>2, CrossingAdmits
  <1>4. Rests(o) <=> o.rem > 0 /\ o.type = "limit"
    BY DEF Rests
  <1>5. CASE ~Rests(o)
    <2>1. Resting' = Resting
      BY <1>1, <1>5, RestingCollected DEF PlaceFinish, Collected
    <2> QED
      BY <1>1, <1>2, <1>3, <1>4, <1>5, <2>1 DEF Abstract!Settle
  <1>6. CASE Rests(o)
    <2>1. o \in Order /\ s \in Side /\ o.side = s
      BY <1>1 DEF IInv, ScalarsOK, Order
    <2>2. PICK level : level = WithOrder(levels[s], o)
      OBVIOUS
    <2>3. levels' = [levels EXCEPT ![s] = level]
      BY <1>1, <1>6, <2>2 DEF PlaceFinish
    <2>4. \A t \in Side : levels'[t] = IF t = s THEN level ELSE levels[t]
      BY <2>1, <2>3 DEF IInv, BookOK
    <2>5. /\ DOMAIN level = DOMAIN levels[s] \cup {o.price}
          /\ \A p \in DOMAIN levels[s] : p # o.price => level[p] = levels[s][p]
          /\ level[o.price] = IF o.price \in DOMAIN levels[s]
                              THEN Append(levels[s][o.price], o) ELSE <<o>>
      BY <2>2 DEF WithOrder
    <2>6. \A p \in DOMAIN levels[s] : levels[s][p] \in Seq(Order)
      BY <1>1, <2>1, BookLevels DEF LevelOK
    <2>7. ToSet(<<o>>) = {o}
      <3>1. DOMAIN <<o>> = {1} /\ <<o>>[1] = o
        OBVIOUS
      <3> QED
        BY <3>1 DEF ToSet
    <2>8. ToSet(level[o.price]) =
             (IF o.price \in DOMAIN levels[s] THEN ToSet(levels[s][o.price]) ELSE {}) \cup {o}
      BY <2>1, <2>5, <2>6, <2>7, SetWith
    <2>9. Resting' = Resting \cup {o}
      <3>1. ASSUME NEW x
            PROVE  /\ x \in Resting <=>
                          \E t \in Side : \E p \in DOMAIN levels[t] : x \in ToSet(levels[t][p])
                   /\ x \in Resting' <=>
                          \E t \in Side : \E p \in DOMAIN levels'[t] : x \in ToSet(levels'[t][p])
        BY DEF Resting
      <3>2. ASSUME NEW x \in Resting PROVE x \in Resting'
        <4>0. PICK t \in Side : \E p \in DOMAIN levels[t] : x \in ToSet(levels[t][p])
          BY <3>1, <3>2
        <4>1. PICK p \in DOMAIN levels[t] : x \in ToSet(levels[t][p])
          BY <4>0
        <4>2. p \in DOMAIN levels'[t] /\ x \in ToSet(levels'[t][p])
          BY <2>4, <2>5, <2>8, <4>1
        <4> QED
          BY <3>1, <4>2
      <3>3. o \in Resting'
        <4>1. o.price \in DOMAIN levels'[s] /\ o \in ToSet(levels'[s][o.price])
          BY <2>1, <2>4, <2>5, <2>8
        <4> QED
          BY <2>1, <3>1, <4>1
      <3>4. ASSUME NEW x \in Resting', x # o PROVE x \in Resting
        <4>0. PICK t \in Side : \E p \in DOMAIN levels'[t] : x \in ToSet(levels'[t][p])
          BY <3>1, <3>4
        <4>1. PICK p \in DOMAIN levels'[t] : x \in ToSet(levels'[t][p])
          BY <4>0
        <4>2. p \in DOMAIN levels[t] /\ x \in ToSet(levels[t][p])
          BY <2>4, <2>5, <2>8, <3>4, <4>1
        <4> QED
          BY <3>1, <4>2
      <3> QED
        BY <3>2, <3>3, <3>4
    <2> QED
      BY <1>1, <1>2, <1>3, <1>4, <1>6, <2>9 DEF Abstract!Settle
  <1> QED
    BY <1>5, <1>6

LEMMA WithdrawStep ==
    ASSUME IInv, NEW s \in Side, NEW id \in OrderIds, CancelOn(s, id)
    PROVE  Abstract!Withdraw(id)
  <1>1. PICK n \in Nat : n = Bound
    BY BookLevels
  <1>2. PICK i \in DOMAIN prices[s] : \E j \in DOMAIN levels[s][prices[s][i]] :
           /\ levels[s][prices[s][i]][j].id = id
           /\ levels' = [levels EXCEPT ![s] =
                            WithLevel(levels[s], prices[s][i], RemoveAt(levels[s][prices[s][i]], j))]
    BY DEF CancelOn, FoundAt
  <1>3. PICK p, q : p = prices[s][i] /\ q = levels[s][p]
    OBVIOUS
  <1>4. PICK j \in DOMAIN q : /\ q[j].id = id
                              /\ levels' = [levels EXCEPT ![s] = WithLevel(levels[s], p, RemoveAt(q, j))]
    BY <1>2, <1>3
  <1>5. PICK left : left = RemoveAt(q, j)
    OBVIOUS
  <1>6. p \in DOMAIN levels[s]
    <2>1. SideOK(s, levels[s], prices[s], Bound)
      BY DEF IInv, BookOK
    <2> QED
      BY <1>3, <2>1 DEF SideOK
  <1>7. LevelOK(s, p, q, n)
    BY <1>1, <1>3, <1>6, BookLevels
  <1>8. DOMAIN q = 1..Len(q) /\ j \in 1..Len(q)
    BY <1>7, LevelDistinct
  <1>9. LevelOK(s, p, left, n) /\ ToSet(left) = ToSet(q) \ {q[j]}
    BY <1>5, <1>7, <1>8, RemoveAtSound, SetWithout
  <1>10. \A t \in Side : levels'[t] = IF t = s THEN WithLevel(levels[s], p, left) ELSE levels[t]
    BY <1>4, <1>5 DEF IInv, BookOK
  <1>11. \A t \in Side : \A r \in DOMAIN levels[t] : LevelOK(t, r, levels[t][r], n)
    BY <1>1, BookLevels
  <1>12. Collected(levels') = (Collected(levels) \ ToSet(levels[s][p])) \cup ToSet(left)
    BY <1>6, <1>9, <1>10, <1>11, LevelReplaced
  <1>13. \A o \in ToSet(q) : o \in Resting
    <2>1. \A o \in ToSet(q) : o.side = s /\ o.price = p
      BY <1>7, <1>8 DEF LevelOK, ToSet
    <2> QED
      BY <1>3, <1>6, <2>1, BookLevels
  <1>14. q[j] \in ToSet(q)
    BY DEF ToSet
  <1>15. Resting' = Resting \ {q[j]}
    BY <1>3, <1>9, <1>12, <1>13, <1>14, RestingCollected
  <1>16. pc = "idle" /\ UNCHANGED <<pc, incoming, trades, placed>>
    BY DEF CancelOn
  <1>17. q[j] \in Resting
    BY <1>13, <1>14
  <1> QED
    BY <1>4, <1>15, <1>16, <1>17 DEF Abstract!Withdraw

----------------------------------------------------------------------------
(* The refinement                                                          *)

LEMMA Refines ==
    ASSUME IInv, [Next]_vars
    PROVE  [Abstract!AbstractNext]_(Abstract!abstractVars)
  <1>1. ASSUME UNCHANGED <<levels, pc, incoming, trades, placed>>
        PROVE  UNCHANGED Abstract!abstractVars
    <2>1. Resting' = Resting
      BY <1>1 DEF Resting
    <2> QED
      BY <1>1, <2>1 DEF Abstract!abstractVars
  <1>2. ASSUME NEW r \in Request, PlaceInvalid(r) PROVE UNCHANGED Abstract!abstractVars
    BY <1>1, <1>2 DEF PlaceInvalid
  <1>3. ASSUME NEW r \in Request, PlaceStart(r) PROVE Abstract!AbstractNext
    BY <1>3, ArriveStep
  <1>4. ASSUME MatchStep PROVE Abstract!AbstractNext
    BY <1>4, TradeStep DEF Abstract!AbstractNext
  <1>5. ASSUME PlaceFinish PROVE Abstract!AbstractNext
    BY <1>5, SettleStep DEF Abstract!AbstractNext
  <1>6. ASSUME NEW id \in OrderIds, Cancel(id) PROVE Abstract!AbstractNext
    BY <1>6, WithdrawStep DEF Cancel, Abstract!AbstractNext
  <1>7. ASSUME NEW id \in OrderIds, CancelUnknown(id) PROVE UNCHANGED Abstract!abstractVars
    BY <1>1, <1>7 DEF CancelUnknown
  <1>8. ASSUME UNCHANGED vars PROVE UNCHANGED Abstract!abstractVars
    BY <1>1, <1>8 DEF vars
  <1> QED
    BY <1>2, <1>3, <1>4, <1>5, <1>6, <1>7, <1>8 DEF Next

(* Whatever is placed and cancelled, in any order and under any ids, the   *)
(* book trades by price and then time, at the maker's price and for the    *)
(* smaller quantity, rests what is left of limit orders only, and takes    *)
(* away just what is cancelled ("price-time priority", "partial fills",    *)
(* "cancellation": README.md:205 of the repository).                         *)
THEOREM ImplementsPriceTimePriority ==
    Spec => PriceTimePriority
  <1>1. Init => Abstract!AbstractInit
    <2> SUFFICES ASSUME Init PROVE Abstract!AbstractInit
      OBVIOUS
    <2>1. \A s \in Side : DOMAIN levels[s] = {}
      BY DEF Init
    <2>2. Resting = {}
      BY <2>1 DEF Resting
    <2> QED
      BY <2>2 DEF Init, Abstract!AbstractInit
  <1>2. IInv /\ [Next]_vars => [Abstract!AbstractNext]_(Abstract!abstractVars)
    BY Refines
  <1> QED
    BY <1>1, <1>2, InductiveInvariant, PTL DEF Spec, PriceTimePriority, Abstract!AbstractSpec
=============================================================================
