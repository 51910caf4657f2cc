----------------------------- MODULE DataLemmas -----------------------------
(***************************************************************************)
(* Facts about natural numbers, sequences and sums that the proofs of the  *)
(* other modules share.                                                    *)
(***************************************************************************)
EXTENDS Integers, Sequences, SequencesExt, FiniteSets,
        SequenceTheorems, FiniteSetTheorems, WellFoundedInduction, TLAPS

----------------------------------------------------------------------------
(* Numbers and sequences                                                   *)

(* Every non-empty set of natural numbers has a least element: the        *)
(* position slices.Sort gives a new price exists because of this.          *)
LEMMA LeastElement ==
    ASSUME NEW T \in SUBSET Nat, T # {}
    PROVE  \E x \in T : \A y \in T : x <= y
  <1> DEFINE R == {ss \in Nat \X Nat : ss[1] < ss[2]}
  <1>1. IsWellFoundedOn(R, Nat)
    BY NatLessThanWellFounded DEF OpToRel
  <1>2. PICK x \in T : \A y \in T : ~(<<y, x>> \in R)
    BY <1>1, WFMin
  <1>3. \A n, m \in Nat : n < m => <<n, m>> \in R
    OBVIOUS
  <1> HIDE DEF R
  <1>4. ASSUME NEW y \in T PROVE x <= y
    <2>1. x \in Nat /\ y \in Nat /\ ~(<<y, x>> \in R)
      BY <1>2
    <2>2. ~(y < x)
      BY <2>1, <1>3
    <2> QED
      BY <2>1, <2>2
  <1> QED
    BY <1>4

(* Removing one position keeps the other elements, in their order: the     *)
(* append(s[:i], s[i+1:]...) of Cancel and removePrice.                    *)
LEMMA RemoveAtProperties ==
    ASSUME NEW S, NEW q \in Seq(S), NEW i \in 1..Len(q)
    PROVE  /\ RemoveAt(q, i) \in Seq(S)
           /\ Len(RemoveAt(q, i)) = Len(q) - 1
           /\ \A j \in 1..(Len(q) - 1) :
                 RemoveAt(q, i)[j] = IF j < i THEN q[j] ELSE q[j + 1]
  <1> DEFINE a == SubSeq(q, 1, i - 1)
             b == SubSeq(q, i + 1, Len(q))
  <1>1. a \in Seq(S) /\ Len(a) = i - 1 /\ \A j \in 1..(i - 1) : a[j] = q[j]
    OBVIOUS
  <1>2. b \in Seq(S) /\ Len(b) = Len(q) - i /\ \A j \in 1..(Len(q) - i) : b[j] = q[i + j]
    OBVIOUS
  <1>3. RemoveAt(q, i) = a \o b
    BY DEF RemoveAt
  <1> HIDE DEF a, b
  <1>4. /\ a \o b \in Seq(S)
        /\ Len(a \o b) = Len(a) + Len(b)
        /\ \A j \in 1..(Len(a) + Len(b)) :
              (a \o b)[j] = IF j <= Len(a) THEN a[j] ELSE b[j - Len(a)]
    BY <1>1, <1>2, ConcatProperties
  <1>5. ASSUME NEW j \in 1..(Len(q) - 1)
        PROVE  (a \o b)[j] = IF j < i THEN q[j] ELSE q[j + 1]
    BY <1>1, <1>2, <1>4
  <1> QED
    BY <1>1, <1>2, <1>3, <1>4, <1>5

(* ... that is, every position left holds what an old one held, and the    *)
(* old positions grow with the new ones.                                   *)
LEMMA RemoveAtPositions ==
    ASSUME NEW S, NEW q \in Seq(S), NEW i \in 1..Len(q)
    PROVE  \E old \in [1..(Len(q) - 1) -> 1..Len(q)] :
              /\ \A j \in 1..(Len(q) - 1) : RemoveAt(q, i)[j] = q[old[j]]
              /\ \A j, k \in 1..(Len(q) - 1) : j < k => old[j] < old[k]
  <1> DEFINE old == [j \in 1..(Len(q) - 1) |-> IF j < i THEN j ELSE j + 1]
  <1>1. Len(q) \in Nat /\ i \in Nat
    OBVIOUS
  <1>2. old \in [1..(Len(q) - 1) -> 1..Len(q)]
    BY <1>1
  <1>3. \A j \in 1..(Len(q) - 1) : RemoveAt(q, i)[j] = q[old[j]]
    BY RemoveAtProperties
  <1>4. \A j, k \in 1..(Len(q) - 1) : j < k => old[j] < old[k]
    BY <1>1
  <1> QED
    BY <1>2, <1>3, <1>4

----------------------------------------------------------------------------
(* Sums over finite sets, as the community modules define them: by a       *)
(* recursive function on the subsets of a set that takes out one chosen    *)
(* element after the other.  That this function exists and that the choice *)
(* makes no difference is shown by induction on the size of a set, that    *)
(* is: a smallest set for which a statement fails is looked at.            *)

(* Of the subsets of a finite set that have some property one has no       *)
(* proper subset that has it.                                              *)
LEMMA MinimalSubset ==
    ASSUME NEW S, IsFiniteSet(S), NEW B \in SUBSET SUBSET S, B # {}
    PROVE  \E b \in B : \A a \in SUBSET b : a # b => a \notin B
  <1> DEFINE sizes == {Cardinality(b) : b \in B}
  <1>1. \A b \in SUBSET S : IsFiniteSet(b) /\ Cardinality(b) \in Nat
    BY FS_Subset, FS_CardinalityType
  <1>2. sizes \in SUBSET Nat /\ sizes # {}
    BY <1>1
  <1> HIDE DEF sizes
  <1>3. PICK n \in sizes : \A m \in sizes : n <= m
    BY <1>2, LeastElement
  <1>4. PICK b \in B : Cardinality(b) = n
    BY DEF sizes
  <1>5. ASSUME NEW a \in SUBSET b, a # b, a \in B PROVE FALSE
    <2>1. IsFiniteSet(b) /\ Cardinality(b) \in Nat /\ Cardinality(a) \in Nat
      BY <1>1, <1>5
    <2>2. Cardinality(a) <= Cardinality(b) /\ Cardinality(a) # Cardinality(b)
      BY <1>5, <2>1, FS_Subset
    <2>3. n <= Cardinality(a)
      BY <1>3, <1>5 DEF sizes
    <2> QED
      BY <1>4, <2>1, <2>2, <2>3
  <1> QED
    BY <1>5

----------------------------------------------------------------------------
(* The recursive function                                                  *)

(* g adds up f over each subset of S.                                      *)
AddsUp(f, S, g) ==
    \A s \in SUBSET S :
        g[s] = IF s = {} THEN 0
               ELSE f[CHOOSE x \in s : TRUE] + g[s \ {CHOOSE x \in s : TRUE}]

(* ... and is the function the community modules define.                   *)
Adder(f, S, g) ==
    g = [s \in SUBSET S |->
            IF s = {} THEN 0
            ELSE f[CHOOSE x \in s : TRUE] + g[s \ {CHOOSE x \in s : TRUE}]]

LEMMA AdderExists ==
    ASSUME NEW f, NEW S, IsFiniteSet(S)
    PROVE  \E g : Adder(f, S, g)
  <1> DEFINE Up(n) == {s \in SUBSET S : Cardinality(s) <= n}
             Sums(n, g) == \A s \in Up(n) :
                              g[s] = IF s = {} THEN 0
                                     ELSE f[CHOOSE x \in s : TRUE] + g[s \ {CHOOSE x \in s : TRUE}]
             bad == {n \in Nat : ~\E g : Sums(n, g)}
  <1>1. \A s \in SUBSET S : IsFiniteSet(s) /\ Cardinality(s) \in Nat
    BY FS_Subset, FS_CardinalityType
  <1>2. \A s \in SUBSET S : s # {} => (CHOOSE x \in s : TRUE) \in s
    OBVIOUS
  <1>3. \A s \in SUBSET S : \A x \in s : Cardinality(s \ {x}) = Cardinality(s) - 1
    BY <1>1, FS_RemoveElement
  <1>4. bad = {}
    <2> SUFFICES ASSUME bad # {} PROVE FALSE
      OBVIOUS
    <2> HIDE DEF Sums, Up
    <2>1. PICK n \in bad : \A m \in bad : n <= m
      BY LeastElement
    <2>2. n # 0
      <3> DEFINE g == [s \in SUBSET S |-> 0]
      <3>1. ASSUME NEW s \in Up(0) PROVE s = {}
        <4>1. IsFiniteSet(s) /\ Cardinality(s) \in Nat /\ Cardinality(s) <= 0
          BY <1>1 DEF Up
        <4>2. Cardinality(s) = 0
          BY <4>1
        <4> QED
          BY <4>1, <4>2, FS_EmptySet
      <3>2. Sums(0, g)
        BY <3>1 DEF Sums, Up
      <3> QED
        BY <2>1, <3>2
    <2>3. n - 1 \in Nat /\ n - 1 \notin bad
      BY <2>1, <2>2
    <2>4. PICK g : Sums(n - 1, g)
      BY <2>3
    <2> DEFINE h == [s \in SUBSET S |->
                        IF s = {} THEN 0
                        ELSE f[CHOOSE x \in s : TRUE] + g[s \ {CHOOSE x \in s : TRUE}]]
    <2>5. ASSUME NEW s \in Up(n - 1) PROVE h[s] = g[s]
      BY <2>4 DEF Sums, Up
    <2>6. ASSUME NEW s \in Up(n), s # {} PROVE s \ {CHOOSE x \in s : TRUE} \in Up(n - 1)
      <3>1. PICK x : x = CHOOSE y \in s : TRUE
        OBVIOUS
      <3>2. s \in SUBSET S /\ Cardinality(s) <= n
        BY DEF Up
      <3>3. x \in s /\ s \ {x} \in SUBSET S
        BY <1>2, <2>6, <3>1, <3>2
      <3>4. Cardinality(s \ {x}) = Cardinality(s) - 1 /\ Cardinality(s) \in Nat /\ n \in Nat
        BY <1>1, <1>3, <2>1, <3>2, <3>3
      <3>5. Cardinality(s \ {x}) <= n - 1
        BY <3>2, <3>4
      <3> QED
        BY <3>1, <3>3, <3>5 DEF Up
    <2>7. ASSUME NEW s \in Up(n)
          PROVE  h[s] = IF s = {} THEN 0
                        ELSE f[CHOOSE x \in s : TRUE] + h[s \ {CHOOSE x \in s : TRUE}]
      <3>1. s \in SUBSET S
        BY DEF Up
      <3>2. CASE s = {}
        BY <3>1, <3>2
      <3>3. CASE s # {}
        <4>1. h[s \ {CHOOSE x \in s : TRUE}] = g[s \ {CHOOSE x \in s : TRUE}]
          BY <2>5, <2>6, <3>3
        <4>2. h[s] = f[CHOOSE x \in s : TRUE] + g[s \ {CHOOSE x \in s : TRUE}]
          BY <3>1, <3>3
        <4> QED
          BY <3>3, <4>1, <4>2
      <3> QED
        BY <3>2, <3>3
    <2>8. Sums(n, h)
      BY <2>7 DEF Sums
    <2> QED
      BY <2>1, <2>8
  <1>5. PICK n \in Nat : n = Cardinality(S)
    BY <1>1
  <1>6. PICK g : Sums(n, g)
    <2> HIDE DEF Sums
    <2> QED
      BY <1>4
  <1>7. \A s \in SUBSET S : s \in Up(n)
    BY <1>1, <1>5, FS_Subset
  <1> DEFINE h == [s \in SUBSET S |-> g[s]]
  <1>8. h = [s \in SUBSET S |->
                IF s = {} THEN 0
                ELSE f[CHOOSE x \in s : TRUE] + h[s \ {CHOOSE x \in s : TRUE}]]
    <2>1. ASSUME NEW s \in SUBSET S
          PROVE  h[s] = IF s = {} THEN 0
                        ELSE f[CHOOSE x \in s : TRUE] + h[s \ {CHOOSE x \in s : TRUE}]
      <3>1. g[s] = IF s = {} THEN 0
                   ELSE f[CHOOSE x \in s : TRUE] + g[s \ {CHOOSE x \in s : TRUE}]
        BY <1>6, <1>7
      <3>2. h[s] = g[s] /\ h[s \ {CHOOSE x \in s : TRUE}] = g[s \ {CHOOSE x \in s : TRUE}]
        OBVIOUS
      <3> QED
        BY <3>1, <3>2
    <2>2. h = [s \in SUBSET S |-> h[s]]
      OBVIOUS
    <2> HIDE DEF h
    <2> QED
      BY <2>1, <2>2
  <1> QED
    BY <1>8 DEF Adder

LEMMA SumAddsUp ==
    ASSUME NEW f, NEW S, IsFiniteSet(S)
    PROVE  \E g : AddsUp(f, S, g) /\ SumFunctionOnSet(f, S) = g[S]
  <1>1. PICK g : SumFunctionOnSet(f, S) = g[S] /\ g = CHOOSE h : Adder(f, S, h)
    BY DEF SumFunctionOnSet, FoldFunctionOnSet, MapThenFoldSet, Adder
  <1>2. g = [s \in SUBSET S |->
                IF s = {} THEN 0
                ELSE f[CHOOSE x \in s : TRUE] + g[s \ {CHOOSE x \in s : TRUE}]]
    <2>1. Adder(f, S, g)
      BY <1>1, AdderExists
    <2> QED
      BY <2>1 DEF Adder
  <1>3. ASSUME NEW s \in SUBSET S
        PROVE  g[s] = IF s = {} THEN 0
                      ELSE f[CHOOSE x \in s : TRUE] + g[s \ {CHOOSE x \in s : TRUE}]
    BY <1>2
  <1>4. AddsUp(f, S, g)
    BY <1>3 DEF AddsUp
  <1>5. SumFunctionOnSet(f, S) = g[S]
    BY <1>1
  <1> QED
    BY <1>4, <1>5

(* What a sum is depends on the values of the function on the set only.    *)
LEMMA AddUpAlike ==
    ASSUME NEW f, NEW g, NEW S, AddsUp(f, S, g),
           NEW h, NEW k, NEW T \in SUBSET S, IsFiniteSet(T), AddsUp(h, T, k),
           \A x \in T : f[x] = h[x]
    PROVE  g[T] = k[T]
  <1> DEFINE bad == {s \in SUBSET T : g[s] # k[s]}
  <1> SUFFICES ASSUME bad # {} PROVE FALSE
    OBVIOUS
  <1>1. PICK b \in bad : \A a \in SUBSET b : a # b => a \notin bad
    <2>1. bad \in SUBSET SUBSET T
      OBVIOUS
    <2> HIDE DEF bad
    <2> QED
      BY <2>1, MinimalSubset
  <1>2. b \in SUBSET T /\ b \in SUBSET S /\ g[b] # k[b]
    OBVIOUS
  <1>3. CASE b = {}
    BY <1>2, <1>3 DEF AddsUp
  <1>4. CASE b # {}
    <2>1. PICK x : x = CHOOSE y \in b : TRUE
      OBVIOUS
    <2>2. x \in b
      BY <1>4, <2>1
    <2>3. g[b \ {x}] = k[b \ {x}]
      BY <1>1, <1>2, <2>2
    <2>4. g[b] = f[x] + g[b \ {x}]
      BY <1>2, <1>4, <2>1 DEF AddsUp
    <2>5. k[b] = h[x] + k[b \ {x}]
      BY <1>2, <1>4, <2>1 DEF AddsUp
    <2>6. f[x] = h[x]
      BY <1>2, <2>2
    <2> QED
      BY <1>2, <2>3, <2>4, <2>5, <2>6
  <1> QED
    BY <1>3, <1>4

LEMMA SumAlike ==
    ASSUME NEW S, IsFiniteSet(S), NEW f, NEW h, \A x \in S : f[x] = h[x]
    PROVE  SumFunctionOnSet(f, S) = SumFunctionOnSet(h, S)
  <1>1. PICK g : AddsUp(f, S, g) /\ SumFunctionOnSet(f, S) = g[S]
    BY SumAddsUp
  <1>2. PICK k : AddsUp(h, S, k) /\ SumFunctionOnSet(h, S) = k[S]
    BY SumAddsUp
  <1> QED
    BY <1>1, <1>2, AddUpAlike

----------------------------------------------------------------------------
(* The sum of integers                                                     *)

(* Any element can be taken out first.                                     *)
LEMMA SumOut ==
    ASSUME NEW S, IsFiniteSet(S), NEW f, \A x \in S : f[x] \in Int
    PROVE  /\ SumFunctionOnSet(f, S) \in Int
           /\ \A x \in S : SumFunctionOnSet(f, S) = f[x] + SumFunctionOnSet(f, S \ {x})
  <1>1. PICK g : AddsUp(f, S, g) /\ SumFunctionOnSet(f, S) = g[S]
    BY SumAddsUp
  <1> DEFINE Fine(s) == g[s] \in Int /\ \A x \in s : g[s] = f[x] + g[s \ {x}]
             bad == {s \in SUBSET S : ~Fine(s)}
  <1>2. bad = {}
    <2> SUFFICES ASSUME bad # {} PROVE FALSE
      OBVIOUS
    <2>1. PICK b \in bad : \A a \in SUBSET b : a # b => a \notin bad
      <3>1. bad \in SUBSET SUBSET S
        OBVIOUS
      <3> HIDE DEF bad
      <3> QED
        BY <3>1, MinimalSubset
    <2>2. b \in SUBSET S /\ ~Fine(b)
      OBVIOUS
    <2>3. ASSUME NEW x \in b PROVE Fine(b \ {x})
      <3> HIDE DEF Fine
      <3> QED
        BY <2>1, <2>2
    <2>4. b # {}
      <3>1. g[{}] = 0
        BY <1>1 DEF AddsUp
      <3>2. Fine({})
        BY <3>1
      <3> HIDE DEF Fine
      <3> QED
        BY <2>2, <3>2
    <2>10. ASSUME NEW x \in b
           PROVE  /\ g[b \ {x}] \in Int /\ f[x] \in Int
                  /\ \A y \in b \ {x} : g[b \ {x}] = f[y] + g[(b \ {x}) \ {y}]
      BY <2>2, <2>3
    <2> HIDE DEF Fine, bad
    <2>5. PICK c : c = CHOOSE y \in b : TRUE
      OBVIOUS
    <2>6. c \in b /\ f[c] \in Int
      BY <2>2, <2>4, <2>5
    <2>7. g[b] = f[c] + g[b \ {c}]
      BY <1>1, <2>2, <2>4, <2>5 DEF AddsUp
    <2>8. g[b] \in Int
      BY <2>6, <2>7, <2>10
    <2>9. ASSUME NEW x \in b PROVE g[b] = f[x] + g[b \ {x}]
      <3>1. CASE x = c
        BY <2>7, <3>1
      <3>2. CASE x # c
        <4>1. x \in b \ {c} /\ c \in b \ {x} /\ (b \ {c}) \ {x} = (b \ {x}) \ {c}
          BY <2>6, <3>2
        <4>2. g[b \ {c}] = f[x] + g[(b \ {c}) \ {x}] /\ g[b \ {c}] \in Int
          BY <2>6, <2>10, <4>1
        <4>3. g[b \ {x}] = f[c] + g[(b \ {x}) \ {c}] /\ g[b \ {x}] \in Int
          BY <2>10, <4>1
        <4>4. f[x] \in Int /\ (b \ {x}) \ {c} = (b \ {c}) \ {x}
          BY <2>2, <4>1
        <4>5. PICK rest : rest = g[(b \ {c}) \ {x}]
          OBVIOUS
        <4>6. rest \in Int
          <5>1. /\ (b \ {c}) \ {x} \in SUBSET S /\ (b \ {c}) \ {x} \in SUBSET b
                /\ (b \ {c}) \ {x} # b
            BY <2>2
          <5>2. (b \ {c}) \ {x} \notin bad
            BY <2>1, <5>1
          <5> QED
            BY <4>5, <5>1, <5>2 DEF bad, Fine
        <4>7. PICK i, j, k : i = g[b] /\ j = g[b \ {c}] /\ k = g[b \ {x}]
          OBVIOUS
        <4>8. i = f[c] + j /\ j = f[x] + rest /\ k = f[c] + rest
          BY <2>7, <4>2, <4>3, <4>4, <4>5, <4>7
        <4>9. i = f[x] + k
          BY <2>6, <4>4, <4>6, <4>8
        <4> QED
          BY <4>7, <4>9
      <3> QED
        BY <3>1, <3>2
    <2> QED
      BY <2>2, <2>8, <2>9 DEF Fine
  <1>3. \A s \in SUBSET S : Fine(s)
    <2> HIDE DEF Fine
    <2> QED
      BY <1>2
  <1>4. ASSUME NEW x \in S PROVE SumFunctionOnSet(f, S \ {x}) = g[S \ {x}]
    <2>1. IsFiniteSet(S \ {x})
      BY FS_RemoveElement
    <2>2. PICK k : AddsUp(f, S \ {x}, k) /\ SumFunctionOnSet(f, S \ {x}) = k[S \ {x}]
      BY <2>1, SumAddsUp
    <2>3. S \ {x} \in SUBSET S
      OBVIOUS
    <2>4. g[S \ {x}] = k[S \ {x}]
      BY <1>1, <2>1, <2>2, <2>3, AddUpAlike
    <2> QED
      BY <2>2, <2>4
  <1> QED
    BY <1>1, <1>3, <1>4

(* The sum over nothing.                                                   *)
LEMMA SumEmpty == ASSUME NEW f PROVE SumFunctionOnSet(f, {}) = 0
  <1>1. PICK g : AddsUp(f, {}, g) /\ SumFunctionOnSet(f, {}) = g[{}]
    BY FS_EmptySet, SumAddsUp
  <1> QED
    BY <1>1 DEF AddsUp

(* The sum with one more element.                                          *)
LEMMA SumIn ==
    ASSUME NEW S, IsFiniteSet(S), NEW x, x \notin S, NEW f, \A y \in S \cup {x} : f[y] \in Int
    PROVE  SumFunctionOnSet(f, S \cup {x}) = f[x] + SumFunctionOnSet(f, S)
  <1>1. IsFiniteSet(S \cup {x}) /\ x \in S \cup {x} /\ (S \cup {x}) \ {x} = S
    BY FS_AddElement
  <1>2. SumFunctionOnSet(f, S \cup {x}) = f[x] + SumFunctionOnSet(f, (S \cup {x}) \ {x})
    BY <1>1, SumOut
  <1> QED
    BY <1>1, <1>2

(* The sum when the value of one element changes.                          *)
LEMMA SumChange ==
    ASSUME NEW S, IsFiniteSet(S), NEW x \in S, NEW f, NEW h,
           \A y \in S : f[y] \in Int /\ h[y] \in Int,
           \A y \in S \ {x} : h[y] = f[y]
    PROVE  SumFunctionOnSet(h, S) = SumFunctionOnSet(f, S) + (h[x] - f[x])
  <1>1. IsFiniteSet(S \ {x})
    BY FS_RemoveElement
  <1>2. PICK rest : rest = SumFunctionOnSet(f, S \ {x})
    OBVIOUS
  <1>3. rest = SumFunctionOnSet(h, S \ {x})
    BY <1>1, <1>2, SumAlike
  <1>4. rest \in Int
    BY <1>1, <1>2, SumOut
  <1>5. SumFunctionOnSet(f, S) = f[x] + rest /\ SumFunctionOnSet(h, S) = h[x] + rest
    BY <1>2, <1>3, SumOut
  <1>6. PICK a, b : a = f[x] /\ b = h[x] /\ a \in Int /\ b \in Int
    OBVIOUS
  <1>7. b + rest = (a + rest) + (b - a)
    BY <1>4, <1>6
  <1> QED
    BY <1>5, <1>6, <1>7

(* Natural numbers add up to one, and none of them is more than the sum.   *)
LEMMA SumOfNaturals ==
    ASSUME NEW S, IsFiniteSet(S), NEW f, \A x \in S : f[x] \in Nat
    PROVE  /\ SumFunctionOnSet(f, S) \in Nat
           /\ \A x \in S : f[x] <= SumFunctionOnSet(f, S)
  <1> DEFINE bad == {s \in SUBSET S : SumFunctionOnSet(f, s) \notin Nat}
  <1>1. \A s \in SUBSET S : IsFiniteSet(s)
    BY FS_Subset
  <1>2. bad = {}
    <2> SUFFICES ASSUME bad # {} PROVE FALSE
      OBVIOUS
    <2>1. PICK b \in bad : \A a \in SUBSET b : a # b => a \notin bad
      <3>1. bad \in SUBSET SUBSET S
        OBVIOUS
      <3> HIDE DEF bad
      <3> QED
        BY <3>1, MinimalSubset
    <2>2. b \in SUBSET S /\ SumFunctionOnSet(f, b) \notin Nat
      OBVIOUS
    <2>3. PICK x : x \in b
      BY <2>2, SumEmpty
    <2>4. b \ {x} \in SUBSET S /\ b \ {x} \in SUBSET b /\ b \ {x} # b
      BY <2>2, <2>3
    <2>5. SumFunctionOnSet(f, b \ {x}) \in Nat
      BY <2>1, <2>4
    <2>6. SumFunctionOnSet(f, b) = f[x] + SumFunctionOnSet(f, b \ {x})
      <3>1. IsFiniteSet(b) /\ \A y \in b : f[y] \in Int
        BY <1>1, <2>2
      <3> QED
        BY <2>3, <3>1, SumOut
    <2>7. f[x] \in Nat
      BY <2>2, <2>3
    <2> QED
      BY <2>2, <2>5, <2>6, <2>7
  <1>3. \A s \in SUBSET S : SumFunctionOnSet(f, s) \in Nat
    BY <1>2
  <1>4. ASSUME NEW x \in S PROVE f[x] <= SumFunctionOnSet(f, S)
    <2>1. SumFunctionOnSet(f, S) = f[x] + SumFunctionOnSet(f, S \ {x})
      BY SumOut
    <2>2. PICK n : n = SumFunctionOnSet(f, S \ {x})
      OBVIOUS
    <2>3. n \in Nat /\ f[x] \in Nat
      BY <1>3, <2>2
    <2> QED
      BY <2>1, <2>2, <2>3
  <1> QED
    BY <1>3, <1>4

(* Numbers none of which is positive add up to one that is not.            *)
LEMMA SumNotPositive ==
    ASSUME NEW S, IsFiniteSet(S), NEW f, \A x \in S : f[x] \in Int /\ f[x] <= 0
    PROVE  SumFunctionOnSet(f, S) <= 0
  <1>1. \A s \in SUBSET S : IsFiniteSet(s)
    BY FS_Subset
  <1> DEFINE bad == {s \in SUBSET S : ~(SumFunctionOnSet(f, s) <= 0)}
  <1>2. bad = {}
    <2> SUFFICES ASSUME bad # {} PROVE FALSE
      OBVIOUS
    <2>1. PICK b \in bad : \A a \in SUBSET b : a # b => a \notin bad
      <3>1. bad \in SUBSET SUBSET S
        OBVIOUS
      <3> HIDE DEF bad
      <3> QED
        BY <3>1, MinimalSubset
    <2>2. b \in SUBSET S /\ ~(SumFunctionOnSet(f, b) <= 0)
      OBVIOUS
    <2>3. PICK x : x \in b
      BY <2>2, SumEmpty
    <2>4. b \ {x} \in SUBSET S /\ b \ {x} \in SUBSET b /\ b \ {x} # b
      BY <2>2, <2>3
    <2>5. SumFunctionOnSet(f, b \ {x}) <= 0
      BY <2>1, <2>4
    <2>6. /\ SumFunctionOnSet(f, b) = f[x] + SumFunctionOnSet(f, b \ {x})
          /\ SumFunctionOnSet(f, b \ {x}) \in Int
      <3>1. /\ IsFiniteSet(b) /\ \A y \in b : f[y] \in Int
            /\ IsFiniteSet(b \ {x}) /\ \A y \in b \ {x} : f[y] \in Int
        BY <1>1, <2>2, <2>4
      <3> QED
        BY <2>3, <3>1, SumOut
    <2>7. f[x] \in Int /\ f[x] <= 0
      BY <2>2, <2>3
    <2>8. PICK n, m : n = SumFunctionOnSet(f, b \ {x}) /\ m = f[x]
      OBVIOUS
    <2> QED
      BY <2>2, <2>5, <2>6, <2>7, <2>8
  <1> QED
    BY <1>2

(* Zeros add up to nothing.                                                *)
LEMMA SumOfZeros ==
    ASSUME NEW S, IsFiniteSet(S), NEW f, \A x \in S : f[x] = 0
    PROVE  SumFunctionOnSet(f, S) = 0
  <1>1. \A s \in SUBSET S : IsFiniteSet(s)
    BY FS_Subset
  <1> DEFINE bad == {s \in SUBSET S : SumFunctionOnSet(f, s) # 0}
  <1>2. bad = {}
    <2> SUFFICES ASSUME bad # {} PROVE FALSE
      OBVIOUS
    <2>1. PICK b \in bad : \A a \in SUBSET b : a # b => a \notin bad
      <3>1. bad \in SUBSET SUBSET S
        OBVIOUS
      <3> HIDE DEF bad
      <3> QED
        BY <3>1, MinimalSubset
    <2>2. b \in SUBSET S /\ SumFunctionOnSet(f, b) # 0
      OBVIOUS
    <2>3. PICK x : x \in b
      BY <2>2, SumEmpty
    <2>4. b \ {x} \in SUBSET S /\ b \ {x} \in SUBSET b /\ b \ {x} # b
      BY <2>2, <2>3
    <2>5. SumFunctionOnSet(f, b \ {x}) = 0
      BY <2>1, <2>4
    <2>6. SumFunctionOnSet(f, b) = f[x] + SumFunctionOnSet(f, b \ {x})
      <3>1. IsFiniteSet(b) /\ \A y \in b : f[y] \in Int
        BY <1>1, <2>2
      <3> QED
        BY <2>3, <3>1, SumOut
    <2>7. f[x] = 0
      BY <2>2, <2>3
    <2> QED
      BY <2>2, <2>5, <2>6, <2>7
  <1> QED
    BY <1>2

(* A list with one more number.                                            *)
LEMMA SumAppend ==
    ASSUME NEW n \in Nat, NEW f, \A i \in 1..(n + 1) : f[i] \in Int
    PROVE  /\ SumFunctionOnSet(f, 1..n) \in Int
           /\ SumFunctionOnSet(f, 1..(n + 1)) = f[n + 1] + SumFunctionOnSet(f, 1..n)
  <1>1. PICK S, T, x : S = 1..n /\ T = 1..(n + 1) /\ x = n + 1
    OBVIOUS
  <1>2. IsFiniteSet(S)
    BY <1>1, FS_Interval
  <1>3. T = S \cup {x} /\ x \notin S
    BY <1>1
  <1>4. \A i \in S \cup {x} : f[i] \in Int
    BY <1>1, <1>3
  <1>5. SumFunctionOnSet(f, S \cup {x}) = f[x] + SumFunctionOnSet(f, S)
    BY <1>2, <1>3, <1>4, SumIn
  <1>6. SumFunctionOnSet(f, S) \in Int
    BY <1>2, <1>4, SumOut
  <1> QED
    BY <1>1, <1>3, <1>5, <1>6
=============================================================================
