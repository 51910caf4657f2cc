--------------------------- MODULE ChatFeedProofs ----------------------------
(***************************************************************************)
(* Proofs about ChatFeed, for any players and streams, any limits of       *)
(* histories, log and channels, and any number of failures and restarts.   *)
(***************************************************************************)
EXTENDS ChatFeed, DataLemmas

LEMMA Constants ==
    /\ GlobalLimit \in Nat \ {0} /\ PrivateLimit \in Nat \ {0}
    /\ StoreLimit \in Nat \ {0} /\ BufferSize \in Nat \ {0}
    /\ MaxMessages \in Nat /\ MaxRequests \in Nat
    /\ \A m \in Message : m.id \in Nat
  <1>1. MaxMessages \in Nat /\ MaxRequests \in Nat
    BY BoundsAssumption
  <1>2. \A m \in Message : m.id \in 1..MaxMessages
    BY DEF Message
  <1> QED
    BY <1>1, <1>2, LimitsAssumption

----------------------------------------------------------------------------
(* Sequences                                                               *)

(* The latest n elements: what they are and how many.                      *)
LEMMA LatestElements ==
    ASSUME NEW S, NEW q \in Seq(S), NEW n \in Nat \ {0}
    PROVE  /\ Latest(q, n) \in Seq(S) /\ Len(Latest(q, n)) <= n
           /\ Len(Latest(q, n)) = IF Len(q) > n THEN n ELSE Len(q)
           /\ \A i \in 1..Len(Latest(q, n)) :
                 Latest(q, n)[i] = q[IF Len(q) > n THEN i + Len(q) - n ELSE i]
  <1>1. CASE ~(Len(q) > n)
    BY <1>1 DEF Latest
  <1>2. CASE Len(q) > n
    <2> DEFINE k == Len(q) - n + 1
               b == SubSeq(q, k, Len(q))
    <2>1. Len(q) \in Nat /\ k \in 1..Len(q) /\ \A i \in k..Len(q) : q[i] \in S
      BY <1>2
    <2>2. b \in Seq(S) /\ Len(b) = Len(q) - k + 1
      BY <2>1
    <2>3. Len(b) = n
      BY <2>1, <2>2
    <2>4. \A i \in 1..n : b[i] = q[k + i - 1]
      BY <2>1
    <2>5. Latest(q, n) = b
      BY <1>2 DEF Latest
    <2>6. \A i \in 1..n : k + i - 1 = i + Len(q) - n
      BY <2>1
    <2> HIDE DEF b, k
    <2> QED
      BY <1>2, <2>2, <2>3, <2>4, <2>5, <2>6
  <1> QED
    BY <1>1, <1>2

LEMMA AppendElements ==
    ASSUME NEW S, NEW q \in Seq(S), NEW m \in S
    PROVE  /\ Append(q, m) \in Seq(S) /\ Len(Append(q, m)) = Len(q) + 1 /\ Len(q) \in Nat
           /\ \A i \in 1..Len(q) : Append(q, m)[i] = q[i]
           /\ Append(q, m)[Len(q) + 1] = m
  OBVIOUS

LEMMA IdsOfAppend ==
    ASSUME NEW S, NEW q \in Seq(S), NEW m \in S
    PROVE  Ids(Append(q, m)) = Ids(q) \cup {m.id}
  <1>1. /\ DOMAIN Append(q, m) = 1..(Len(q) + 1) /\ DOMAIN q = 1..Len(q) /\ Len(q) \in Nat
        /\ \A i \in 1..Len(q) : Append(q, m)[i] = q[i]
        /\ Append(q, m)[Len(q) + 1] = m
    OBVIOUS
  <1>2. ToSet(Append(q, m)) = ToSet(q) \cup {m}
    <2> DEFINE b == Append(q, m)
    <2> HIDE DEF b
    <2>1. DOMAIN b = DOMAIN q \cup {Len(q) + 1}
      BY <1>1 DEF b
    <2>2. (\A i \in DOMAIN q : b[i] = q[i]) /\ b[Len(q) + 1] = m
      BY <1>1 DEF b
    <2>3. ToSet(b) = ToSet(q) \cup {m}
      BY <2>1, <2>2 DEF ToSet
    <2> QED
      BY <2>3 DEF b
  <1> QED
    BY <1>2 DEF Ids

LEMMA IdsOfTail ==
    ASSUME NEW S, NEW q \in Seq(S), q # <<>>
    PROVE  /\ Head(q) \in S /\ Tail(q) \in Seq(S) /\ Len(Tail(q)) = Len(q) - 1
           /\ Ids(q) \subseteq Ids(Tail(q)) \cup {Head(q).id}
  <1>1. /\ Head(q) \in S /\ Tail(q) \in Seq(S) /\ Len(Tail(q)) = Len(q) - 1 /\ Len(q) \in Nat
        /\ Head(q) = q[1] /\ \A i \in 1..Len(q) - 1 : Tail(q)[i] = q[i + 1]
    OBVIOUS
  <1> DEFINE b == Tail(q)
  <1> HIDE DEF b
  <1>2. DOMAIN b = 1..(Len(q) - 1) /\ DOMAIN q = 1..Len(q)
    BY <1>1 DEF b
  <1>3. ASSUME NEW m \in ToSet(q) PROVE m = Head(q) \/ m \in ToSet(b)
    <2>1. PICK i \in 1..Len(q) : m = q[i]
      BY <1>2 DEF ToSet
    <2>2. CASE i = 1
      BY <1>1, <2>1, <2>2
    <2>3. CASE i # 1
      <3>1. i - 1 \in 1..(Len(q) - 1) /\ b[i - 1] = q[i]
        BY <1>1, <2>3 DEF b
      <3> QED
        BY <1>2, <2>1, <3>1 DEF ToSet
    <2> QED
      BY <2>2, <2>3
  <1>4. Ids(q) \subseteq Ids(b) \cup {Head(q).id}
    BY <1>3 DEF Ids
  <1> QED
    BY <1>1, <1>4 DEF b

----------------------------------------------------------------------------
(* The stored log                                                          *)

(* Messages are numbered in the order in which they are stored.            *)
Numbered(log, n) ==
    /\ \A i \in 1..Len(log) : log[i].id <= n
    /\ \A i, j \in 1..Len(log) : i < j => log[i].id < log[j].id

(* A log that does not have one of these is full of newer ones.            *)
Keeps(log, ids) ==
    \A id \in ids :
        id \in Ids(log) \/ (Len(log) = StoreLimit /\ \A newer \in Ids(log) : id < newer)

(* Storing message n + 1 pushes out only the oldest.                       *)
LEMMA StoredLog ==
    ASSUME NEW log \in Seq(Message), NEW n \in Nat, Numbered(log, n),
           NEW ids \in SUBSET Nat, Keeps(log, ids), NEW m \in Message, m.id = n + 1
    PROVE  LET new == Latest(Append(log, m), StoreLimit)
           IN  /\ new \in Seq(Message) /\ Len(new) <= StoreLimit
               /\ Numbered(new, n + 1) /\ Keeps(new, ids \cup {m.id})
  <1> DEFINE all == Append(log, m)
             new == Latest(all, StoreLimit)
             d == IF Len(all) > StoreLimit THEN Len(all) - StoreLimit ELSE 0
  <1>0. StoreLimit \in Nat \ {0}
    BY Constants
  <1>1. /\ all \in Seq(Message) /\ Len(all) = Len(log) + 1 /\ Len(log) \in Nat
        /\ \A i \in 1..Len(log) : all[i] = log[i]
        /\ all[Len(log) + 1] = m
    BY AppendElements
  <1>2. Ids(all) = Ids(log) \cup {m.id}
    BY IdsOfAppend
  <1>3. Numbered(all, n + 1)
    <2> HIDE DEF all
    <2>1. ASSUME NEW i \in 1..Len(log)
          PROVE  all[i].id \in Nat /\ all[i].id <= n /\ all[i].id = log[i].id
      BY <1>1, Constants DEF Numbered
    <2>2. ASSUME NEW i \in 1..Len(all) PROVE all[i].id <= n + 1
      <3>1. i \in 1..Len(log) \/ i = Len(log) + 1
        BY <1>1
      <3> QED
        BY <1>1, <2>1, <3>1
    <2>3. ASSUME NEW i \in 1..Len(all), NEW j \in 1..Len(all), i < j
          PROVE  all[i].id < all[j].id
      <3>1. i \in 1..Len(log) /\ (j \in 1..Len(log) \/ j = Len(log) + 1)
        BY <1>1, <2>3
      <3>2. CASE j \in 1..Len(log)
        BY <2>1, <2>3, <3>1, <3>2 DEF Numbered
      <3>3. CASE j = Len(log) + 1
        BY <1>1, <2>1, <3>1, <3>3
      <3> QED
        BY <3>1, <3>2, <3>3
    <2> QED
      BY <2>2, <2>3 DEF Numbered
  <1> HIDE DEF all
  <1>4. /\ new \in Seq(Message) /\ Len(new) <= StoreLimit
        /\ Len(new) = IF Len(all) > StoreLimit THEN StoreLimit ELSE Len(all)
        /\ \A i \in 1..Len(new) :
              new[i] = all[IF Len(all) > StoreLimit THEN i + Len(all) - StoreLimit ELSE i]
    BY <1>0, <1>1, LatestElements
  <1>5. /\ Len(all) \in Nat /\ Len(new) \in Nat /\ d \in Nat /\ Len(new) = Len(all) - d
        /\ d > 0 => Len(new) = StoreLimit
    BY <1>0, <1>1, <1>4
  <1>6. \A i \in 1..Len(new) : new[i] = all[i + d] /\ i + d \in 1..Len(all)
    <2> HIDE DEF new
    <2> QED
      BY <1>0, <1>1, <1>4, <1>5
  <1> HIDE DEF new, d
  <1>7. Numbered(new, n + 1)
    <2>1. ASSUME NEW i \in 1..Len(new) PROVE new[i].id <= n + 1
      BY <1>3, <1>6 DEF Numbered
    <2>2. ASSUME NEW i \in 1..Len(new), NEW j \in 1..Len(new), i < j PROVE new[i].id < new[j].id
      <3>1. /\ i + d \in 1..Len(all) /\ j + d \in 1..Len(all) /\ i + d < j + d
            /\ new[i] = all[i + d] /\ new[j] = all[j + d]
        BY <1>5, <1>6, <2>2
      <3> QED
        BY <1>3, <3>1 DEF Numbered
    <2> QED
      BY <2>1, <2>2 DEF Numbered
  <1>8. ASSUME NEW newer \in Ids(new) PROVE \E i \in 1..Len(new) : newer = all[i + d].id
    <2>1. PICK i \in 1..Len(new) : newer = new[i].id
      BY <1>4, <1>8 DEF Ids, ToSet
    <2> QED
      BY <1>6, <2>1
  <1>9. ASSUME NEW id \in Ids(all), id \notin Ids(new)
        PROVE  Len(new) = StoreLimit /\ \A newer \in Ids(new) : id < newer
    <2>1. PICK j \in 1..Len(all) : id = all[j].id
      BY <1>1, <1>9 DEF Ids, ToSet
    <2>2. ~(j > d)
      <3> SUFFICES ASSUME j > d PROVE FALSE
        OBVIOUS
      <3>1. j - d \in 1..Len(new)
        BY <1>5
      <3>2. new[j - d] = all[j]
        BY <1>5, <1>6, <3>1
      <3>3. all[j].id \in Ids(new)
        BY <1>4, <3>1, <3>2 DEF Ids, ToSet
      <3> QED
        BY <1>9, <2>1, <3>3
    <2>3. ASSUME NEW newer \in Ids(new) PROVE id < newer
      <3>1. PICK i \in 1..Len(new) : newer = all[i + d].id
        BY <1>8
      <3>2. j < i + d /\ i + d \in 1..Len(all)
        BY <1>5, <1>6, <2>2
      <3> QED
        BY <1>3, <2>1, <3>1, <3>2 DEF Numbered
    <2> QED
      BY <1>5, <2>2, <2>3
  <1>10. ASSUME NEW id \in ids, id \notin Ids(log)
         PROVE  Len(new) = StoreLimit /\ \A newer \in Ids(new) : id < newer
    <2>1. id \in Nat /\ Len(log) = StoreLimit /\ \A newer \in Ids(log) : id < newer
      BY <1>10 DEF Keeps
    <2>2. Len(new) = StoreLimit
      BY <1>0, <1>1, <1>4, <2>1
    <2>3. log[1].id \in Ids(log) /\ log[1].id \in Nat /\ log[1].id <= n
      BY <1>0, <2>1, Constants DEF Numbered, Ids, ToSet
    <2>4. id < m.id
      BY <2>1, <2>3
    <2>5. Ids(new) \subseteq Ids(all)
      BY <1>1, <1>6, <1>8 DEF Ids, ToSet
    <2> QED
      BY <1>2, <2>1, <2>2, <2>4, <2>5
  <1>11. Keeps(new, ids \cup {m.id})
    <2>1. ASSUME NEW id \in ids \cup {m.id}, id \notin Ids(new)
          PROVE  Len(new) = StoreLimit /\ \A newer \in Ids(new) : id < newer
      <3>1. id \in Ids(all) \/ (id \in ids /\ id \notin Ids(log))
        BY <1>2
      <3> QED
        BY <1>9, <1>10, <2>1, <3>1
    <2> QED
      BY <2>1 DEF Keeps
  <1> QED
    BY <1>4, <1>7, <1>11 DEF new, all

----------------------------------------------------------------------------
(* The invariant                                                           *)

(* What was acknowledged to a client that asked for chat was sent to it,   *)
(* waits in its channel or found it full, wherever its handler is: until   *)
(* it leaves it is subscribed.                                             *)
Reach ==
    /\ DOMAIN seen = Streams /\ DOMAIN lost = Streams /\ DOMAIN chatOwed = Streams
    /\ \A s \in Streams :
          /\ at[s] = "none" => ~includeChat[s]
          /\ ~includeChat[s] => chatOwed[s] = {}
          /\ at[s] \notin {"none", "left"} => s \in live
          /\ at[s] # "left" => chatOwed[s] \subseteq seen[s] \cup Ids(chatFeed[s]) \cup lost[s]

LogKept(log) == Numbered(log, sent) /\ Keeps(log, acked)

LogsKept == LogKept(messages) /\ LogKept(file)

IInv == TypeOK /\ Reach /\ LogsKept

(* A message that is numbered next.                                        *)
LEMMA NewMessage ==
    ASSUME TypeOK, Number, NEW from \in Players \cup {"market"}, NEW to \in Players \cup {"all"}
    PROVE  New(from, to) \in Message /\ New(from, to).id = sent + 1 /\ sent' = sent + 1
  <1>0. MaxMessages \in Nat /\ sent \in 0..MaxMessages
    BY Constants DEF TypeOK
  <1>1. sent \in Nat /\ sent + 1 \in 1..MaxMessages /\ sent' = sent + 1
    BY <1>0 DEF Number
  <1>2. [id |-> sent + 1, from |-> from, to |-> to] \in Message
    BY <1>1 DEF Message
  <1>3. New(from, to) = [id |-> sent + 1, from |-> from, to |-> to]
    BY DEF New
  <1> QED
    BY <1>1, <1>2, <1>3

LEMMA PushEffect ==
    ASSUME NEW feeds \in [Streams -> Seq(Message)], NEW targets, NEW m \in Message,
           \A s \in Streams : Len(feeds[s]) <= BufferSize
    PROVE  /\ Push(feeds, targets, m) \in [Streams -> Seq(Message)]
           /\ \A s \in Streams : /\ Len(Push(feeds, targets, m)[s]) <= BufferSize
                                 /\ Ids(feeds[s]) \subseteq Ids(Push(feeds, targets, m)[s])
                                 /\ lost[s] \subseteq Overflow(feeds, targets, m)[s]
                                 /\ s \in targets => \/ m.id \in Ids(Push(feeds, targets, m)[s])
                                                     \/ m.id \in Overflow(feeds, targets, m)[s]
  <1> USE Constants
  <1> DEFINE new == Push(feeds, targets, m)
  <1>1. ASSUME NEW s \in Streams
        PROVE  /\ new[s] \in Seq(Message) /\ Len(new[s]) <= BufferSize
               /\ Ids(feeds[s]) \subseteq Ids(new[s])
               /\ lost[s] \subseteq Overflow(feeds, targets, m)[s]
               /\ s \in targets => m.id \in Ids(new[s]) \/ m.id \in Overflow(feeds, targets, m)[s]
    <2>1. feeds[s] \in Seq(Message) /\ Len(feeds[s]) \in Nat /\ Len(feeds[s]) <= BufferSize
      OBVIOUS
    <2>2. CASE s \in targets /\ Len(feeds[s]) < BufferSize
      <3>1. new[s] = Append(feeds[s], m)
        BY <2>2 DEF Push
      <3>2. new[s] \in Seq(Message) /\ Len(new[s]) <= BufferSize
        <4> HIDE DEF new
        <4>1. new[s] \in Seq(Message) /\ Len(new[s]) = Len(feeds[s]) + 1
          BY <2>1, <3>1, AppendElements
        <4> QED
          BY <2>1, <2>2, <4>1
      <3>3. Ids(new[s]) = Ids(feeds[s]) \cup {m.id}
        BY <2>1, <3>1, IdsOfAppend
      <3>4. lost[s] \subseteq Overflow(feeds, targets, m)[s]
        BY DEF Overflow
      <3> QED
        BY <3>2, <3>3, <3>4
    <2>3. CASE ~(s \in targets /\ Len(feeds[s]) < BufferSize)
      <3>1. new[s] = feeds[s]
        BY <2>3 DEF Push
      <3>2. Overflow(feeds, targets, m)[s] = IF s \in targets THEN lost[s] \cup {m.id} ELSE lost[s]
        BY <2>1, <2>3 DEF Overflow
      <3> QED
        BY <2>1, <3>1, <3>2
    <2> QED
      BY <2>2, <2>3
  <1>2. new \in [Streams -> Seq(Message)]
    <2>1. new = [s \in Streams |-> new[s]]
      BY DEF Push
    <2> HIDE DEF new
    <2> QED
      BY <1>1, <2>1
  <1> QED
    BY <1>1, <1>2

(* A message may be numbered and not stored.                               *)
LEMMA LogAges ==
    ASSUME NEW log \in Seq(Message), NEW n \in Nat, Numbered(log, n)
    PROVE  Numbered(log, n + 1)
  <1>1. ASSUME NEW i \in 1..Len(log) PROVE log[i].id <= n + 1
    <2>1. log[i].id \in Nat
      BY Constants
    <2> QED
      BY <2>1 DEF Numbered
  <1> QED
    BY <1>1 DEF Numbered

(* ChatStore.Append keeps both logs, the file also when it is not written. *)
LEMMA StoreEffect ==
    ASSUME TypeOK, LogsKept, NEW m \in Message, m.id = sent + 1,
           NEW written \in BOOLEAN, Store(m, written)
    PROVE  /\ messages' \in Seq(Message) /\ Len(messages') <= StoreLimit
           /\ file' \in Seq(Message) /\ Len(file') <= StoreLimit
           /\ Numbered(messages', sent + 1) /\ Keeps(messages', acked \cup {m.id})
           /\ Numbered(file', sent + 1) /\ Keeps(file', acked)
           /\ written => Keeps(file', acked \cup {m.id})
  <1>0. /\ MaxMessages \in Nat /\ sent \in 0..MaxMessages /\ acked \subseteq 1..sent
        /\ messages \in Seq(Message) /\ file \in Seq(Message) /\ Len(file) <= StoreLimit
    BY Constants DEF TypeOK
  <1>1. /\ sent \in Nat /\ acked \in SUBSET Nat
        /\ messages \in Seq(Message) /\ file \in Seq(Message) /\ Len(file) <= StoreLimit
    BY <1>0
  <1>2. /\ Numbered(messages, sent) /\ Keeps(messages, acked)
        /\ Numbered(file, sent) /\ Keeps(file, acked)
    BY DEF LogsKept, LogKept
  <1>3. PICK log : log = Latest(Append(messages, m), StoreLimit)
    OBVIOUS
  <1>4. messages' = log /\ file' = IF written THEN log ELSE file
    BY <1>3 DEF Store, FileAfter
  <1>5. /\ log \in Seq(Message) /\ Len(log) <= StoreLimit
        /\ Numbered(log, sent + 1) /\ Keeps(log, acked \cup {m.id})
    BY <1>1, <1>2, <1>3, StoredLog
  <1>6. Keeps(log, acked)
    BY <1>5 DEF Keeps
  <1>7. Numbered(file, sent + 1) /\ Keeps(file, acked)
    BY <1>1, <1>2, LogAges
  <1>8. CASE written
    BY <1>4, <1>5, <1>6, <1>8
  <1>9. CASE ~written
    BY <1>1, <1>4, <1>5, <1>7, <1>9
  <1> QED
    BY <1>8, <1>9

LEMMA NotifyEffect ==
    ASSUME TypeOK, NEW players, NEW m \in Message, Notify(players, m)
    PROVE  /\ privateHistory' \in [Players -> Seq(Message)]
           /\ \A p \in Players : Len(privateHistory'[p]) <= PrivateLimit
           /\ privateFeed' \in [Streams -> Seq(Message)]
           /\ \A s \in Streams : Len(privateFeed'[s]) <= BufferSize
           /\ DOMAIN lost' = Streams
           /\ \A s \in Streams : lost[s] \subseteq lost'[s]
  <1>1. ASSUME NEW p \in Players
        PROVE  /\ Latest(Append(privateHistory[p], m), PrivateLimit) \in Seq(Message)
               /\ Len(Latest(Append(privateHistory[p], m), PrivateLimit)) <= PrivateLimit
    <2>1. privateHistory[p] \in Seq(Message)
      BY DEF TypeOK
    <2>2. Append(privateHistory[p], m) \in Seq(Message)
      BY <2>1
    <2> QED
      BY <2>2, Constants, LatestElements
  <1>2. \A p \in Players : privateHistory[p] \in Seq(Message) /\ Len(privateHistory[p]) <= PrivateLimit
    BY DEF TypeOK
  <1>3. privateHistory' = [p \in Players |->
                              IF p \in players
                              THEN Latest(Append(privateHistory[p], m), PrivateLimit)
                              ELSE privateHistory[p]]
    BY DEF Notify
  <1>4. /\ privateHistory' \in [Players -> Seq(Message)]
        /\ \A p \in Players : Len(privateHistory'[p]) <= PrivateLimit
    BY <1>1, <1>2, <1>3
  <1>5. PICK targets : /\ privateFeed' = Push(privateFeed, targets, m)
                       /\ lost' = Overflow(privateFeed, targets, m)
    BY DEF Notify
  <1>6. /\ privateFeed \in [Streams -> Seq(Message)]
        /\ \A s \in Streams : Len(privateFeed[s]) <= BufferSize
    BY DEF TypeOK
  <1>7. /\ privateFeed' \in [Streams -> Seq(Message)]
        /\ \A s \in Streams : Len(privateFeed'[s]) <= BufferSize /\ lost[s] \subseteq lost'[s]
    BY <1>5, <1>6, PushEffect
  <1>8. DOMAIN lost' = Streams
    BY <1>5 DEF Overflow
  <1> QED
    BY <1>4, <1>7, <1>8

LEMMA Counted ==
    ASSUME TypeOK, Number
    PROVE  sent' \in 0..MaxMessages /\ acked \subseteq 1..sent' /\ acked \cup {sent + 1} \subseteq 1..sent'
  <1>1. MaxMessages \in Nat /\ sent \in 0..MaxMessages /\ acked \subseteq 1..sent
    BY Constants DEF TypeOK
  <1> QED
    BY <1>1 DEF Number

----------------------------------------------------------------------------
(* Types                                                                   *)

LEMMA StepTypes ==
    ASSUME TypeOK, LogsKept, [Next]_vars
    PROVE  TypeOK'
  <1>1. ASSUME NEW p \in Players, Broadcast(p) PROVE TypeOK'
    <2>1. New(p, "all") \in Message /\ New(p, "all").id = sent + 1 /\ Number /\ Store(New(p, "all"), TRUE)
      BY <1>1, NewMessage DEF Broadcast
    <2>2. /\ messages' \in Seq(Message) /\ Len(messages') <= StoreLimit
          /\ file' \in Seq(Message) /\ Len(file') <= StoreLimit
      BY <2>1, StoreEffect
    <2>3. chatFeed \in [Streams -> Seq(Message)] /\ \A s \in Streams : Len(chatFeed[s]) <= BufferSize
      BY DEF TypeOK
    <2>4. chatFeed' = Push(chatFeed, live, New(p, "all"))
      BY <1>1 DEF Broadcast
    <2>5. chatFeed' \in [Streams -> Seq(Message)] /\ \A s \in Streams : Len(chatFeed'[s]) <= BufferSize
      BY <2>1, <2>3, <2>4, PushEffect
    <2>6. sent' \in 0..MaxMessages /\ acked' \subseteq 1..sent'
      BY <1>1, <2>1, Counted DEF Broadcast
    <2> QED
      BY <1>1, <2>2, <2>5, <2>6 DEF TypeOK, Broadcast
  <1>2. ASSUME NEW p \in Players, BroadcastCancelled(p) PROVE TypeOK'
    <2>1. New(p, "all") \in Message /\ New(p, "all").id = sent + 1 /\ Number /\ Store(New(p, "all"), TRUE)
      BY <1>2, NewMessage DEF BroadcastCancelled
    <2>2. /\ messages' \in Seq(Message) /\ Len(messages') <= StoreLimit
          /\ file' \in Seq(Message) /\ Len(file') <= StoreLimit
      BY <2>1, StoreEffect
    <2>3. chatFeed \in [Streams -> Seq(Message)] /\ \A s \in Streams : Len(chatFeed[s]) <= BufferSize
      BY DEF TypeOK
    <2>4. PICK served : chatFeed' = Push(chatFeed, served, New(p, "all"))
      BY <1>2 DEF BroadcastCancelled
    <2>5. chatFeed' \in [Streams -> Seq(Message)] /\ \A s \in Streams : Len(chatFeed'[s]) <= BufferSize
      BY <2>1, <2>3, <2>4, PushEffect
    <2>6. sent' \in 0..MaxMessages /\ acked' \subseteq 1..sent'
      BY <1>2, <2>1, Counted DEF BroadcastCancelled
    <2> QED
      BY <1>2, <2>2, <2>5, <2>6 DEF TypeOK, BroadcastCancelled
  <1>3. ASSUME NEW p \in Players, NEW to \in Players \cup {"all"}, StoreFails(p, to) PROVE TypeOK'
    <2>1. New(p, to) \in Message /\ New(p, to).id = sent + 1 /\ Number /\ Store(New(p, to), FALSE)
      BY <1>3, NewMessage DEF StoreFails
    <2>2. /\ messages' \in Seq(Message) /\ Len(messages') <= StoreLimit
          /\ file' \in Seq(Message) /\ Len(file') <= StoreLimit
      BY <2>1, StoreEffect
    <2>3. sent' \in 0..MaxMessages /\ acked' \subseteq 1..sent'
      BY <1>3, <2>1, Counted DEF StoreFails
    <2> QED
      BY <1>3, <2>2, <2>3 DEF TypeOK, StoreFails, streamVars
  <1>4. ASSUME NEW p \in Players, NEW q \in Players, SendDirect(p, q) PROVE TypeOK'
    <2>1. New(p, q) \in Message /\ New(p, q).id = sent + 1 /\ Number /\ Store(New(p, q), TRUE)
      BY <1>4, NewMessage DEF SendDirect
    <2>2. /\ messages' \in Seq(Message) /\ Len(messages') <= StoreLimit
          /\ file' \in Seq(Message) /\ Len(file') <= StoreLimit
      BY <2>1, StoreEffect
    <2>3. Notify({p, q}, New(p, q))
      BY <1>4 DEF SendDirect
    <2>4. /\ privateHistory' \in [Players -> Seq(Message)]
          /\ \A r \in Players : Len(privateHistory'[r]) <= PrivateLimit
          /\ privateFeed' \in [Streams -> Seq(Message)]
          /\ \A s \in Streams : Len(privateFeed'[s]) <= BufferSize
      BY <2>1, <2>3, NotifyEffect
    <2>5. sent' \in 0..MaxMessages /\ acked' \subseteq 1..sent'
      BY <1>4, <2>1, Counted DEF SendDirect
    <2> QED
      BY <1>4, <2>2, <2>4, <2>5 DEF TypeOK, SendDirect
  <1>5. ASSUME NEW p \in Players, NotifyPlayer(p) PROVE TypeOK'
    <2>1. New("market", p) \in Message /\ Number /\ Notify({p}, New("market", p))
      BY <1>5, NewMessage DEF NotifyPlayer
    <2>2. /\ privateHistory' \in [Players -> Seq(Message)]
          /\ \A r \in Players : Len(privateHistory'[r]) <= PrivateLimit
          /\ privateFeed' \in [Streams -> Seq(Message)]
          /\ \A s \in Streams : Len(privateFeed'[s]) <= BufferSize
      BY <2>1, NotifyEffect
    <2>3. sent' \in 0..MaxMessages /\ acked' \subseteq 1..sent'
      BY <1>5, <2>1, Counted DEF NotifyPlayer
    <2> QED
      BY <1>5, <2>2, <2>3 DEF TypeOK, NotifyPlayer
  <1>6. ASSUME NEW s \in Streams, Open(s) PROVE TypeOK'
    BY <1>6 DEF TypeOK, storeVars, history, Open, Subscribed
  <1>7. ASSUME NEW s \in Streams, NEW chat \in BOOLEAN, Request(s, chat) PROVE TypeOK'
    <2>1. requests[s] + 1 \in 0..MaxRequests
      <3>1. requests[s] \in 0..MaxRequests /\ MaxRequests \in Nat /\ requests[s] < MaxRequests
        BY <1>7, Constants DEF TypeOK, Request
      <3> QED
        BY <3>1
    <2> QED
      BY <1>7, <2>1 DEF TypeOK, storeVars, Request, AfterHistory
  <1>8. ASSUME NEW s \in Streams, SendGlobalHistory(s) PROVE TypeOK'
    BY <1>8 DEF TypeOK, storeVars, SendGlobalHistory
  <1>9. ASSUME NEW s \in Streams, SendPrivateHistory(s) PROVE TypeOK'
    BY <1>9 DEF TypeOK, storeVars, SendPrivateHistory, AfterHistory
  <1>10. ASSUME NEW s \in Streams, SubscribePrivate(s) PROVE TypeOK'
    BY <1>10 DEF TypeOK, storeVars, history, SubscribePrivate
  <1>11. ASSUME NEW s \in Streams, ForwardChat(s) PROVE TypeOK'
    <2>1. /\ chatFeed[s] \in Seq(Message) /\ chatFeed[s] # <<>>
          /\ Len(chatFeed[s]) <= BufferSize /\ BufferSize \in Nat
      BY <1>11, Constants DEF TypeOK, ForwardChat
    <2>2. Tail(chatFeed[s]) \in Seq(Message) /\ Len(Tail(chatFeed[s])) <= BufferSize
      BY <2>1
    <2> QED
      BY <1>11, <2>2 DEF TypeOK, storeVars, ForwardChat
  <1>12. ASSUME NEW s \in Streams, ForwardPrivate(s) PROVE TypeOK'
    <2>1. /\ privateFeed[s] \in Seq(Message) /\ privateFeed[s] # <<>>
          /\ Len(privateFeed[s]) <= BufferSize /\ BufferSize \in Nat
      BY <1>12, Constants DEF TypeOK, ForwardPrivate
    <2>2. Tail(privateFeed[s]) \in Seq(Message) /\ Len(Tail(privateFeed[s])) <= BufferSize
      BY <2>1
    <2> QED
      BY <1>12, <2>2 DEF TypeOK, storeVars, ForwardPrivate
  <1>13. ASSUME NEW s \in Streams, Leave(s) PROVE TypeOK'
    BY <1>13 DEF TypeOK, storeVars, history, Leave
  <1>14. ASSUME NEW s \in Streams, Unsubscribe(s) PROVE TypeOK'
    BY <1>14 DEF TypeOK, storeVars, history, Unsubscribe
  <1>15. ASSUME Crash PROVE TypeOK'
    <2>1. <<>> \in Seq(Message) /\ Len(<<>>) = 0 /\ 0 <= PrivateLimit /\ 0 <= BufferSize
      BY Constants
    <2>2. PICK none : none = <<>>
      OBVIOUS
    <2>3. none \in Seq(Message) /\ Len(none) <= PrivateLimit /\ Len(none) <= BufferSize
      BY <2>1, <2>2
    <2>4. /\ privateHistory' = [p \in Players |-> none]
          /\ chatFeed' = [s \in Streams |-> none] /\ privateFeed' = [s \in Streams |-> none]
      BY <1>15, <2>2 DEF Crash
    <2>5. /\ privateHistory' \in [Players -> Seq(Message)]
          /\ \A p \in Players : Len(privateHistory'[p]) <= PrivateLimit
          /\ chatFeed' \in [Streams -> Seq(Message)] /\ privateFeed' \in [Streams -> Seq(Message)]
          /\ \A s \in Streams : Len(chatFeed'[s]) <= BufferSize /\ Len(privateFeed'[s]) <= BufferSize
      BY <2>3, <2>4
    <2> QED
      BY <1>15, <2>5 DEF TypeOK, history, Crash
  <1>16. ASSUME UNCHANGED vars PROVE TypeOK'
    BY <1>16 DEF TypeOK, vars, storeVars, streamVars, history
  <1> QED
    BY <1>1, <1>2, <1>3, <1>4, <1>5, <1>6, <1>7, <1>8, <1>9, <1>10, <1>11, <1>12, <1>13,
       <1>14, <1>15, <1>16 DEF Next, Sending, Handler

----------------------------------------------------------------------------
(* The log                                                                 *)

LEMMA StepLogs ==
    ASSUME TypeOK, LogsKept, [Next]_vars
    PROVE  LogsKept'
  <1>1. ASSUME NEW m \in Message, m.id = sent + 1, sent' = sent + 1, Store(m, TRUE),
               acked' \in {acked, acked \cup {m.id}}
        PROVE  LogsKept'
    <2>1. /\ Numbered(messages', sent + 1) /\ Keeps(messages', acked \cup {m.id})
          /\ Numbered(file', sent + 1) /\ Keeps(file', acked \cup {m.id})
      BY <1>1, StoreEffect
    <2>2. Keeps(messages', acked') /\ Keeps(file', acked')
      BY <1>1, <2>1 DEF Keeps
    <2> QED
      BY <1>1, <2>1, <2>2 DEF LogsKept, LogKept
  <1>2. ASSUME NEW p \in Players, Broadcast(p) PROVE LogsKept'
    BY <1>1, <1>2, NewMessage DEF Broadcast
  <1>3. ASSUME NEW p \in Players, BroadcastCancelled(p) PROVE LogsKept'
    BY <1>1, <1>3, NewMessage DEF BroadcastCancelled
  <1>4. ASSUME NEW p \in Players, NEW q \in Players, SendDirect(p, q) PROVE LogsKept'
    BY <1>1, <1>4, NewMessage DEF SendDirect
  <1>5. ASSUME NEW p \in Players, NEW to \in Players \cup {"all"}, StoreFails(p, to) PROVE LogsKept'
    <2>1. /\ New(p, to) \in Message /\ New(p, to).id = sent + 1 /\ sent' = sent + 1
          /\ Store(New(p, to), FALSE) /\ acked' = acked
      BY <1>5, NewMessage DEF StoreFails
    <2>2. /\ Numbered(messages', sent + 1) /\ Keeps(messages', acked \cup {New(p, to).id})
          /\ Numbered(file', sent + 1) /\ Keeps(file', acked)
      BY <2>1, StoreEffect
    <2>3. Keeps(messages', acked)
      BY <2>2 DEF Keeps
    <2> QED
      BY <2>1, <2>2, <2>3 DEF LogsKept, LogKept
  <1>6. ASSUME NEW p \in Players, NotifyPlayer(p) PROVE LogsKept'
    <2>1. MaxMessages \in Nat /\ sent \in 0..MaxMessages /\ acked \subseteq 1..sent
      BY Constants DEF TypeOK
    <2>2. sent \in Nat /\ acked \in SUBSET Nat
      BY <2>1
    <2>3. messages \in Seq(Message) /\ file \in Seq(Message)
      BY DEF TypeOK
    <2>4. LogKept(messages) /\ LogKept(file)
      BY DEF LogsKept
    <2>5. /\ Numbered(messages, sent + 1) /\ Keeps(messages, acked)
          /\ Numbered(file, sent + 1) /\ Keeps(file, acked)
      BY <2>2, <2>3, <2>4, LogAges DEF LogKept
    <2> QED
      BY <1>6, <2>5 DEF LogsKept, LogKept, NotifyPlayer, Number
  <1>7. ASSUME UNCHANGED <<messages, file, sent, acked>> PROVE LogsKept'
    BY <1>7 DEF LogsKept, LogKept
  <1>8. ASSUME NEW s \in Streams, Handler(s) PROVE LogsKept'
    BY <1>7, <1>8 DEF Handler, Open, Request, SendGlobalHistory, SendPrivateHistory,
       SubscribePrivate, ForwardChat, ForwardPrivate, Leave, Unsubscribe, storeVars, history
  <1>9. ASSUME Crash PROVE LogsKept'
    BY <1>9 DEF LogsKept, LogKept, Crash, history
  <1>10. ASSUME UNCHANGED vars PROVE LogsKept'
    BY <1>7, <1>10 DEF vars, storeVars, history
  <1> QED
    BY <1>2, <1>3, <1>4, <1>5, <1>6, <1>8, <1>9, <1>10 DEF Next, Sending

----------------------------------------------------------------------------
(* The streams                                                             *)

LEMMA StepReach ==
    ASSUME TypeOK, Reach, [Next]_vars
    PROVE  Reach'
  <1>0. /\ chatFeed \in [Streams -> Seq(Message)] /\ \A s \in Streams : Len(chatFeed[s]) <= BufferSize
        /\ live \subseteq Streams
    BY DEF TypeOK
  <1>1. ASSUME NEW p \in Players, Broadcast(p) PROVE Reach'
    <2>1. New(p, "all") \in Message
      BY <1>1, NewMessage DEF Broadcast
    <2>2. PICK m \in Message : m = New(p, "all")
      BY <2>1
    <2>3. /\ chatFeed' = Push(chatFeed, live, m) /\ lost' = Overflow(chatFeed, live, m)
          /\ chatOwed' = [s \in Streams |-> IF includeChat[s] /\ at[s] # "left"
                                            THEN chatOwed[s] \cup {m.id} ELSE chatOwed[s]]
          /\ UNCHANGED <<live, at, includeChat, seen>>
      BY <1>1, <2>2 DEF Broadcast
    <2>4. DOMAIN seen' = Streams /\ DOMAIN lost' = Streams /\ DOMAIN chatOwed' = Streams
      BY <2>3 DEF Reach, Overflow
    <2>5. \A s \in Streams : /\ Ids(chatFeed[s]) \subseteq Ids(chatFeed'[s]) /\ lost[s] \subseteq lost'[s]
                             /\ s \in live => m.id \in Ids(chatFeed'[s]) \/ m.id \in lost'[s]
      BY <1>0, <2>3, PushEffect
    <2>6. ASSUME NEW s \in Streams
          PROVE  /\ at[s] = "none" => ~includeChat[s]
                 /\ ~includeChat[s] => chatOwed'[s] = {}
                 /\ at[s] \notin {"none", "left"} => s \in live
                 /\ at[s] # "left" => chatOwed'[s] \subseteq seen[s] \cup Ids(chatFeed'[s]) \cup lost'[s]
      BY <2>3, <2>5 DEF Reach
    <2> QED
      BY <2>3, <2>4, <2>6 DEF Reach
  <1>2. ASSUME NEW p \in Players, BroadcastCancelled(p) PROVE Reach'
    <2>1. New(p, "all") \in Message
      BY <1>2, NewMessage DEF BroadcastCancelled
    <2>2. PICK m \in Message : m = New(p, "all")
      BY <2>1
    <2>3. PICK served : chatFeed' = Push(chatFeed, served, m)
      BY <1>2, <2>2 DEF BroadcastCancelled
    <2>4. \A s \in Streams : Ids(chatFeed[s]) \subseteq Ids(chatFeed'[s])
      BY <1>0, <2>3, PushEffect
    <2>5. UNCHANGED <<live, at, includeChat, seen, lost, chatOwed>>
      BY <1>2 DEF BroadcastCancelled
    <2> QED
      BY <2>4, <2>5 DEF Reach
  <1>3. ASSUME NEW players, NEW m \in Message, Notify(players, m),
               UNCHANGED <<live, at, includeChat, seen, chatFeed, chatOwed>>
        PROVE  Reach'
    <2>1. DOMAIN lost' = Streams /\ \A s \in Streams : lost[s] \subseteq lost'[s]
      BY <1>3, NotifyEffect
    <2> QED
      BY <1>3, <2>1 DEF Reach
  <1>4. ASSUME NEW p \in Players, NEW q \in Players, SendDirect(p, q) PROVE Reach'
    BY <1>3, <1>4, NewMessage DEF SendDirect
  <1>5. ASSUME NEW p \in Players, NotifyPlayer(p) PROVE Reach'
    BY <1>3, <1>5, NewMessage DEF NotifyPlayer
  <1>6. ASSUME UNCHANGED <<live, at, includeChat, seen, lost, chatFeed, chatOwed>> PROVE Reach'
    BY <1>6 DEF Reach
  <1>7. ASSUME NEW p \in Players, NEW to \in Players \cup {"all"}, StoreFails(p, to) PROVE Reach'
    BY <1>6, <1>7 DEF StoreFails, streamVars
  <1>8. ASSUME NEW s \in Streams, Open(s) PROVE Reach'
    BY <1>8 DEF TypeOK, Reach, Open, Subscribed, history
  <1>9. ASSUME NEW s \in Streams, NEW chat \in BOOLEAN, Request(s, chat) PROVE Reach'
    BY <1>9 DEF TypeOK, Reach, Request, AfterHistory
  <1>19. ASSUME NEW s \in Streams, NEW ids, seen' = [seen EXCEPT ![s] = seen[s] \cup ids],
                at[s] \notin {"none", "left"},
                NEW next \in {"private history", "subscribe", "loop"},
                at' = [at EXCEPT ![s] = next],
                UNCHANGED <<live, includeChat, lost, chatFeed, chatOwed>>
         PROVE  Reach'
    <2>1. at \in [Streams -> {"none", "loop", "global history", "private history", "subscribe", "left"}]
      BY DEF TypeOK
    <2>2. DOMAIN seen' = Streams /\ DOMAIN lost' = Streams /\ DOMAIN chatOwed' = Streams
      BY <1>19 DEF Reach
    <2>3. ASSUME NEW t \in Streams
          PROVE  /\ seen[t] \subseteq seen'[t] /\ (at'[t] = "none" <=> at[t] = "none")
                 /\ (at'[t] = "left" <=> at[t] = "left")
      BY <1>19, <2>1 DEF Reach
    <2>4. UNCHANGED <<live, includeChat, lost, chatFeed, chatOwed>>
      BY <1>19
    <2> QED
      BY <2>2, <2>3, <2>4 DEF Reach
  <1>10. ASSUME NEW s \in Streams, SendGlobalHistory(s) PROVE Reach'
    <2>1. PICK ids : seen' = [seen EXCEPT ![s] = seen[s] \cup ids]
      BY <1>10 DEF SendGlobalHistory
    <2>2. at[s] = "global history" /\ at' = [at EXCEPT ![s] = "private history"]
      BY <1>10 DEF SendGlobalHistory
    <2>3. UNCHANGED <<live, includeChat, lost, chatFeed, chatOwed>>
      BY <1>10 DEF SendGlobalHistory
    <2> QED
      BY <1>19, <2>1, <2>2, <2>3
  <1>11. ASSUME NEW s \in Streams, SendPrivateHistory(s) PROVE Reach'
    <2>1. PICK ids : seen' = [seen EXCEPT ![s] = seen[s] \cup ids]
      BY <1>11 DEF SendPrivateHistory
    <2>2. PICK next \in {"loop", "subscribe"} : next = AfterHistory(s)
      BY DEF AfterHistory
    <2>3. at[s] = "private history" /\ at' = [at EXCEPT ![s] = next]
      BY <1>11, <2>2 DEF SendPrivateHistory
    <2>4. UNCHANGED <<live, includeChat, lost, chatFeed, chatOwed>>
      BY <1>11 DEF SendPrivateHistory
    <2> QED
      BY <1>19, <2>1, <2>2, <2>3, <2>4
  <1>12. ASSUME NEW s \in Streams, SubscribePrivate(s) PROVE Reach'
    BY <1>12 DEF TypeOK, Reach, SubscribePrivate, history
  <1>13. ASSUME NEW s \in Streams, ForwardChat(s) PROVE Reach'
    <2>1. PICK rest : rest = Tail(chatFeed[s])
      OBVIOUS
    <2>2. Ids(chatFeed[s]) \subseteq Ids(rest) \cup {Head(chatFeed[s]).id}
      BY <1>0, <1>13, <2>1, IdsOfTail DEF ForwardChat
    <2>3. /\ chatFeed' = [chatFeed EXCEPT ![s] = rest]
          /\ seen' = IF includeChat[s] THEN [seen EXCEPT ![s] = seen[s] \cup {Head(chatFeed[s]).id}]
                     ELSE seen
          /\ UNCHANGED <<live, at, includeChat, lost, chatOwed>>
      BY <1>13, <2>1 DEF ForwardChat
    <2>4. DOMAIN seen' = Streams
      BY <2>3 DEF Reach
    <2>5. ASSUME NEW t \in Streams, at[t] # "left"
          PROVE  chatOwed[t] \subseteq seen'[t] \cup Ids(chatFeed'[t]) \cup lost[t]
      <3>1. CASE t # s
        BY <1>0, <2>3, <2>5, <3>1 DEF Reach
      <3>2. CASE t = s /\ includeChat[s]
        <4>1. seen'[s] = seen[s] \cup {Head(chatFeed[s]).id} /\ chatFeed'[s] = rest
          BY <1>0, <2>3, <3>2 DEF Reach
        <4> QED
          BY <2>2, <2>5, <3>2, <4>1 DEF Reach
      <3>3. CASE t = s /\ ~includeChat[s]
        BY <3>3 DEF Reach
      <3> QED
        BY <3>1, <3>2, <3>3
    <2> QED
      BY <2>3, <2>4, <2>5 DEF Reach
  <1>14. ASSUME NEW s \in Streams, ForwardPrivate(s) PROVE Reach'
    <2>1. PICK ids : seen' = [seen EXCEPT ![s] = seen[s] \cup ids]
      BY <1>14 DEF ForwardPrivate
    <2> QED
      BY <1>14, <2>1 DEF Reach, ForwardPrivate
  <1>15. ASSUME NEW s \in Streams, Leave(s) PROVE Reach'
    BY <1>15 DEF TypeOK, Reach, Leave, history
  <1>16. ASSUME NEW s \in Streams, Unsubscribe(s) PROVE Reach'
    BY <1>16 DEF TypeOK, Reach, Unsubscribe, history
  <1>17. ASSUME Crash PROVE Reach'
    <2>1. /\ at' = [s \in Streams |-> IF at[s] = "none" THEN "none" ELSE "left"]
          /\ UNCHANGED <<includeChat, seen, lost, chatOwed>>
      BY <1>17 DEF Crash, history
    <2> QED
      BY <2>1 DEF Reach
  <1>18. ASSUME UNCHANGED vars PROVE Reach'
    BY <1>6, <1>18 DEF vars, streamVars, history
  <1> QED
    BY <1>1, <1>2, <1>4, <1>5, <1>7, <1>8, <1>9, <1>10, <1>11, <1>12, <1>13, <1>14, <1>15,
       <1>16, <1>17, <1>18 DEF Next, Sending, Handler

----------------------------------------------------------------------------

LEMMA InitInvariant ==
    Init => IInv
  <1> SUFFICES ASSUME Init PROVE IInv
    OBVIOUS
  <1>1. PICK none : none = <<>>
    OBVIOUS
  <1>2. none \in Seq(Message) /\ Len(none) = 0
    BY <1>1
  <1>3. TypeOK
    BY <1>1, <1>2, Constants DEF Init, TypeOK
  <1>4. Reach
    BY DEF Init, Reach
  <1>5. LogsKept
    BY DEF Init, LogsKept, LogKept, Numbered, Keeps
  <1> QED
    BY <1>3, <1>4, <1>5 DEF IInv

LEMMA Invariant ==
    Spec => []IInv
  <1>1. ASSUME IInv, [Next]_vars PROVE IInv'
    BY <1>1, StepTypes, StepReach, StepLogs DEF IInv
  <1> QED
    BY <1>1, InitInvariant, PTL DEF Spec

(* Histories, log and channels keep within their limits, however many      *)
(* messages are sent, whichever writes fail and whenever the process       *)
(* stops.                                                                  *)
THEOREM TypeCorrect ==
    Spec => []TypeOK
  <1>1. IInv => TypeOK
    BY DEF IInv
  <1> QED
    BY <1>1, Invariant, PTL

(* Between the history and the live channel no global message is missed,   *)
(* for any number of streams that come and go.                             *)
THEOREM ChatIsNotMissed ==
    Spec => []ChatReachesStream
  <1>1. IInv => ChatReachesStream
    BY DEF IInv, Reach, ChatReachesStream
  <1> QED
    BY <1>1, Invariant, PTL

(* An acknowledged message is in the file until StoreLimit newer ones have *)
(* pushed it out, after any number of failed writes and restarts.          *)
THEOREM AcknowledgedIsKept ==
    Spec => []AcknowledgedSurvives
  <1>1. IInv => AcknowledgedSurvives
    BY DEF IInv, LogsKept, LogKept, Keeps, AcknowledgedSurvives
  <1> QED
    BY <1>1, Invariant, PTL
----------------------------------------------------------------------------
(* The backlog of direct messages                                          *)

(* Choosing messages from a list gives a list: the function in Chosen      *)
(* exists, as a list for which it did not would have a shortest part for   *)
(* which it does not.                                                      *)
LEMMA ChosenIsList ==
    ASSUME NEW S, NEW msgs \in Seq(S), NEW wanted
    PROVE  Chosen(msgs, wanted) \in Seq(S)
  <1> DEFINE n == Len(msgs)
             Next1(q, i) == IF msgs[i] \in wanted THEN Append(q, msgs[i]) ELSE q
             Rule(g, m) == \A i \in 0..m : g[i] = IF i = 0 THEN <<>> ELSE Next1(g[i - 1], i)
             bad == {m \in 0..n : ~\E g : Rule(g, m)}
  <1>1. n \in Nat /\ \A i \in 1..n : msgs[i] \in S
    OBVIOUS
  <1> HIDE DEF n
  <1>2. bad = {}
    <2> SUFFICES ASSUME bad # {} PROVE FALSE
      OBVIOUS
    <2> HIDE DEF Next1
    <2>1. bad \in SUBSET Nat
      BY <1>1
    <2> HIDE DEF Rule
    <2>2. PICK m \in bad : \A k \in bad : m <= k
      BY <2>1, LeastElement
    <2>3. m \in Nat /\ m <= n
      BY <1>1
    <2>4. m # 0
      <3>1. Rule([i \in 0..0 |-> <<>>], 0)
        BY DEF Rule
      <3> QED
        BY <3>1
    <2>5. m - 1 \in 0..n /\ m - 1 \notin bad
      BY <1>1, <2>2, <2>3, <2>4
    <2>6. PICK g : Rule(g, m - 1)
      BY <2>5
    <2> DEFINE h == [i \in 0..m |-> IF i = m THEN Next1(g[m - 1], m) ELSE g[i]]
    <2>7. Rule(h, m)
      <3>1. ASSUME NEW i \in 0..m PROVE h[i] = IF i = 0 THEN <<>> ELSE Next1(h[i - 1], i)
        <4>1. CASE i = m
          <5>1. h[m] = Next1(g[m - 1], m) /\ h[m - 1] = g[m - 1]
            BY <2>3, <2>4
          <5> QED
            BY <2>4, <4>1, <5>1
        <4>2. CASE i = 0
          <5>1. h[0] = g[0] /\ 0 \in 0..(m - 1)
            BY <2>3, <2>4
          <5> QED
            BY <2>6, <4>2, <5>1 DEF Rule
        <4>3. CASE i # m /\ i # 0
          <5>1. i \in 0..(m - 1) /\ i - 1 \in 0..m /\ i - 1 # m
            BY <2>3, <4>3
          <5>2. h[i] = g[i] /\ h[i - 1] = g[i - 1]
            BY <4>3, <5>1
          <5>3. g[i] = Next1(g[i - 1], i)
            BY <2>6, <4>3, <5>1 DEF Rule
          <5> QED
            BY <4>3, <5>2, <5>3
        <4> QED
          BY <4>1, <4>2, <4>3
      <3> HIDE DEF h
      <3> QED
        BY <3>1 DEF Rule
    <2> HIDE DEF h
    <2> QED
      BY <2>2, <2>7
  <1> DEFINE Is(f) == f = [i \in 0..n |-> IF i = 0 THEN <<>>
                                          ELSE IF msgs[i] \in wanted THEN Append(f[i - 1], msgs[i])
                                               ELSE f[i - 1]]
  <1>3. \E f : Is(f)
    <2>1. PICK g : Rule(g, n)
      <3> HIDE DEF Rule
      <3>1. n \in 0..n /\ n \notin bad
        BY <1>1, <1>2
      <3> QED
        BY <3>1
    <2> DEFINE h == [i \in 0..n |-> g[i]]
    <2>2. ASSUME NEW i \in 0..n
          PROVE  h[i] = IF i = 0 THEN <<>>
                        ELSE IF msgs[i] \in wanted THEN Append(h[i - 1], msgs[i]) ELSE h[i - 1]
      <3>1. i # 0 => i - 1 \in 0..n
        BY <1>1
      <3>2. h[i] = g[i] /\ (i # 0 => h[i - 1] = g[i - 1])
        BY <3>1
      <3> HIDE DEF h
      <3> QED
        BY <2>1, <3>2
    <2>3. h = [i \in 0..n |-> h[i]]
      OBVIOUS
    <2> HIDE DEF h
    <2>4. Is(h)
      BY <2>2, <2>3
    <2> QED
      BY <2>4
  <1>4. PICK f : f = (CHOOSE g : Is(g)) /\ Chosen(msgs, wanted) = f[n]
    BY DEF Chosen, n
  <1>5. Is(f)
    BY <1>3, <1>4
  <1>6. ASSUME NEW i \in 0..n
        PROVE  f[i] = IF i = 0 THEN <<>>
                      ELSE IF msgs[i] \in wanted THEN Append(f[i - 1], msgs[i]) ELSE f[i - 1]
    BY <1>5
  <1> DEFINE odd == {i \in 0..n : f[i] \notin Seq(S)}
  <1>7. odd = {}
    <2> SUFFICES ASSUME odd # {} PROVE FALSE
      OBVIOUS
    <2>1. odd \in SUBSET Nat
      BY <1>1
    <2>2. PICK i \in odd : \A j \in odd : i <= j
      BY <2>1, LeastElement
    <2>3. i # 0
      <3>1. <<>> \in Seq(S)
        OBVIOUS
      <3> QED
        BY <1>1, <1>6, <3>1
    <2>4. i - 1 \in 0..n /\ i \in 1..n /\ f[i - 1] \in Seq(S)
      BY <1>1, <2>2, <2>3
    <2>5. Append(f[i - 1], msgs[i]) \in Seq(S)
      BY <1>1, <2>4
    <2>6. f[i] \in Seq(S)
      BY <1>6, <2>3, <2>4, <2>5
    <2> QED
      BY <2>6
  <1> QED
    BY <1>1, <1>4, <1>7

(* The history h has the latest messages numbered in box.                  *)
Holds(h, box) ==
    /\ Len(h) = IF Len(box) > PrivateLimit THEN PrivateLimit ELSE Len(box)
    /\ \A i \in 1..Len(h) : h[i].id = box[Len(box) - Len(h) + i]

LEMMA HoldsOneMore ==
    ASSUME NEW h \in Seq(Message), NEW box \in Seq(Nat), Holds(h, box), NEW m \in Message
    PROVE  Holds(Latest(Append(h, m), PrivateLimit), Append(box, m.id))
  <1>0. PrivateLimit \in Nat \ {0} /\ m.id \in Nat
    BY Constants
  <1>1. PICK g : g = Append(h, m)
    OBVIOUS
  <1>2. PICK new : new = Latest(g, PrivateLimit)
    OBVIOUS
  <1>3. PICK b : b = Append(box, m.id)
    OBVIOUS
  <1>4. /\ g \in Seq(Message) /\ Len(g) = Len(h) + 1 /\ Len(h) \in Nat
        /\ (\A i \in 1..Len(h) : g[i] = h[i]) /\ g[Len(h) + 1] = m
    BY <1>1, AppendElements
  <1>5. /\ Len(b) = Len(box) + 1 /\ Len(box) \in Nat
        /\ (\A i \in 1..Len(box) : b[i] = box[i]) /\ b[Len(box) + 1] = m.id
    BY <1>0, <1>3, AppendElements
  <1>6. /\ Len(new) = IF Len(g) > PrivateLimit THEN PrivateLimit ELSE Len(g)
        /\ \A i \in 1..Len(new) : new[i] = g[IF Len(g) > PrivateLimit THEN i + Len(g) - PrivateLimit ELSE i]
    BY <1>0, <1>2, <1>4, LatestElements
  <1>7. Len(h) = IF Len(box) > PrivateLimit THEN PrivateLimit ELSE Len(box)
    BY DEF Holds
  <1>8. Len(new) = IF Len(b) > PrivateLimit THEN PrivateLimit ELSE Len(b)
    BY <1>0, <1>4, <1>5, <1>6, <1>7
  <1>9. ASSUME NEW i \in 1..Len(new) PROVE new[i].id = b[Len(b) - Len(new) + i]
    <2>1. PICK j : j = IF Len(g) > PrivateLimit THEN i + Len(g) - PrivateLimit ELSE i
      OBVIOUS
    <2>2. /\ j \in 1..Len(g) /\ Len(b) - Len(new) + i \in 1..Len(b)
          /\ Len(b) - Len(new) + i = Len(box) - Len(h) + j
      <3>1. PICK lh, lb, lg, ln, l \in Nat :
                lh = Len(h) /\ lb = Len(box) /\ lg = Len(g) /\ ln = Len(new) /\ l = PrivateLimit
        BY <1>0, <1>4, <1>5, <1>6
      <3>2. /\ lg = lh + 1 /\ Len(b) = lb + 1 /\ ln = (IF lg > l THEN l ELSE lg)
            /\ lh = (IF lb > l THEN l ELSE lb) /\ l # 0
        BY <1>0, <1>4, <1>5, <1>6, <1>7, <3>1
      <3>3. i \in 1..ln /\ j = IF lg > l THEN i + lg - l ELSE i
        BY <2>1, <3>1
      <3>4. j \in 1..lg /\ (lb + 1) - ln + i \in 1..(lb + 1) /\ (lb + 1) - ln + i = lb - lh + j
        BY <3>2, <3>3
      <3> QED
        BY <3>1, <3>2, <3>4
    <2>3. new[i] = g[j]
      BY <1>6, <2>1
    <2>4. CASE j = Len(h) + 1
      <3>1. Len(box) - Len(h) + j = Len(box) + 1
        BY <1>4, <1>5, <2>4
      <3> QED
        BY <1>4, <1>5, <2>2, <2>3, <2>4, <3>1
    <2>5. CASE j # Len(h) + 1
      <3>1. j \in 1..Len(h)
        BY <1>4, <2>2, <2>5
      <3>2. h[j].id = box[Len(box) - Len(h) + j]
        BY <3>1 DEF Holds
      <3>3. Len(box) - Len(h) + j \in 1..Len(box)
        BY <1>0, <1>4, <1>5, <1>7, <3>1
      <3> QED
        BY <1>4, <1>5, <2>2, <2>3, <3>1, <3>2, <3>3
    <2> QED
      BY <2>4, <2>5
  <1> QED
    BY <1>1, <1>2, <1>3, <1>8, <1>9 DEF Holds

(* What is joined in front of it does not push a short list out.           *)
LEMMA LatestHasEnd ==
    ASSUME NEW S, NEW q \in Seq(S), NEW h \in Seq(S), NEW n \in Nat \ {0}, Len(h) <= n
    PROVE  \A i \in 1..Len(h) : h[i] \in ToSet(Latest(q \o h, n))
  <1>1. PICK all : all = q \o h
    OBVIOUS
  <1>2. /\ all \in Seq(S) /\ Len(all) = Len(q) + Len(h) /\ Len(q) \in Nat /\ Len(h) \in Nat
        /\ \A i \in 1..Len(h) : all[Len(q) + i] = h[i]
    <2>1. /\ all \in Seq(S) /\ Len(all) = Len(q) + Len(h) /\ Len(q) \in Nat /\ Len(h) \in Nat
      BY <1>1
    <2>2. ASSUME NEW i \in 1..Len(h) PROVE all[Len(q) + i] = h[i]
      BY <1>1, <2>1
    <2> QED
      BY <2>1, <2>2
  <1>3. PICK new : new = Latest(all, n)
    OBVIOUS
  <1>4. /\ new \in Seq(S) /\ Len(new) = IF Len(all) > n THEN n ELSE Len(all)
        /\ \A i \in 1..Len(new) : new[i] = all[IF Len(all) > n THEN i + Len(all) - n ELSE i]
    BY <1>2, <1>3, LatestElements
  <1>5. ASSUME NEW i \in 1..Len(h) PROVE h[i] \in ToSet(new)
    <2>1. PICK j : j = IF Len(all) > n THEN Len(q) + i - Len(all) + n ELSE Len(q) + i
      OBVIOUS
    <2>2. j \in 1..Len(new) /\ (IF Len(all) > n THEN j + Len(all) - n ELSE j) = Len(q) + i
      BY <1>2, <1>4, <2>1
    <2>3. new[j] = h[i]
      BY <1>2, <1>4, <2>2
    <2>4. j \in DOMAIN new
      BY <1>4, <2>2
    <2> QED
      BY <2>3, <2>4 DEF ToSet
  <1> QED
    BY <1>1, <1>3, <1>5

(* As long as the process runs, a player's history in memory has what was  *)
(* sent to it last.                                                        *)
Backlog ==
    /\ crashes \in Nat /\ inbox \in [Players -> Seq(Nat)]
    /\ crashes = 0 => \A p \in Players : Holds(privateHistory[p], inbox[p])

LEMMA NotifyBacklog ==
    ASSUME TypeOK, Backlog, NEW players, NEW m \in Message, Notify(players, m), UNCHANGED crashes
    PROVE  Backlog'
  <1>1. m.id \in Nat /\ \A p \in Players : privateHistory[p] \in Seq(Message) /\ inbox[p] \in Seq(Nat)
    BY Constants DEF TypeOK, Backlog
  <1>2. \A p \in Players :
            /\ inbox'[p] = IF p \in players THEN Append(inbox[p], m.id) ELSE inbox[p]
            /\ privateHistory'[p] = IF p \in players THEN Latest(Append(privateHistory[p], m), PrivateLimit)
                                    ELSE privateHistory[p]
    BY DEF Notify
  <1>3. inbox' \in [Players -> Seq(Nat)]
    <2>1. \A p \in Players : Append(inbox[p], m.id) \in Seq(Nat)
      BY <1>1
    <2>2. inbox' = [p \in Players |-> IF p \in players THEN Append(inbox[p], m.id) ELSE inbox[p]]
      BY DEF Notify
    <2> QED
      BY <1>1, <2>1, <2>2
  <1>4. ASSUME crashes = 0, NEW p \in Players PROVE Holds(privateHistory'[p], inbox'[p])
    <2>1. Holds(privateHistory[p], inbox[p])
      BY <1>4 DEF Backlog
    <2>2. CASE p \in players
      BY <1>1, <1>2, <2>1, <2>2, HoldsOneMore
    <2>3. CASE p \notin players
      BY <1>2, <2>1, <2>3
    <2> QED
      BY <2>2, <2>3
  <1> QED
    BY <1>3, <1>4 DEF Backlog

LEMMA StepBacklog ==
    ASSUME TypeOK, Backlog, [Next]_vars
    PROVE  Backlog'
  <1>1. ASSUME NEW p \in Players, NEW q \in Players, SendDirect(p, q) PROVE Backlog'
    <2>1. New(p, q) \in Message /\ Notify({p, q}, New(p, q)) /\ UNCHANGED crashes
      BY <1>1, NewMessage DEF SendDirect
    <2> QED
      BY <2>1, NotifyBacklog
  <1>2. ASSUME NEW p \in Players, NotifyPlayer(p) PROVE Backlog'
    <2>1. New("market", p) \in Message /\ Notify({p}, New("market", p)) /\ UNCHANGED crashes
      BY <1>2, NewMessage DEF NotifyPlayer
    <2> QED
      BY <2>1, NotifyBacklog
  <1>3. ASSUME UNCHANGED <<crashes, inbox, privateHistory>> PROVE Backlog'
    BY <1>3 DEF Backlog
  <1>4. ASSUME NEW p \in Players, Broadcast(p) \/ BroadcastCancelled(p) PROVE Backlog'
    BY <1>3, <1>4 DEF Broadcast, BroadcastCancelled
  <1>5. ASSUME NEW p \in Players, NEW to \in Players \cup {"all"}, StoreFails(p, to) PROVE Backlog'
    BY <1>3, <1>5 DEF StoreFails
  <1>6. ASSUME NEW s \in Streams, Handler(s) PROVE Backlog'
    BY <1>3, <1>6 DEF Handler, Open, Request, SendGlobalHistory, SendPrivateHistory,
       SubscribePrivate, ForwardChat, ForwardPrivate, Leave, Unsubscribe, storeVars, history
  <1>7. ASSUME Crash PROVE Backlog'
    <2>1. crashes' = crashes + 1 /\ inbox' = inbox
      BY <1>7 DEF Crash, history
    <2> QED
      BY <2>1 DEF Backlog
  <1>8. ASSUME UNCHANGED vars PROVE Backlog'
    BY <1>3, <1>8 DEF vars, storeVars, history
  <1> QED
    BY <1>1, <1>2, <1>4, <1>5, <1>6, <1>7, <1>8 DEF Next, Sending

(* Who connects gets its backlog ("expected offline chat backlog",         *)
(* internal/grpcapi/integration_test.go:234): the last private messages of *)
(* a player that were acknowledged, whatever else is stored, as long as    *)
(* the process has run.                                                    *)
THEOREM BacklogIsComplete ==
    Spec => []DirectBacklog
  <1>1. Init => Backlog
    <2> SUFFICES ASSUME Init PROVE Backlog
      OBVIOUS
    <2>1. PICK none : none = <<>>
      OBVIOUS
    <2>2. none \in Seq(Nat) /\ Len(none) = 0 /\ PrivateLimit \in Nat
      BY <2>1, Constants
    <2>3. inbox = [p \in Players |-> none] /\ privateHistory = [p \in Players |-> none] /\ crashes = 0
      BY <2>1 DEF Init
    <2>4. Holds(none, none)
      BY <2>2 DEF Holds
    <2> QED
      BY <2>2, <2>3, <2>4 DEF Backlog
  <1>2. IInv /\ Backlog /\ [Next]_vars => Backlog'
    BY StepBacklog DEF IInv
  <1>3. ASSUME IInv, Backlog, crashes = 0, NEW p \in Players,
               NEW id \in ToSet(Latest(inbox[p], PrivateLimit))
        PROVE  id \in Ids(PrivateHistory(p))
    <2>0. PrivateLimit \in Nat \ {0}
      BY Constants
    <2>1. PICK h \in Seq(Message), box \in Seq(Nat) : h = privateHistory[p] /\ box = inbox[p]
      BY <1>3 DEF IInv, TypeOK, Backlog
    <2>2. Holds(h, box) /\ Len(h) <= PrivateLimit /\ Len(h) \in Nat /\ Len(box) \in Nat
      <3>1. Holds(h, box)
        BY <1>3, <2>1 DEF Backlog
      <3>2. Len(h) <= PrivateLimit
        BY <1>3, <2>1 DEF IInv, TypeOK
      <3> QED
        BY <3>1, <3>2
    <2>3. PICK new : new = Latest(box, PrivateLimit)
      OBVIOUS
    <2>4. /\ new \in Seq(Nat) /\ Len(new) = IF Len(box) > PrivateLimit THEN PrivateLimit ELSE Len(box)
          /\ \A i \in 1..Len(new) : new[i] = box[IF Len(box) > PrivateLimit THEN i + Len(box) - PrivateLimit ELSE i]
      BY <2>0, <2>3, LatestElements
    <2>5. PICK i \in 1..Len(new) : id = new[i]
      <3>1. DOMAIN new = 1..Len(new)
        BY <2>4
      <3> QED
        BY <1>3, <2>1, <2>3, <3>1 DEF ToSet
    <2>6. i \in 1..Len(h) /\ id = h[i].id
      <3>1. i \in 1..Len(h)
        BY <2>2, <2>4, <2>5 DEF Holds
      <3>2. (IF Len(box) > PrivateLimit THEN i + Len(box) - PrivateLimit ELSE i) = Len(box) - Len(h) + i
        BY <2>0, <2>2, <3>1 DEF Holds
      <3>3. h[i].id = box[Len(box) - Len(h) + i]
        BY <2>2, <3>1 DEF Holds
      <3> QED
        BY <2>4, <2>5, <3>1, <3>2, <3>3
    <2>7. Stored(p) \in Seq(Message)
      <3>1. messages \in Seq(Message)
        BY <1>3 DEF IInv, TypeOK
      <3> QED
        BY <2>0, <3>1, ChosenIsList, LatestElements DEF Stored
    <2>8. PICK q \in Seq(Message) : q = Chosen(Stored(p), Message \ Global)
      BY <2>7, ChosenIsList
    <2>9. h[i] \in ToSet(Latest(q \o h, PrivateLimit))
      BY <2>0, <2>2, <2>6, LatestHasEnd
    <2>10. h[i] \in ToSet(PrivateHistory(p))
      BY <2>1, <2>8, <2>9 DEF PrivateHistory
    <2> QED
      BY <2>6, <2>10 DEF Ids
  <1>4. IInv /\ Backlog => DirectBacklog
    BY <1>3 DEF DirectBacklog
  <1> QED
    BY Invariant, <1>1, <1>2, <1>4, PTL DEF Spec
=============================================================================
