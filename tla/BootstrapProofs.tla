--------------------------- MODULE BootstrapProofs ---------------------------
(***************************************************************************)
(* Proofs about Bootstrap, for any users, any number of attempts, any      *)
(* time to live and any number of failures and restarts.                   *)
(***************************************************************************)
EXTENDS Bootstrap, FiniteSetTheorems, TLAPS

(* A player is found or made, and ids only grow.                           *)
LEMMA EnsuredProperties ==
    ASSUME NEW u \in Users, NEW p \in [id : 1..(ids + 1), role : Role],
           ids \in Nat, PlayersOf(players), PlayersOf(file), Ensured(u, p),
           NEW w \in BOOLEAN, Upsert(u, p, w)
    PROVE  /\ ids' \in Nat /\ ids <= ids' /\ p.id \in 1..ids'
           /\ PlayersOf(players)' /\ PlayersOf(file)'
  <1>1. ids' \in Nat /\ ids <= ids' /\ p \in [id : 1..ids', role : Role]
    <2>1. CASE u \in DOMAIN players
      BY <2>1 DEF Ensured, PlayersOf, Player
    <2>2. CASE u \notin DOMAIN players
      BY <2>2 DEF Ensured
    <2> QED
      BY <2>1, <2>2
  <1>2. /\ \A v \in DOMAIN players : v \in Users /\ players[v] \in [id : 1..ids', role : Role]
        /\ \A v \in DOMAIN file : v \in Users /\ file[v] \in [id : 1..ids', role : Role]
    <2>1. 1..ids \subseteq 1..ids'
      BY <1>1
    <2> QED
      BY <2>1 DEF PlayersOf, Player
  <1>3. /\ DOMAIN With(u, p) \subseteq Users
        /\ \A v \in DOMAIN With(u, p) : With(u, p)[v] \in [id : 1..ids', role : Role]
    BY <1>1, <1>2 DEF With
  <1>4. PlayersOf(players)'
    BY <1>3 DEF PlayersOf, Player, Upsert
  <1>5. PlayersOf(file)'
    <2>1. CASE w
      BY <2>1, <1>3 DEF PlayersOf, Player, Upsert
    <2>2. CASE ~w
      BY <2>2, <1>2 DEF PlayersOf, Player, Upsert
    <2> QED
      BY <2>1, <2>2
  <1> QED
    BY <1>1, <1>4, <1>5

----------------------------------------------------------------------------
(* Types                                                                   *)

TokensOK ==
    /\ DOMAIN bootstrapTokens \subseteq Token
    /\ \A t \in DOMAIN bootstrapTokens : bootstrapTokens[t] \in [player : 1..ids, until : Nat]

(* A request is only sent while attempts are left, so their number keeps   *)
(* to its bound.                                                           *)
Sends ==
    \A u \in Users : /\ at[u] = "holding" => attempt[u] < MaxAttempts
                     /\ at[u] = "waiting" => attempt[u] \in 1..MaxAttempts

TypeInv == TypeOK /\ Sends

LEMMA InitTypes == Init => TypeInv
  <1> SUFFICES ASSUME Init PROVE TypeInv
    OBVIOUS
  <1>1. DOMAIN <<>> = {}
    OBVIOUS
  <1>2. PlayersOf(players) /\ PlayersOf(file)
    BY <1>1 DEF Init, PlayersOf
  <1>3. TokensOK
    BY <1>1 DEF Init, TokensOK
  <1> QED
    BY <1>2, <1>3, TimesAssumption DEF Init, TypeInv, TypeOK, TokensOK, Token, Sends

(* A token is issued for a player known.                                   *)
LEMMA IssuedTypes ==
    ASSUME TypeOK, NEW u \in Users, NEW p, ids' \in Nat, ids <= ids', p.id \in 1..ids',
           IssueToken(u, p)
    PROVE  TokensOK' /\ logins' \in [Users -> Nat]
  <1>1. NewToken(u) \in Token
    BY DEF TypeOK, NewToken, Token
  <1>2. [player |-> p.id, until |-> now + TTL] \in [player : 1..ids', until : Nat]
    BY TimesAssumption DEF TypeOK
  <1>3. \A t \in DOMAIN bootstrapTokens :
           t \in Token /\ bootstrapTokens[t] \in [player : 1..ids', until : Nat]
    BY DEF TypeOK
  <1> QED
    BY <1>1, <1>2, <1>3 DEF IssueToken, TokensOK, TypeOK

LEMMA NextTypes == TypeInv /\ [Next]_vars => TypeInv'
  <1> SUFFICES ASSUME TypeOK, Sends, [Next]_vars PROVE TypeInv'
    BY DEF TypeInv
  <1> USE DEF TypeInv
  <1>1. ASSUME NEW u \in Users, EnsurePlayer(u) PROVE TypeInv'
    <2>1. PICK p \in [id : 1..(ids + 1), role : Role] :
             /\ Ensured(u, p) /\ Upsert(u, p, TRUE) /\ IssueToken(u, p)
             /\ told' = told \cup {<<u, p.id>>}
             /\ BootstrapViaSSH(u, p) \/ TakeToken(u)
      BY <1>1 DEF EnsurePlayer, AnswersAfter
    <2>2. /\ ids' \in Nat /\ ids <= ids' /\ p.id \in 1..ids'
          /\ PlayersOf(players)' /\ PlayersOf(file)'
      BY <2>1, EnsuredProperties DEF TypeOK
    <2>3. TokensOK' /\ logins' \in [Users -> Nat]
      BY <2>1, <2>2, IssuedTypes
    <2>4. profile \in [Users -> 0..ids'] /\ told' \subseteq Users \X (1..ids')
      BY <2>1, <2>2 DEF TypeOK
    <2>5. /\ at' \in [Users -> {"out", "holding", "waiting", "in"}]
          /\ token' \in [Users -> Token]
          /\ attempt' \in [Users -> 0..MaxAttempts]
          /\ profile' \in [Users -> 0..ids']
          /\ Sends'
      <3>1. CASE BootstrapViaSSH(u, p)
        BY <3>1, <2>2, <2>4 DEF BootstrapViaSSH, Enter, TypeOK, Sends
      <3>2. CASE TakeToken(u)
        <4>1. NewToken(u) \in Token
          BY DEF TypeOK, NewToken, Token
        <4> QED
          BY <4>1, <3>2, <2>4, TimesAssumption DEF TakeToken, TypeOK, Sends
      <3> QED
        BY <2>1, <3>1, <3>2
    <2> QED
      BY <1>1, <2>2, <2>3, <2>4, <2>5 DEF EnsurePlayer, TypeOK, TokensOK, Sends
  <1>2. ASSUME NEW u \in Users, EnsureUnsaved(u) PROVE TypeInv'
    <2>1. PICK p \in [id : 1..(ids + 1), role : Role] : Ensured(u, p) /\ Upsert(u, p, FALSE)
      BY <1>2 DEF EnsureUnsaved
    <2>2. /\ ids' \in Nat /\ ids <= ids'
          /\ PlayersOf(players)' /\ PlayersOf(file)'
      BY <2>1, EnsuredProperties DEF TypeOK
    <2>3. /\ profile \in [Users -> 0..ids'] /\ told \subseteq Users \X (1..ids')
          /\ \A t \in DOMAIN bootstrapTokens : bootstrapTokens[t] \in [player : 1..ids', until : Nat]
      BY <2>2 DEF TypeOK
    <2>4. faults' \in Nat
      BY <1>2 DEF EnsureUnsaved, GoesWrong, TypeOK
    <2> QED
      BY <1>2, <2>2, <2>3, <2>4 DEF EnsureUnsaved, TypeOK, Sends, clientVars, history
  <1>3. ASSUME NEW u \in Users, EnsureUnanswered(u) PROVE TypeInv'
    <2>1. PICK p \in [id : 1..(ids + 1), role : Role] :
             Ensured(u, p) /\ Upsert(u, p, TRUE) /\ IssueToken(u, p)
      BY <1>3 DEF EnsureUnanswered
    <2>2. /\ ids' \in Nat /\ ids <= ids' /\ p.id \in 1..ids'
          /\ PlayersOf(players)' /\ PlayersOf(file)'
      BY <2>1, EnsuredProperties DEF TypeOK
    <2>3. TokensOK' /\ logins' \in [Users -> Nat]
      BY <2>1, <2>2, IssuedTypes
    <2>4. profile \in [Users -> 0..ids'] /\ told \subseteq Users \X (1..ids')
      BY <2>2 DEF TypeOK
    <2>5. faults' \in Nat
      BY <1>3 DEF EnsureUnanswered, GoesWrong, TypeOK
    <2> QED
      BY <1>3, <2>2, <2>3, <2>4, <2>5 DEF EnsureUnanswered, TypeOK, TokensOK, Sends, clientVars
  <1>4. ASSUME NEW u \in Users, Send(u) PROVE TypeInv'
    <2>1. attempt[u] + 1 \in 1..MaxAttempts
      BY <1>4, TimesAssumption DEF Send, TypeOK, Sends
    <2>2. wire' \subseteq Request
      BY <1>4, <2>1 DEF Send, TypeOK, Request
    <2>3. attempt' \in [Users -> 0..MaxAttempts]
      BY <1>4, <2>1, TimesAssumption DEF Send, TypeOK
    <2> QED
      BY <1>4, <2>1, <2>2, <2>3 DEF Send, TypeOK, Sends, PlayersOf, Player, history
  <1>5. ASSUME NEW u \in Users, Disconnected(u) \/ TimedOut(u) PROVE TypeInv'
    <2>1. /\ at' = [at EXCEPT ![u] = IF attempt[u] < MaxAttempts THEN "holding" ELSE "out"]
          /\ faults' \in Nat
          /\ UNCHANGED <<now, serverVars, token, attempt, profile, history>>
      BY <1>5 DEF Disconnected, TimedOut, Retry, GoesWrong, TypeOK
    <2> QED
      BY <2>1 DEF TypeOK, Sends, PlayersOf, Player, serverVars, history
  <1>6. ASSUME NEW u \in Users, StartAfresh(u) PROVE TypeInv'
    BY <1>6 DEF StartAfresh, GoesWrong, TypeOK, Sends, PlayersOf, Player, serverVars, history
  <1>7. ASSUME NEW r \in wire, Exchange(r) PROVE TypeInv'
    <2>1. r \in Request /\ r.from \in Users
      BY DEF TypeOK, Request
    <2>2. Granted(r.token) \in 0..ids
      BY DEF TypeOK, Granted
    <2>3. /\ at' \in [Users -> {"out", "holding", "waiting", "in"}] /\ profile' \in [Users -> 0..ids]
          /\ \A u \in Users : at'[u] \in {at[u], "in", "out"}
          /\ faults' \in Nat
      <3>1. CASE Answer(r, Granted(r.token)) /\ UNCHANGED faults
        BY <3>1, <2>1, <2>2 DEF Answer, Enter, TypeOK
      <3>2. CASE AnswerLost(r)
        BY <3>2 DEF AnswerLost, GoesWrong, TypeOK
      <3>3. CASE NoSymbols(r)
        BY <3>3, <2>1 DEF NoSymbols, GoesWrong, TypeOK
      <3> QED
        BY <1>7, <3>1, <3>2, <3>3 DEF Exchange
    <2>4. TokensOK'
      BY <1>7 DEF Exchange, TokensAfter, TypeOK, TokensOK
    <2>5. /\ wire' \subseteq Request /\ exchanged' \subseteq Request
          /\ UNCHANGED <<now, players, file, ids, token, attempt, logins, told>>
      BY <1>7, <2>1 DEF Exchange, TypeOK
    <2> QED
      BY <2>3, <2>4, <2>5 DEF TypeOK, TokensOK, Sends, PlayersOf, Player
  <1>8. CASE Restart
    <2>1. DOMAIN <<>> = {}
      OBVIOUS
    <2> QED
      BY <1>8, <2>1 DEF Restart, GoesWrong, TypeOK, Sends, PlayersOf, Player, clientVars, history
  <1>9. CASE Tick
    BY <1>9 DEF Tick, TypeOK, Sends, PlayersOf, Player, serverVars, clientVars, history
  <1>10. CASE UNCHANGED vars
    BY <1>10 DEF TypeOK, Sends, PlayersOf, Player, vars, serverVars, clientVars, history
  <1> QED
    BY <1>1, <1>2, <1>3, <1>4, <1>5, <1>6, <1>7, <1>8, <1>9, <1>10 DEF Next, Login

(* Every reachable state is of its type.                                   *)
THEOREM TypeCorrect == Spec => []TypeOK
  <1>1. TypeInv => TypeOK
    BY DEF TypeInv
  <1> QED
    BY InitTypes, NextTypes, <1>1, PTL DEF Spec

----------------------------------------------------------------------------
(* Roles                                                                   *)

CountsNat(ps) == \A r \in Role : Count(ps, r) \in Nat

(* A new player adds one to the count of its role and to no other.         *)
LEMMA CountAfterNew ==
    ASSUME NEW u, u \notin DOMAIN players, NEW p, NEW r, IsFiniteSet(DOMAIN players)
    PROVE  /\ Count(players, r) \in Nat
           /\ Count(With(u, p), r) =
                 IF p.role = r THEN Count(players, r) + 1 ELSE Count(players, r)
  <1> DEFINE qs == With(u, p)
             old == WithRole(players, r)
  <1>1. IsFiniteSet(old)
    BY FS_Subset DEF WithRole
  <1>2. /\ DOMAIN qs = DOMAIN players \cup {u} /\ qs[u] = p
        /\ \A v \in DOMAIN players : qs[v] = players[v]
    BY DEF With
  <1> HIDE DEF qs
  <1>3. WithRole(qs, r) = IF p.role = r THEN old \cup {u} ELSE old
    BY <1>2 DEF WithRole
  <1>4. u \notin old
    BY DEF WithRole
  <1> HIDE DEF old
  <1>5. /\ Cardinality(old) \in Nat
        /\ Cardinality(WithRole(qs, r)) = IF p.role = r THEN Cardinality(old) + 1 ELSE Cardinality(old)
    BY <1>1, <1>3, <1>4, FS_AddElement, FS_CardinalityType
  <1> QED
    BY <1>5 DEF Count, qs, old

(* A player made as pickRole allows leaves the roles balanced.             *)
LEMMA NewPlayerBalanced ==
    ASSUME Balanced(players), PlayersOf(players), ids \in Nat, NEW u \in Users,
           NEW p \in [id : 1..(ids + 1), role : Role], Ensured(u, p)
    PROVE  Balanced(With(u, p))
  <1>1. IsFiniteSet(DOMAIN players)
    BY UsersAssumption, FS_Subset DEF PlayersOf
  <1>2. CASE u \in DOMAIN players
    <2>1. p = players[u]
      BY <1>2 DEF Ensured
    <2>2. ASSUME NEW r PROVE WithRole(With(u, p), r) = WithRole(players, r)
      BY <1>2, <2>1 DEF With, WithRole
    <2> QED
      BY <2>2 DEF Balanced, Count, Total
  <1>3. CASE u \notin DOMAIN players
    <2> DEFINE B == Count(players, "Buyer")
               H == Count(players, "Holder")
               W == Count(players, "Whale")
    <2>1. p.role \in PossibleRoles(players)
      BY <1>3 DEF Ensured
    <2>2. ASSUME NEW r
          PROVE  /\ Count(players, r) \in Nat
                 /\ Count(With(u, p), r) =
                       IF p.role = r THEN Count(players, r) + 1 ELSE Count(players, r)
      BY <1>1, <1>3, CountAfterNew
    <2>3. B \in Nat /\ H \in Nat /\ W \in Nat
      BY <2>2
    <2>4. B - H \in -2..2 /\ 10 * W <= B + H + W + 9
      BY DEF Balanced, Total
    <2>5. p.role \in Role
      OBVIOUS
    <2>6. CASE p.role = "Buyer"
      <3>1. B - H < 2
        BY <2>1, <2>6 DEF PossibleRoles
      <3>2. /\ Count(With(u, p), "Buyer") = B + 1
            /\ Count(With(u, p), "Holder") = H
            /\ Count(With(u, p), "Whale") = W
        BY <2>2, <2>6
      <3> HIDE DEF B, H, W
      <3> QED
        BY <2>3, <2>4, <3>1, <3>2 DEF Balanced, Total
    <2>7. CASE p.role = "Holder"
      <3>1. B - H > -2
        BY <2>1, <2>7 DEF PossibleRoles
      <3>2. /\ Count(With(u, p), "Buyer") = B
            /\ Count(With(u, p), "Holder") = H + 1
            /\ Count(With(u, p), "Whale") = W
        BY <2>2, <2>7
      <3> HIDE DEF B, H, W
      <3> QED
        BY <2>3, <2>4, <3>1, <3>2 DEF Balanced, Total
    <2>8. CASE p.role = "Whale"
      <3>1. B + H + W = 0 \/ 10 * W < B + H + W
        BY <2>1, <2>8 DEF PossibleRoles, WhalesWanted, Total
      <3>2. /\ Count(With(u, p), "Buyer") = B
            /\ Count(With(u, p), "Holder") = H
            /\ Count(With(u, p), "Whale") = W + 1
        BY <2>2, <2>8
      <3> HIDE DEF B, H, W
      <3> QED
        BY <2>3, <2>4, <3>1, <3>2 DEF Balanced, Total
    <2> QED
      BY <2>5, <2>6, <2>7, <2>8 DEF Role
  <1> QED
    BY <1>2, <1>3

LEMMA InitBalanced == Init => RolesBalanced
  <1> SUFFICES ASSUME Init PROVE RolesBalanced
    OBVIOUS
  <1>1. DOMAIN <<>> = {}
    OBVIOUS
  <1>2. ASSUME NEW r PROVE Count(players, r) = 0 /\ Count(file, r) = 0
    BY <1>1, FS_EmptySet DEF Init, Count, WithRole
  <1> QED
    BY <1>2 DEF RolesBalanced, Balanced, Total

LEMMA NextBalanced == TypeOK /\ RolesBalanced /\ [Next]_vars => RolesBalanced'
  <1> SUFFICES ASSUME TypeOK, RolesBalanced, [Next]_vars PROVE RolesBalanced'
    OBVIOUS
  <1>1. ASSUME NEW u \in Users, NEW p \in [id : 1..(ids + 1), role : Role],
               NEW w \in BOOLEAN, Ensured(u, p), Upsert(u, p, w)
        PROVE  RolesBalanced'
    <2>1. Balanced(With(u, p))
      BY <1>1, NewPlayerBalanced DEF RolesBalanced, TypeOK
    <2>2. CASE w
      BY <1>1, <2>1, <2>2 DEF RolesBalanced, Upsert, Balanced, Total, Count, WithRole
    <2>3. CASE ~w
      BY <1>1, <2>1, <2>3 DEF RolesBalanced, Upsert, Balanced, Total, Count, WithRole
    <2> QED
      BY <2>2, <2>3
  <1>2. ASSUME NEW u \in Users, Login(u) PROVE RolesBalanced'
    BY <1>1, <1>2 DEF Login, EnsurePlayer, AnswersAfter, EnsureUnsaved, EnsureUnanswered
  <1>3. CASE Restart
    BY <1>3 DEF Restart, RolesBalanced, Balanced, Total, Count, WithRole
  <1>4. ASSUME UNCHANGED <<players, file>> PROVE RolesBalanced'
    BY <1>4 DEF RolesBalanced, Balanced, Total, Count, WithRole
  <1>5. ASSUME NEW u \in Users, Send(u) \/ Disconnected(u) \/ TimedOut(u) \/ StartAfresh(u)
        PROVE  UNCHANGED <<players, file>>
    BY <1>5 DEF Send, Disconnected, TimedOut, StartAfresh, serverVars
  <1>6. ASSUME NEW r \in wire, Exchange(r) PROVE UNCHANGED <<players, file>>
    BY <1>6 DEF Exchange
  <1>7. Tick \/ UNCHANGED vars => UNCHANGED <<players, file>>
    BY DEF Tick, serverVars, vars
  <1> QED
    BY <1>2, <1>3, <1>4, <1>5, <1>6, <1>7 DEF Next

(* "population-balanced", "around 10% whales" (README.md:177): in memory   *)
(* and in the file, whatever saves fail and whenever the server restarts.  *)
THEOREM RolesStayBalanced == Spec => []RolesBalanced
  <1>1. TypeInv => TypeOK
    BY DEF TypeInv
  <1> QED
    BY InitTypes, NextTypes, InitBalanced, NextBalanced, <1>1, PTL DEF Spec

----------------------------------------------------------------------------
(* Who has which player                                                    *)

(* Ids belong to one user; the file holds players of the memory; tokens,   *)
(* requests, what the gateway said and the profiles agree with the file.   *)
Distinct(ps) == \A u, v \in DOMAIN ps : ps[u].id = ps[v].id => u = v
InFile(u, id) == u \in DOMAIN file /\ file[u].id = id

FileInMemory == \A u \in DOMAIN file : u \in DOMAIN players /\ players[u] = file[u]
RequestsOwned == /\ \A u \in Users : token[u][1] = u
                 /\ \A r \in wire : r.token[1] = r.from
TokensFiled == \A t \in DOMAIN bootstrapTokens : InFile(t[1], bootstrapTokens[t].player)
ToldFiled == \A a \in told : InFile(a[1], a[2])
ProfilesFiled == \A u \in Users : profile[u] # 0 => InFile(u, profile[u])

Owners == /\ Distinct(players) /\ FileInMemory /\ RequestsOwned
          /\ TokensFiled /\ ToldFiled /\ ProfilesFiled

LEMMA InitOwners == Init => Owners
  <1> SUFFICES ASSUME Init PROVE Owners
    OBVIOUS
  <1>1. DOMAIN <<>> = {}
    OBVIOUS
  <1> QED
    BY <1>1 DEF Init, Owners, Distinct, FileInMemory, RequestsOwned, TokensFiled, ToldFiled,
                ProfilesFiled, InFile

(* A login keeps everybody's player, and files the user's own if it was    *)
(* written.                                                                *)
LEMMA EnsuredOwners ==
    ASSUME TypeOK, Distinct(players), FileInMemory,
           NEW u \in Users, NEW p \in [id : 1..(ids + 1), role : Role],
           Ensured(u, p), NEW w \in BOOLEAN, Upsert(u, p, w)
    PROVE  /\ Distinct(players)' /\ FileInMemory'
           /\ \A v, id : InFile(v, id) => InFile(v, id)'
           /\ w => InFile(u, p.id)'
  <1>1. /\ \A v \in DOMAIN players : With(u, p)[v] = players[v]
        /\ DOMAIN With(u, p) = DOMAIN players \cup {u}
        /\ With(u, p)[u] = p
    BY DEF With, Ensured
  <1>2. ASSUME NEW v \in DOMAIN players, u \notin DOMAIN players PROVE players[v].id # p.id
    <2>1. p.id = ids + 1
      BY <1>2 DEF Ensured
    <2>2. players[v].id \in 1..ids /\ ids \in Nat
      BY <1>2 DEF TypeOK, PlayersOf, Player
    <2> QED
      BY <2>1, <2>2
  <1>3. Distinct(players)'
    <2> SUFFICES ASSUME NEW v \in DOMAIN With(u, p), NEW z \in DOMAIN With(u, p),
                        With(u, p)[v].id = With(u, p)[z].id
                 PROVE  v = z
      BY DEF Distinct, Upsert
    <2>1. CASE u \in DOMAIN players
      BY <1>1, <2>1 DEF Distinct
    <2>2. CASE u \notin DOMAIN players
      BY <1>1, <1>2, <2>2 DEF Distinct
    <2> QED
      BY <2>1, <2>2
  <1>4. FileInMemory'
    BY <1>1 DEF FileInMemory, Upsert
  <1>5. \A v, id : InFile(v, id) => InFile(v, id)'
    BY <1>1 DEF FileInMemory, Upsert, InFile
  <1>6. w => InFile(u, p.id)'
    BY <1>1 DEF Upsert, InFile
  <1> QED
    BY <1>3, <1>4, <1>5, <1>6

(* The token issued stands for the player of its user.                     *)
LEMMA IssuedOwners ==
    ASSUME TypeOK, TokensFiled, NEW u \in Users, NEW p, IssueToken(u, p),
           \A v, id : InFile(v, id) => InFile(v, id)', InFile(u, p.id)'
    PROVE  TokensFiled'
  <1> SUFFICES ASSUME NEW t \in DOMAIN bootstrapTokens'
               PROVE  InFile(t[1], bootstrapTokens[t].player)'
    BY DEF TokensFiled
  <1>1. NewToken(u)[1] = u
    BY DEF NewToken
  <1>2. CASE t = NewToken(u)
    <2>1. bootstrapTokens'[t] = [player |-> p.id, until |-> now + TTL]
      BY <1>2 DEF IssueToken
    <2>2. bootstrapTokens'[t].player = p.id /\ t[1] = u
      BY <1>1, <1>2, <2>1
    <2> QED
      BY <2>2 DEF InFile
  <1>3. CASE t # NewToken(u)
    <2>1. t \in DOMAIN bootstrapTokens /\ bootstrapTokens'[t] = bootstrapTokens[t]
      BY <1>3 DEF IssueToken
    <2> QED
      BY <2>1 DEF TokensFiled, InFile
  <1> QED
    BY <1>2, <1>3

LEMMA NextOwners == TypeOK /\ Owners /\ [Next]_vars => Owners'
  <1> SUFFICES ASSUME TypeOK, Owners, [Next]_vars PROVE Owners'
    OBVIOUS
  <1>1. ASSUME NEW u \in Users, EnsurePlayer(u) PROVE Owners'
    <2>1. PICK p \in [id : 1..(ids + 1), role : Role] :
             /\ Ensured(u, p) /\ Upsert(u, p, TRUE) /\ IssueToken(u, p)
             /\ told' = told \cup {<<u, p.id>>}
             /\ BootstrapViaSSH(u, p) \/ TakeToken(u)
      BY <1>1 DEF EnsurePlayer, AnswersAfter
    <2>2. /\ Distinct(players)' /\ FileInMemory' /\ InFile(u, p.id)'
          /\ \A v, id : InFile(v, id) => InFile(v, id)'
      BY <2>1, EnsuredOwners DEF Owners
    <2>3. TokensFiled'
      BY <2>1, <2>2, IssuedOwners DEF Owners
    <2>4. ToldFiled'
      BY <2>1, <2>2 DEF Owners, ToldFiled, InFile
    <2>5. RequestsOwned'
      BY <1>1, <2>1 DEF Owners, RequestsOwned, EnsurePlayer, BootstrapViaSSH, TakeToken, NewToken, TypeOK
    <2>6. ProfilesFiled'
      <3>1. ASSUME NEW v \in Users, profile'[v] # 0
            PROVE  profile'[v] = profile[v] \/ (v = u /\ profile'[v] = p.id)
        BY <2>1 DEF BootstrapViaSSH, TakeToken, Enter, TypeOK
      <3> QED
        BY <2>2, <3>1 DEF Owners, ProfilesFiled, InFile
    <2> QED
      BY <2>2, <2>3, <2>4, <2>5, <2>6 DEF Owners
  <1>2. ASSUME NEW u \in Users, EnsureUnsaved(u) PROVE Owners'
    <2>1. PICK p \in [id : 1..(ids + 1), role : Role] : Ensured(u, p) /\ Upsert(u, p, FALSE)
      BY <1>2 DEF EnsureUnsaved
    <2>2. /\ Distinct(players)' /\ FileInMemory'
          /\ \A v, id : InFile(v, id) => InFile(v, id)'
      BY <2>1, EnsuredOwners DEF Owners
    <2>3. UNCHANGED <<bootstrapTokens, wire, token, profile, told>>
      BY <1>2 DEF EnsureUnsaved, clientVars, history
    <2> QED
      BY <2>2, <2>3 DEF Owners, RequestsOwned, TokensFiled, ToldFiled, ProfilesFiled, InFile
  <1>3. ASSUME NEW u \in Users, EnsureUnanswered(u) PROVE Owners'
    <2>1. PICK p \in [id : 1..(ids + 1), role : Role] :
             Ensured(u, p) /\ Upsert(u, p, TRUE) /\ IssueToken(u, p)
      BY <1>3 DEF EnsureUnanswered
    <2>2. /\ Distinct(players)' /\ FileInMemory' /\ InFile(u, p.id)'
          /\ \A v, id : InFile(v, id) => InFile(v, id)'
      BY <2>1, EnsuredOwners DEF Owners
    <2>3. TokensFiled'
      BY <2>1, <2>2, IssuedOwners DEF Owners
    <2>4. UNCHANGED <<wire, token, profile, told>>
      BY <1>3 DEF EnsureUnanswered, clientVars
    <2> QED
      BY <2>2, <2>3, <2>4 DEF Owners, RequestsOwned, ToldFiled, ProfilesFiled, InFile
  <1>4. ASSUME NEW u \in Users, Send(u) PROVE Owners'
    BY <1>4 DEF Send, Owners, Distinct, FileInMemory, RequestsOwned, TokensFiled, ToldFiled,
                ProfilesFiled, InFile, history
  <1>5. ASSUME NEW u \in Users, Disconnected(u) \/ TimedOut(u) PROVE Owners'
    <2>1. UNCHANGED <<serverVars, token, profile, history>>
      BY <1>5 DEF Disconnected, TimedOut
    <2> QED
      BY <2>1 DEF Owners, Distinct, FileInMemory, RequestsOwned, TokensFiled, ToldFiled,
                  ProfilesFiled, InFile, serverVars, history
  <1>6. ASSUME NEW u \in Users, StartAfresh(u) PROVE Owners'
    BY <1>6 DEF StartAfresh, Owners, Distinct, FileInMemory, RequestsOwned, TokensFiled, ToldFiled,
                ProfilesFiled, InFile, serverVars, history, TypeOK
  <1>7. ASSUME NEW r \in wire, Exchange(r) PROVE Owners'
    <2>1. UNCHANGED <<players, file, token, told>> /\ wire' \subseteq wire
      BY <1>7 DEF Exchange
    <2>2. TokensFiled'
      BY <1>7, <2>1 DEF Exchange, TokensAfter, Owners, TokensFiled, InFile
    <2>3. Granted(r.token) # 0 => InFile(r.from, Granted(r.token))
      BY DEF Granted, Owners, TokensFiled, RequestsOwned
    <2>4. \/ profile' = profile
          \/ Granted(r.token) # 0 /\ profile' = [profile EXCEPT ![r.from] = Granted(r.token)]
      BY <1>7 DEF Exchange, Answer, Enter, AnswerLost, NoSymbols
    <2>5. ProfilesFiled'
      BY <2>1, <2>3, <2>4 DEF Owners, ProfilesFiled, InFile, TypeOK
    <2> QED
      BY <2>1, <2>2, <2>5 DEF Owners, Distinct, FileInMemory, RequestsOwned, ToldFiled, InFile
  <1>8. CASE Restart
    <2>1. DOMAIN <<>> = {}
      OBVIOUS
    <2>2. Distinct(players)' /\ FileInMemory'
      BY <1>8 DEF Restart, Owners, Distinct, FileInMemory
    <2> QED
      BY <1>8, <2>1, <2>2 DEF Restart, Owners, RequestsOwned, TokensFiled, ToldFiled,
                  ProfilesFiled, InFile, clientVars, history
  <1>9. CASE Tick \/ UNCHANGED vars
    BY <1>9 DEF Tick, Owners, Distinct, FileInMemory, RequestsOwned, TokensFiled, ToldFiled,
                ProfilesFiled, InFile, vars, serverVars, clientVars, history
  <1> QED
    BY <1>1, <1>2, <1>3, <1>4, <1>5, <1>6, <1>7, <1>8, <1>9 DEF Next, Login

(* "account recovery" (README.md:10): an id the gateway once told a user,  *)
(* or a profile holds, is the id of this user's player for ever, and of no *)
(* other.                                                                  *)
THEOREM PlayersAreKept == Spec => []AnsweredPlayersSurvive
  <1>1. ASSUME Owners PROVE AnsweredPlayersSurvive
    <2> DEFINE known == told \cup {<<u, profile[u]>> : u \in {v \in Users : profile[v] # 0}}
    <2>1. \A a \in known : InFile(a[1], a[2])
      BY <1>1 DEF Owners, ToldFiled, ProfilesFiled
    <2> HIDE DEF known
    <2>2. \A a \in known : a[1] \in DOMAIN players /\ players[a[1]].id = a[2]
      BY <1>1, <2>1 DEF Owners, FileInMemory, InFile
    <2>3. \A a, b \in known : a[2] = b[2] => a[1] = b[1]
      BY <1>1, <2>2 DEF Owners, Distinct
    <2>4. \A a \in known : /\ a[1] \in DOMAIN players /\ players[a[1]].id = a[2]
                            /\ a[1] \in DOMAIN file /\ file[a[1]].id = a[2]
                            /\ \A b \in known : a[2] = b[2] => a[1] = b[1]
      BY <2>1, <2>2, <2>3 DEF InFile
    <2> QED
      BY <2>4 DEF AnsweredPlayersSurvive, known
  <1>2. TypeInv => TypeOK
    BY DEF TypeInv
  <1> QED
    BY InitTypes, NextTypes, InitOwners, NextOwners, <1>1, <1>2, PTL DEF Spec

----------------------------------------------------------------------------
(* Tokens                                                                  *)

(* Tokens that exist or were exchanged have been issued; an exchanged one  *)
(* is gone, and was exchanged by one request.                              *)
Issued(t) == t[2] <= logins[t[1]]

OneTime ==
    /\ \A t \in DOMAIN bootstrapTokens : Issued(t)
    /\ \A r \in exchanged : Issued(r.token) /\ r.token \notin DOMAIN bootstrapTokens
    /\ TokensAreOneTime

LEMMA IssuedOnce ==
    ASSUME TypeOK, OneTime, NEW u \in Users, NEW p, IssueToken(u, p), UNCHANGED exchanged
    PROVE  OneTime'
  <1>1. PICK t \in Token : t = NewToken(u)
    <2>1. logins[u] + 1 \in Nat
      BY DEF TypeOK
    <2>2. NewToken(u) \in Token
      BY <2>1 DEF NewToken, Token
    <2> QED
      BY <2>2
  <1>2. /\ logins[u] \in Nat /\ logins' = [logins EXCEPT ![u] = logins[u] + 1]
        /\ DOMAIN bootstrapTokens' \subseteq DOMAIN bootstrapTokens \cup {t}
    BY <1>1 DEF IssueToken, TypeOK
  <1>3. \A s \in Token : Issued(s) => Issued(s)'
    <2> SUFFICES ASSUME NEW v \in Users, NEW n \in Nat, n <= logins[v] PROVE n <= logins'[v]
      BY DEF Token, Issued
    <2>1. logins[v] \in Nat /\ logins'[v] \in {logins[v], logins[v] + 1}
      BY <1>2 DEF TypeOK
    <2> QED
      BY <2>1
  <1>4. Issued(t)' /\ ~Issued(t)
    <2>1. t[1] = u /\ t[2] = logins[u] + 1
      BY <1>1 DEF NewToken
    <2>2. logins'[u] = logins[u] + 1
      BY <1>2 DEF TypeOK
    <2> QED
      BY <1>2, <2>1, <2>2 DEF Issued
  <1>5. /\ DOMAIN bootstrapTokens \subseteq Token
        /\ \A r \in exchanged : r.token \in Token
    BY DEF TypeOK, Request
  <1> QED
    BY <1>2, <1>3, <1>4, <1>5 DEF OneTime, TokensAreOneTime

LEMMA NextOneTime == TypeOK /\ OneTime /\ [Next]_vars => OneTime'
  <1> SUFFICES ASSUME TypeOK, OneTime, [Next]_vars PROVE OneTime'
    OBVIOUS
  <1>1. ASSUME NEW u \in Users, EnsurePlayer(u) \/ EnsureUnanswered(u) PROVE OneTime'
    <2>1. PICK p : IssueToken(u, p)
      BY <1>1 DEF EnsurePlayer, EnsureUnanswered
    <2>2. UNCHANGED exchanged
      BY <1>1 DEF EnsurePlayer, EnsureUnanswered
    <2> QED
      BY <2>1, <2>2, IssuedOnce
  <1>2. ASSUME NEW r \in wire, Exchange(r) PROVE OneTime'
    <2>1. DOMAIN bootstrapTokens' = DOMAIN bootstrapTokens \ {r.token} /\ logins' = logins
      BY <1>2 DEF Exchange, TokensAfter
    <2>2. CASE Granted(r.token) = 0
      BY <1>2, <2>1, <2>2 DEF Exchange, OneTime, TokensAreOneTime, Issued
    <2>3. CASE Granted(r.token) # 0
      <3>1. r.token \in DOMAIN bootstrapTokens
        BY <2>3 DEF Granted
      <3>2. \A s \in exchanged : s.token # r.token
        BY <3>1 DEF OneTime
      <3>3. exchanged' = exchanged \cup {r}
        BY <1>2, <2>3 DEF Exchange
      <3> QED
        BY <2>1, <3>1, <3>2, <3>3 DEF OneTime, TokensAreOneTime, Issued
    <2> QED
      BY <2>2, <2>3
  <1>3. CASE Restart
    <2>1. DOMAIN <<>> = {}
      OBVIOUS
    <2> QED
      BY <1>3, <2>1 DEF Restart, OneTime, TokensAreOneTime, Issued, history
  <1>4. ASSUME UNCHANGED <<bootstrapTokens, logins, exchanged>> PROVE OneTime'
    BY <1>4 DEF OneTime, TokensAreOneTime, Issued
  <1>5. ASSUME NEW u \in Users,
               EnsureUnsaved(u) \/ Send(u) \/ Disconnected(u) \/ TimedOut(u) \/ StartAfresh(u)
        PROVE  UNCHANGED <<bootstrapTokens, logins, exchanged>>
    BY <1>5 DEF EnsureUnsaved, Send, Disconnected, TimedOut, StartAfresh, serverVars, history
  <1>6. Tick \/ UNCHANGED vars => UNCHANGED <<bootstrapTokens, logins, exchanged>>
    BY DEF Tick, serverVars, history, vars
  <1> QED
    BY <1>1, <1>2, <1>3, <1>4, <1>5, <1>6 DEF Next, Login

(* "one-time" (README.md:251): a token opens one session, however often    *)
(* the request that carries it is sent.                                    *)
THEOREM TokensOpenOneSession == Spec => []TokensAreOneTime
  <1>1. Init => OneTime
    <2>1. DOMAIN <<>> = {}
      OBVIOUS
    <2> QED
      BY <2>1 DEF Init, OneTime, TokensAreOneTime
  <1>2. OneTime => TokensAreOneTime
    BY DEF OneTime
  <1>3. TypeInv => TypeOK
    BY DEF TypeInv
  <1> QED
    BY InitTypes, NextTypes, NextOneTime, <1>1, <1>2, <1>3, PTL DEF Spec
=============================================================================
