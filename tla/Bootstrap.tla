------------------------------ MODULE Bootstrap ------------------------------
(***************************************************************************)
(* How a user gets a player: EnsurePlayer (internal/gameplay/engine.go),   *)
(* called by the SSH gateway (cmd/ssh-server), creates the player on the   *)
(* first login with a role from the allocator (internal/roles), saves it   *)
(* in the player store and issues a one-time token.  The game client       *)
(* (cmd/game-client) exchanges the token for the player id and keeps the   *)
(* id in its profile for all later launches.                               *)
(*                                                                         *)
(* EnsurePlayer and the exchange run under the engine's mutex, so each is  *)
(* one step here, with one outcome for each place where it may fail.  The  *)
(* client's call is several steps: it is sent again when no answer comes,  *)
(* while the first request may still be on its way.                        *)
(***************************************************************************)
EXTENDS Integers, FiniteSets

CONSTANTS Users,
          TTL,         \* bootstrapTokenTTL
          MaxAttempts, \* how often the client sends its request
          MaxNow,      \* bound: time
          MaxFaults    \* bound: failing writes, lost answers, timeouts, restarts

ASSUME UsersAssumption  == IsFiniteSet(Users)
ASSUME TimesAssumption  == TTL \in Nat \ {0} /\ MaxAttempts \in Nat \ {0}
ASSUME BoundsAssumption == MaxNow \in Nat /\ MaxFaults \in Nat

VARIABLES now,
          \* the server
          players,          \* PlayerStore.players: user name -> player id and role
          file,             \* the players' file
          ids,              \* player ids made so far (uuid.NewString)
          bootstrapTokens,  \* token -> player id and expiry
          wire,             \* exchange requests sent and not handled yet
          \* the users and their clients
          at,               \* "out", "holding" a token, "waiting" for an answer, "in" the game
          token,            \* the token of the user's last login
          attempt,          \* requests the client has sent for it
          profile,          \* player id in the client's profile, 0 if there is none
          \* bounds and history
          faults,
          logins,           \* user -> tokens issued
          told,             \* <<user, id>>: whom the gateway told which player id
          exchanged         \* requests that were answered with a player

serverVars == <<players, file, ids, bootstrapTokens, wire>>
clientVars == <<at, token, attempt, profile>>
history    == <<logins, told, exchanged>>
vars == <<now, serverVars, clientVars, faults, history>>

Role == {"Buyer", "Holder", "Whale"}

(* Tokens are unique: the n-th one issued to a user; <<u, 0>> is none.     *)
Token == Users \X Nat

Request == [token : Token, attempt : 1..MaxAttempts, from : Users]

----------------------------------------------------------------------------
(* Roles                                                                   *)

WithRole(ps, r) == {u \in DOMAIN ps : ps[u].role = r}

(* RoleStats *)
Count(ps, r) == Cardinality(WithRole(ps, r))
Total(ps) == Count(ps, "Buyer") + Count(ps, "Holder") + Count(ps, "Whale")

(* Fewer than a tenth of the players are whales; so it is said of none.    *)
WhalesWanted(ps) == Total(ps) = 0 \/ 10 * Count(ps, "Whale") < Total(ps)

RolesAtRandom(ps) == Role   \* fault: neither whales nor differences are counted

(* pickRole: the roles a new player may get.                               *)
PossibleRoles(ps) ==
    LET diff == Count(ps, "Buyer") - Count(ps, "Holder")
    IN  {r \in Role : \/ r = "Whale" /\ WhalesWanted(ps)
                      \/ r = "Buyer" /\ diff < 2
                      \/ r = "Holder" /\ diff > -2}

----------------------------------------------------------------------------

Init ==
    /\ now = 0
    /\ players = <<>> /\ file = <<>> /\ ids = 0
    /\ bootstrapTokens = <<>>
    /\ wire = {}
    /\ at = [u \in Users |-> "out"]
    /\ token = [u \in Users |-> <<u, 0>>]
    /\ attempt = [u \in Users |-> 0]
    /\ profile = [u \in Users |-> 0]
    /\ faults = 0
    /\ logins = [u \in Users |-> 0]
    /\ told = {} /\ exchanged = {}

GoesWrong == faults < MaxFaults /\ faults' = faults + 1

----------------------------------------------------------------------------
(* EnsurePlayer, for a user who has logged in over SSH                     *)

(* fault: a name is refused once its player exists                         *)
EnsuredOnce(u, p) ==
    /\ u \notin DOMAIN players
    /\ \E r \in PossibleRoles(players) : p = [id |-> ids + 1, role |-> r]
    /\ ids' = ids + 1

(* The player of the user: the known one, or a new one.                    *)
Ensured(u, p) ==
    IF u \in DOMAIN players THEN p = players[u] /\ ids' = ids
    ELSE /\ \E r \in PossibleRoles(players) : p = [id |-> ids + 1, role |-> r]
         /\ ids' = ids + 1

With(u, p) == [v \in DOMAIN players \cup {u} |-> IF v = u THEN p ELSE players[v]]

(* Upsert changes the player in memory, then writes all of them.           *)
Upsert(u, p, written) ==
    /\ players' = With(u, p)
    /\ file' = IF written THEN With(u, p) ELSE file

NewToken(u) == <<u, logins[u] + 1>>

(* issueBootstrapToken drops the expired tokens first.                     *)
IssueToken(u, p) ==
    LET live == {t \in DOMAIN bootstrapTokens : bootstrapTokens[t].until > now}
    IN  /\ bootstrapTokens' = [t \in live \cup {NewToken(u)} |->
                                  IF t = NewToken(u) THEN [player |-> p.id, until |-> now + TTL]
                                  ELSE bootstrapTokens[t]]
        /\ logins' = [logins EXCEPT ![u] = logins[u] + 1]

AnswersAlways == {TRUE, FALSE}   \* fault: an error of Upsert is not returned

(* What Upsert may have done when a player is answered.                    *)
AnswersAfter == {TRUE}

(* The file cannot be written: no token, no answer.                        *)
EnsureUnsaved(u) ==
    /\ at[u] = "out"
    /\ GoesWrong
    /\ \E p \in [id : 1..(ids + 1), role : Role] : Ensured(u, p) /\ Upsert(u, p, FALSE)
    /\ UNCHANGED <<now, bootstrapTokens, wire, clientVars, history>>

(* The performance snapshot cannot be written, or the answer does not      *)
(* reach the user: the player is saved and its token issued.               *)
EnsureUnanswered(u) ==
    /\ at[u] = "out"
    /\ GoesWrong
    /\ \E p \in [id : 1..(ids + 1), role : Role] :
          Ensured(u, p) /\ Upsert(u, p, TRUE) /\ IssueToken(u, p)
    /\ UNCHANGED <<now, wire, clientVars, told, exchanged>>

(* The client knows its player and saves the id in its profile.            *)
Enter(u, id) ==
    /\ at' = [at EXCEPT ![u] = "in"]
    /\ profile' = [profile EXCEPT ![u] = id]

(* A client that logged in itself reads the player's id from what the      *)
(* gateway prints.                                                         *)
BootstrapViaSSH(u, p) ==
    /\ Enter(u, p.id)
    /\ UNCHANGED <<token, attempt>>

(* A user who logged in by hand starts a client with the printed token.    *)
TakeToken(u) ==
    /\ at' = [at EXCEPT ![u] = "holding"]
    /\ token' = [token EXCEPT ![u] = NewToken(u)]
    /\ attempt' = [attempt EXCEPT ![u] = 0]
    /\ UNCHANGED profile

(* The session handler of the gateway, around EnsurePlayer.                *)
EnsurePlayer(u) ==
    /\ at[u] = "out"
    /\ \E p \in [id : 1..(ids + 1), role : Role], written \in AnswersAfter :
          /\ Ensured(u, p) /\ Upsert(u, p, written) /\ IssueToken(u, p)
          /\ told' = told \cup {<<u, p.id>>}
          /\ BootstrapViaSSH(u, p) \/ TakeToken(u)
    /\ UNCHANGED <<now, wire, faults, exchanged>>

----------------------------------------------------------------------------
(* exchangeBootstrapToken: executeActionJSON sends the request up to three *)
(* times, as long as the connection or the time limit is what failed.      *)

CurrentRequest(u) == [token |-> token[u], attempt |-> attempt[u], from |-> u]

Send(u) ==
    /\ at[u] = "holding"
    /\ attempt' = [attempt EXCEPT ![u] = attempt[u] + 1]
    /\ wire' = wire \cup {[token |-> token[u], attempt |-> attempt[u] + 1, from |-> u]}
    /\ at' = [at EXCEPT ![u] = "waiting"]
    /\ UNCHANGED <<now, players, file, ids, bootstrapTokens, token, profile, faults, history>>

(* fault: attempts are not counted                                         *)
RetryForever(u) == at' = [at EXCEPT ![u] = "holding"]

(* After the last attempt the client gives up and the user has to log in   *)
(* again.                                                                  *)
Retry(u) ==
    at' = [at EXCEPT ![u] = IF attempt[u] < MaxAttempts THEN "holding" ELSE "out"]

(* Nothing comes back: the server was stopped in between.                  *)
Disconnected(u) ==
    /\ at[u] = "waiting"
    /\ CurrentRequest(u) \notin wire
    /\ Retry(u)
    /\ UNCHANGED <<now, serverVars, token, attempt, profile, faults, history>>

(* The time limit passes although the request is still to be handled.      *)
TimedOut(u) ==
    /\ at[u] = "waiting"
    /\ CurrentRequest(u) \in wire
    /\ GoesWrong
    /\ Retry(u)
    /\ UNCHANGED <<now, serverVars, token, attempt, profile, history>>

(* The client gets the answer of the server to a request, unless it has    *)
(* given it up.                                                            *)
Answer(r, id) ==
    IF r = CurrentRequest(r.from) /\ at[r.from] = "waiting"
    THEN IF id # 0 THEN Enter(r.from, id)
         ELSE at' = [at EXCEPT ![r.from] = "out"] /\ UNCHANGED profile
    ELSE UNCHANGED <<at, profile>>

TokenKept(t) == bootstrapTokens   \* fault: an exchanged token stays valid

(* consumeBootstrapToken deletes the token, expired or not.                *)
TokensAfter(t) == [s \in DOMAIN bootstrapTokens \ {t} |-> bootstrapTokens[s]]

HasPlayer(id) == \E u \in DOMAIN players : players[u].id = id

(* What the server answers to a token: a player id, or an error (0).       *)
Granted(t) ==
    IF /\ t \in DOMAIN bootstrapTokens
       /\ bootstrapTokens[t].until > now
       /\ HasPlayer(bootstrapTokens[t].player)
    THEN bootstrapTokens[t].player ELSE 0

(* The answer is lost, although the token has been taken.                  *)
AnswerLost(r) ==
    /\ GoesWrong
    /\ UNCHANGED <<at, profile>>

(* The client has its player but gets no market symbols to start with: it  *)
(* ends before it has saved its profile.                                   *)
NoSymbols(r) ==
    /\ r = CurrentRequest(r.from) /\ at[r.from] = "waiting"
    /\ Granted(r.token) # 0
    /\ GoesWrong
    /\ at' = [at EXCEPT ![r.from] = "out"]
    /\ UNCHANGED profile

(* handleBootstrapExchange, with what becomes of its answer.               *)
Exchange(r) ==
    /\ r \in wire
    /\ wire' = wire \ {r}
    /\ bootstrapTokens' = TokensAfter(r.token)
    /\ exchanged' = IF Granted(r.token) # 0 THEN exchanged \cup {r} ELSE exchanged
    /\ \/ Answer(r, Granted(r.token)) /\ UNCHANGED faults
       \/ AnswerLost(r)
       \/ NoSymbols(r)
    /\ UNCHANGED <<now, players, file, ids, token, attempt, logins, told>>

(* A client is started again without a profile: it was reset, or could not *)
(* be saved.  With one, it is in the game at once.                         *)
StartAfresh(u) ==
    /\ at[u] = "in"
    /\ GoesWrong
    /\ at' = [at EXCEPT ![u] = "out"]
    /\ profile' = [profile EXCEPT ![u] = 0]
    /\ UNCHANGED <<now, serverVars, token, attempt, history>>

----------------------------------------------------------------------------

(* The server stops and starts: tokens and requests are gone, the players  *)
(* are those of the file.                                                  *)
Restart ==
    /\ GoesWrong
    /\ players' = file
    /\ bootstrapTokens' = <<>>
    /\ wire' = {}
    /\ UNCHANGED <<now, file, ids, clientVars, history>>

Tick ==
    /\ now < MaxNow
    /\ now' = now + 1
    /\ UNCHANGED <<serverVars, clientVars, faults, history>>

----------------------------------------------------------------------------

Login(u) == EnsurePlayer(u) \/ EnsureUnsaved(u) \/ EnsureUnanswered(u)

Next ==
    \/ \E u \in Users : Login(u) \/ Send(u) \/ Disconnected(u) \/ TimedOut(u) \/ StartAfresh(u)
    \/ \E r \in wire : Exchange(r)
    \/ Restart
    \/ Tick

Spec == Init /\ [][Next]_vars

(* A user who is out tries again, a client goes on with its call and the   *)
(* server handles what reaches it.  Nobody has to be slow, and what goes   *)
(* wrong does so finitely often.                                           *)
Fairness ==
    /\ \A u \in Users : WF_vars(Login(u)) /\ WF_vars(Send(u)) /\ WF_vars(Disconnected(u))
    /\ WF_vars(\E r \in wire : Exchange(r))

FairSpec == Spec /\ Fairness

----------------------------------------------------------------------------
(* Properties                                                              *)

Player == [id : 1..ids, role : Role]
PlayersOf(ps) == DOMAIN ps \subseteq Users /\ \A u \in DOMAIN ps : ps[u] \in Player

(* Every variable has its type.                                            *)
TypeOK ==
    /\ now \in Nat /\ ids \in Nat /\ faults \in Nat
    /\ PlayersOf(players) /\ PlayersOf(file)
    /\ DOMAIN bootstrapTokens \subseteq Token
    /\ \A t \in DOMAIN bootstrapTokens : bootstrapTokens[t] \in [player : 1..ids, until : Nat]
    /\ wire \subseteq Request
    /\ at \in [Users -> {"out", "holding", "waiting", "in"}]
    /\ token \in [Users -> Token]
    /\ attempt \in [Users -> 0..MaxAttempts]
    /\ profile \in [Users -> 0..ids]
    /\ logins \in [Users -> Nat]
    /\ told \subseteq Users \X (1..ids)
    /\ exchanged \subseteq Request

(* "population-balanced": "around 10% whales", "the rest split between     *)
(* buyers and holders" (README.md:177 of the repository).                  *)
Balanced(ps) ==
    /\ Count(ps, "Buyer") - Count(ps, "Holder") \in -2..2
    /\ 10 * Count(ps, "Whale") <= Total(ps) + 9

(* Also when players are created whose save fails, and when a restart      *)
(* forgets them again.                                                     *)
RolesBalanced == Balanced(players) /\ Balanced(file)

(* A user keeps its player: an id the gateway once told it, or its client  *)
(* has saved for good, stays the id of the player of this user in memory   *)
(* and in the file, whatever write fails and whenever the server stops,    *)
(* and is no other user's ("account recovery", README.md:10).              *)
AnsweredPlayersSurvive ==
    LET known == told \cup {<<u, profile[u]>> : u \in {v \in Users : profile[v] # 0}}
    IN  \A a \in known :
            /\ a[1] \in DOMAIN players /\ players[a[1]].id = a[2]
            /\ a[1] \in DOMAIN file /\ file[a[1]].id = a[2]
            /\ \A b \in known : a[2] = b[2] => a[1] = b[1]

(* "one-time" (README.md:251): of all the requests a client sends with one *)
(* token, resent while the first are still on their way, the server        *)
(* answers one with a player.                                              *)
TokensAreOneTime ==
    \A r, s \in exchanged : r.token = s.token => r = s

(* Every user gets into the game, again after starting afresh: no failure  *)
(* leaves a name that can neither log in nor be created.                   *)
EveryoneGetsIn == \A u \in Users : []<>(at[u] = "in")
=============================================================================
