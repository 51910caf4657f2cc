------------------------------ MODULE ChatFeed ------------------------------
(***************************************************************************)
(* Chat and private messages: internal/chat and internal/state/chat_store  *)
(* (the global chat and the stored log), the private feed of               *)
(* internal/gameplay, and the part of GetMarketStream (internal/grpcapi)   *)
(* that brings both to a client.                                           *)
(*                                                                         *)
(* Sending is atomic: chat.Service.mu is held from the append to the last  *)
(* delivery of a global message, gameplay.Engine.mu for a private one.     *)
(* The stream handler is not: it answers a request in several steps, each  *)
(* under another of these mutexes, while messages keep coming.             *)
(***************************************************************************)
EXTENDS Integers, Sequences, FiniteSets, SequencesExt

CONSTANTS Players,
          Streams,       \* GetMarketStream calls, each opened at most once
          Owner,         \* the player a stream's requests name
          GlobalLimit,   \* chat.Service.historyLimit
          PrivateLimit,  \* gameplay.Engine.privateHistoryLimit
          StoreLimit,    \* ChatStore.maxRecords
          BufferSize,    \* capacity of a subscriber's channel
          MaxMessages, MaxRequests, MaxFailures, MaxCrashes  \* bounds

ASSUME OwnerAssumption  == Owner \in [Streams -> Players]
ASSUME LimitsAssumption == {GlobalLimit, PrivateLimit, StoreLimit, BufferSize} \subseteq Nat \ {0}
ASSUME BoundsAssumption == {MaxMessages, MaxRequests, MaxFailures, MaxCrashes} \subseteq Nat

VARIABLES messages,        \* ChatStore.messages
          file,            \* the stored log
          privateHistory,  \* player -> private payloads, latest last
          live,            \* streams subscribed to the global chat
          tapped,          \* streams subscribed to their player's private feed
          chatFeed,        \* stream -> channel of global messages
          privateFeed,     \* stream -> channel of private payloads
          at,              \* where a stream's handler is
          includeChat,     \* what the stream's last request asked for
          requests,        \* requests handled so far
          failures, crashes,
          \* history
          sent,            \* messages numbered so far
          acked,           \* numbers of the chat messages whose sender got no error
          seen,            \* stream -> numbers of what was sent to the client
          lost,            \* stream -> numbers of what found a full channel
          chatOwed,        \* stream -> global messages acknowledged since it asked for chat
          privateOwed,     \* stream -> private ones since it asked for chat
          inbox            \* player -> numbers of its private messages, in order

storeVars  == <<messages, file, privateHistory>>
streamVars == <<live, tapped, chatFeed, privateFeed, at, includeChat, requests>>
history    == <<sent, acked, seen, lost, chatOwed, privateOwed, inbox>>
vars == <<storeVars, streamVars, failures, crashes, history>>

(* A global message is for "all"; what intel sends comes from "market".    *)
Message == [id : 1..MaxMessages, from : Players \cup {"market"}, to : Players \cup {"all"}]

Ids(msgs) == {m.id : m \in ToSet(msgs)}

Latest(msgs, n) == IF Len(msgs) > n THEN SubSeq(msgs, Len(msgs) - n + 1, Len(msgs)) ELSE msgs

----------------------------------------------------------------------------

Init ==
    /\ messages = <<>> /\ file = <<>>
    /\ privateHistory = [p \in Players |-> <<>>]
    /\ live = {} /\ tapped = {}
    /\ chatFeed = [s \in Streams |-> <<>>]
    /\ privateFeed = [s \in Streams |-> <<>>]
    /\ at = [s \in Streams |-> "none"]
    /\ includeChat = [s \in Streams |-> FALSE]
    /\ requests = [s \in Streams |-> 0]
    /\ failures = 0 /\ crashes = 0
    /\ sent = 0 /\ acked = {}
    /\ seen = [s \in Streams |-> {}]
    /\ lost = [s \in Streams |-> {}]
    /\ chatOwed = [s \in Streams |-> {}]
    /\ privateOwed = [s \in Streams |-> {}]
    /\ inbox = [p \in Players |-> <<>>]

----------------------------------------------------------------------------
(* The store                                                               *)

FileBeforeAppend(log) == messages   \* fault: written before the append

FileAfter(log) == log

(* ChatStore.Append: the log in memory keeps the message even when the     *)
(* file, replaced as a whole, could not be written.                        *)
Store(m, written) ==
    LET log == Latest(Append(messages, m), StoreLimit)
    IN  messages' = log /\ file' = IF written THEN FileAfter(log) ELSE file

(* The messages of msgs that are wanted, in their order: SelectSeq as a    *)
(* function, since the prover has no definition of SelectSeq.              *)
Chosen(msgs, wanted) ==
    LET chosen[i \in 0..Len(msgs)] ==
            IF i = 0 THEN <<>>
            ELSE IF msgs[i] \in wanted THEN Append(chosen[i - 1], msgs[i]) ELSE chosen[i - 1]
    IN  chosen[Len(msgs)]

Global == {m \in Message : m.to = "all"}
Concerning(p) == {m \in Message : p \in {m.from, m.to}}

(* ChatStore.Query for the global channel.                                 *)
GlobalHistory == Latest(Chosen(messages, Global), GlobalLimit)

(* ChatStore.Query for a player: global messages count towards the limit.  *)
Stored(p) == Latest(Chosen(messages, Global \cup Concerning(p)), PrivateLimit)

MemoryFirst(p) ==   \* fault: the stored messages come last
    Latest(privateHistory[p] \o Chosen(Stored(p), Message \ Global), PrivateLimit)

(* privateHistorySnapshot                                                  *)
PrivateHistory(p) ==
    Latest(Chosen(Stored(p), Message \ Global) \o privateHistory[p], PrivateLimit)

----------------------------------------------------------------------------
(* Delivery: a full channel loses the message                              *)

PushUnbounded(feeds, targets, m) ==   \* fault: as if a channel had no limit
    [s \in Streams |-> IF s \in targets THEN Append(feeds[s], m) ELSE feeds[s]]

Push(feeds, targets, m) ==
    [s \in Streams |-> IF s \in targets /\ Len(feeds[s]) < BufferSize
                       THEN Append(feeds[s], m) ELSE feeds[s]]

Overflow(feeds, targets, m) ==
    [s \in Streams |-> IF s \in targets /\ Len(feeds[s]) >= BufferSize
                       THEN lost[s] \cup {m.id} ELSE lost[s]]

New(from, to) == [id |-> sent + 1, from |-> from, to |-> to]

Number == sent < MaxMessages /\ sent' = sent + 1

----------------------------------------------------------------------------
(* Global chat: chat.Service.Broadcast                                     *)

Broadcast(p) ==
    LET m == New(p, "all")
    IN  /\ Number
        /\ Store(m, TRUE)
        /\ chatFeed' = Push(chatFeed, live, m)
        /\ lost' = Overflow(chatFeed, live, m)
        /\ acked' = acked \cup {m.id}
        /\ chatOwed' = [s \in Streams |-> IF includeChat[s] /\ at[s] # "left"
                                          THEN chatOwed[s] \cup {m.id} ELSE chatOwed[s]]
        /\ UNCHANGED <<privateHistory, live, tapped, privateFeed, at, includeChat, requests,
                       failures, crashes, seen, privateOwed, inbox>>

(* The sender's call is cancelled while the message is delivered: some     *)
(* subscribers have it, the sender gets an error.                          *)
BroadcastCancelled(p) ==
    LET m == New(p, "all")
    IN  /\ Number
        /\ failures < MaxFailures
        /\ failures' = failures + 1
        /\ Store(m, TRUE)
        /\ \E served \in SUBSET live : served # live /\ chatFeed' = Push(chatFeed, served, m)
        /\ UNCHANGED <<privateHistory, live, tapped, privateFeed, at, includeChat, requests,
                       crashes, acked, seen, lost, chatOwed, privateOwed, inbox>>

(* The log cannot be written: nobody is served and the sender gets an      *)
(* error, for a global message and for a private one alike.                *)
StoreFails(p, to) ==
    /\ Number
    /\ failures < MaxFailures
    /\ failures' = failures + 1
    /\ Store(New(p, to), FALSE)
    /\ UNCHANGED <<privateHistory, streamVars, crashes, acked, seen, lost, chatOwed,
                   privateOwed, inbox>>

----------------------------------------------------------------------------
(* Private messages                                                        *)

(* notifyPlayerLocked for each of the players.                             *)
Notify(players, m) ==
    LET targets == {s \in tapped : Owner[s] \in players}
    IN  /\ privateHistory' = [p \in Players |->
                                 IF p \in players
                                 THEN Latest(Append(privateHistory[p], m), PrivateLimit)
                                 ELSE privateHistory[p]]
        /\ privateFeed' = Push(privateFeed, targets, m)
        /\ lost' = Overflow(privateFeed, targets, m)
        /\ privateOwed' = [s \in Streams |->
                              IF includeChat[s] /\ at[s] # "left" /\ Owner[s] \in players
                              THEN privateOwed[s] \cup {m.id} ELSE privateOwed[s]]
        /\ inbox' = [p \in Players |-> IF p \in players THEN Append(inbox[p], m.id) ELSE inbox[p]]

(* SendChat to one player: stored, then shown to both sides.               *)
SendDirect(p, q) ==
    LET m == New(p, q)
    IN  /\ Number
        /\ Store(m, TRUE)
        /\ Notify({p, q}, m)
        /\ acked' = acked \cup {m.id}
        /\ UNCHANGED <<live, tapped, chatFeed, at, includeChat, requests, failures, crashes,
                       seen, chatOwed>>

(* NotifyPlayer by the intel engine: not stored.                           *)
NotifyPlayer(p) ==
    /\ Number
    /\ Notify({p}, New("market", p))
    /\ UNCHANGED <<messages, file, live, tapped, chatFeed, at, includeChat, requests,
                   failures, crashes, acked, seen, chatOwed>>

----------------------------------------------------------------------------
(* GetMarketStream                                                         *)

NotSubscribed(s) == live   \* fault: the channel is not registered

Subscribed(s) == live \cup {s}

(* The handler starts: it subscribes to the chat before anything is asked. *)
Open(s) ==
    /\ at[s] = "none"
    /\ at' = [at EXCEPT ![s] = "loop"]
    /\ live' = Subscribed(s)
    /\ UNCHANGED <<storeVars, tapped, chatFeed, privateFeed, includeChat, requests,
                   failures, crashes, history>>

(* Where a handler goes once the chat state is sent: it subscribes to the  *)
(* private feed with the first request.                                    *)
AfterHistory(s) == IF s \in tapped THEN "loop" ELSE "subscribe"

(* A request of the client, with or without chat.                          *)
Request(s, chat) ==
    /\ at[s] = "loop"
    /\ requests[s] < MaxRequests
    /\ requests' = [requests EXCEPT ![s] = requests[s] + 1]
    /\ includeChat' = [includeChat EXCEPT ![s] = chat]
    /\ at' = [at EXCEPT ![s] = IF chat THEN "global history" ELSE AfterHistory(s)]
    /\ chatOwed' = [chatOwed EXCEPT ![s] = IF chat THEN chatOwed[s] ELSE {}]
    /\ UNCHANGED <<storeVars, live, tapped, chatFeed, privateFeed, failures, crashes,
                   sent, acked, seen, lost, privateOwed, inbox>>

(* sendInitialChatState, in its two halves.                                *)
SendGlobalHistory(s) ==
    /\ at[s] = "global history"
    /\ at' = [at EXCEPT ![s] = "private history"]
    /\ seen' = [seen EXCEPT ![s] = seen[s] \cup Ids(GlobalHistory)]
    /\ UNCHANGED <<storeVars, live, tapped, chatFeed, privateFeed, includeChat, requests,
                   failures, crashes, sent, acked, lost, chatOwed, privateOwed, inbox>>

SendPrivateHistory(s) ==
    /\ at[s] = "private history"
    /\ at' = [at EXCEPT ![s] = AfterHistory(s)]
    /\ seen' = [seen EXCEPT ![s] = seen[s] \cup Ids(PrivateHistory(Owner[s]))]
    /\ UNCHANGED <<storeVars, live, tapped, chatFeed, privateFeed, includeChat, requests,
                   failures, crashes, sent, acked, lost, chatOwed, privateOwed, inbox>>

SubscribePrivate(s) ==
    /\ at[s] = "subscribe"
    /\ at' = [at EXCEPT ![s] = "loop"]
    /\ tapped' = tapped \cup {s}
    /\ UNCHANGED <<storeVars, live, chatFeed, privateFeed, includeChat, requests,
                   failures, crashes, history>>

(* A global message is taken from the channel; it is sent only if the      *)
(* client asked for chat.                                                  *)
ForwardChat(s) ==
    /\ at[s] = "loop"
    /\ chatFeed[s] # <<>>
    /\ chatFeed' = [chatFeed EXCEPT ![s] = Tail(chatFeed[s])]
    /\ seen' = IF includeChat[s] THEN [seen EXCEPT ![s] = seen[s] \cup {Head(chatFeed[s]).id}]
               ELSE seen
    /\ UNCHANGED <<storeVars, live, tapped, privateFeed, at, includeChat, requests,
                   failures, crashes, sent, acked, lost, chatOwed, privateOwed, inbox>>

ForwardPrivate(s) ==
    /\ at[s] = "loop"
    /\ privateFeed[s] # <<>>
    /\ privateFeed' = [privateFeed EXCEPT ![s] = Tail(privateFeed[s])]
    /\ seen' = [seen EXCEPT ![s] = seen[s] \cup {Head(privateFeed[s]).id}]
    /\ UNCHANGED <<storeVars, live, tapped, chatFeed, at, includeChat, requests,
                   failures, crashes, sent, acked, lost, chatOwed, privateOwed, inbox>>

(* The client goes; its subscriptions are removed by goroutines of their   *)
(* own, later.                                                             *)
Leave(s) ==
    /\ at[s] \notin {"none", "left"}
    /\ at' = [at EXCEPT ![s] = "left"]
    /\ UNCHANGED <<storeVars, live, tapped, chatFeed, privateFeed, includeChat, requests,
                   failures, crashes, history>>

Unsubscribe(s) ==
    /\ at[s] = "left"
    /\ \/ s \in live /\ live' = live \ {s} /\ UNCHANGED tapped
       \/ s \in tapped /\ tapped' = tapped \ {s} /\ UNCHANGED live
    /\ UNCHANGED <<storeVars, chatFeed, privateFeed, at, includeChat, requests,
                   failures, crashes, history>>

----------------------------------------------------------------------------
(* The process stops and starts again: streams end, the log is loaded.     *)
Crash ==
    /\ crashes < MaxCrashes
    /\ crashes' = crashes + 1
    /\ messages' = file
    /\ privateHistory' = [p \in Players |-> <<>>]
    /\ live' = {} /\ tapped' = {}
    /\ chatFeed' = [s \in Streams |-> <<>>]
    /\ privateFeed' = [s \in Streams |-> <<>>]
    /\ at' = [s \in Streams |-> IF at[s] = "none" THEN "none" ELSE "left"]
    /\ UNCHANGED <<file, includeChat, requests, failures, history>>

----------------------------------------------------------------------------

Sending ==
    \E p \in Players :
        \/ Broadcast(p) \/ BroadcastCancelled(p) \/ StoreFails(p, "all") \/ NotifyPlayer(p)
        \/ \E q \in Players : SendDirect(p, q) \/ StoreFails(p, q)

Handler(s) ==
    \/ Open(s)
    \/ \E chat \in BOOLEAN : Request(s, chat)
    \/ SendGlobalHistory(s) \/ SendPrivateHistory(s) \/ SubscribePrivate(s)
    \/ ForwardChat(s) \/ ForwardPrivate(s)
    \/ Leave(s) \/ Unsubscribe(s)

Next == Sending \/ (\E s \in Streams : Handler(s)) \/ Crash

Spec == Init /\ [][Next]_vars

----------------------------------------------------------------------------
(* Properties                                                              *)

(* Every variable has its type; histories, log and channels keep within    *)
(* their limits.                                                           *)
TypeOK ==
    /\ messages \in Seq(Message) /\ Len(messages) <= StoreLimit
    /\ file \in Seq(Message) /\ Len(file) <= StoreLimit
    /\ privateHistory \in [Players -> Seq(Message)]
    /\ \A p \in Players : Len(privateHistory[p]) <= PrivateLimit
    /\ live \subseteq Streams /\ tapped \subseteq Streams
    /\ chatFeed \in [Streams -> Seq(Message)] /\ privateFeed \in [Streams -> Seq(Message)]
    /\ \A s \in Streams : Len(chatFeed[s]) <= BufferSize /\ Len(privateFeed[s]) <= BufferSize
    /\ at \in [Streams -> {"none", "loop", "global history", "private history", "subscribe", "left"}]
    /\ includeChat \in [Streams -> BOOLEAN]
    /\ requests \in [Streams -> 0..MaxRequests]
    /\ sent \in 0..MaxMessages
    /\ acked \subseteq 1..sent

(* Between the history and the live channel no global message is missed:   *)
(* what was acknowledged since the client asked for chat was sent to it,   *)
(* waits in its channel, or found the channel full.                        *)
ChatReachesStream ==
    \A s \in Streams :
        at[s] = "loop" => chatOwed[s] \subseteq seen[s] \cup Ids(chatFeed[s]) \cup lost[s]

(* An acknowledged chat message is in the file until StoreLimit newer ones *)
(* have pushed it out, whatever writes failed and whenever the process     *)
(* stopped.                                                                *)
AcknowledgedSurvives ==
    \A id \in acked :
        id \in Ids(file) \/ (Len(file) = StoreLimit /\ \A newer \in Ids(file) : id < newer)

(* Who connects gets its backlog: of the last PrivateLimit private         *)
(* messages of a player, the history has every direct one that was         *)
(* acknowledged, as long as the process has run.  After a restart global   *)
(* messages can crowd them out. ("expected offline chat backlog":          *)
(* internal/grpcapi/integration_test.go:234 of the repository.)            *)
DirectBacklog ==
    crashes = 0 =>
        \A p \in Players :
            \A id \in ToSet(Latest(inbox[p], PrivateLimit)) \cap acked :
                id \in Ids(PrivateHistory(p))

(* A direct message sent after the client asked for chat reaches its       *)
(* stream ("did not receive direct message via private stream":            *)
(* internal/grpcapi/integration_test.go:185 of the repository).  It need   *)
(* not: the handler reads the history before it subscribes.                *)
PrivateReachesStream ==
    \A s \in Streams :
        at[s] = "loop" =>
            privateOwed[s] \cap acked \subseteq seen[s] \cup Ids(privateFeed[s]) \cup lost[s]
=============================================================================
