---------------------------- MODULE RealtimeHub ----------------------------
(***************************************************************************)
(* backend/nosd/pkg/sync/realtime: the hub goroutine, the goroutines of    *)
(* each WebSocket connection, and the three channels between them.         *)
(*                                                                         *)
(* Whatever runs under h.mu is one step, except unregisterClient, which    *)
(* asks for h.mu again while it holds it.  A connection is a new Client ID *)
(* each time.  Message contents, presence details and the drained part of  *)
(* client.Send (a send to a full buffer is dropped, never waited for) are  *)
(* left out; whether client.Send is closed is not.                         *)
(***************************************************************************)
EXTENDS Integers, FiniteSets

CONSTANTS Clients,      \* connections (bound)
          Users,
          Channels,     \* subscription channels
          Files,        \* shareID:path keys of the lock table
          Nobody, NoLock,
          UserOf(_),
          ShareChannel(_),  \* "share:" + the file's share
          MaxLease,     \* longest lock duration, in ticks (bound)
          RegisterCap,  \* capacity of h.register and of h.unregister, 256
          BroadcastCap  \* capacity of h.broadcast, 1024

ASSUME HubAssumption ==
  /\ \A c \in Clients : UserOf(c) \in Users
  /\ \A f \in Files : ShareChannel(f) \in Channels
  /\ Nobody \notin Users
  /\ MaxLease \in Nat /\ BroadcastCap \in Nat

VARIABLES
  hub,           \* Run: its select loop, stuck in unregisterClient, returned
  stopping,      \* h.ctx is cancelled
  down,          \* nosd died of a panic
  clients,       \* keys of h.clients, of h.presence and, by user, h.userClients
  channels,      \* h.channels: the subscribers of each channel
  subs,          \* client.Subscriptions
  open,          \* client.Send is not closed
  locks,         \* h.fileLocks: who took the lock, and the time it has left
  registering,   \* contents of h.register
  unregistering, \* contents of h.unregister
  broadcast,     \* length of h.broadcast
  pump,          \* readPump of each connection
  replying,      \* the handler is about to send its reply to client.Send
  owed,          \* channels the handler has still to broadcast to
  confirm        \* sendConnectionConfirmation, on the HTTP goroutine

handler == <<pump, replying, owed>>
queues == <<registering, unregistering, broadcast>>
tables == <<clients, channels, subs, locks>>
hubVars == <<hub, stopping, down, open, confirm, handler, queues, tables>>

Locks == {NoLock} \cup [by : Clients, left : 0..MaxLease]

HubTypeOK ==
  /\ hub \in {"loop", "leaving", "stopped"}
  /\ stopping \in BOOLEAN /\ down \in BOOLEAN
  /\ clients \in SUBSET Clients
  /\ channels \in [Channels -> SUBSET Clients]
  /\ subs \in [Clients -> SUBSET Channels]
  /\ open \in [Clients -> BOOLEAN]
  /\ locks \in [Files -> Locks]
  /\ registering \in SUBSET Clients
  /\ unregistering \in SUBSET Clients
  /\ broadcast \in 0..BroadcastCap
  /\ pump \in [Clients -> {"none", "reading", "leaving", "gone"}]
  /\ replying \in [Clients -> BOOLEAN]
  /\ owed \in [Clients -> SUBSET Channels]
  /\ confirm \in [Clients -> {"none", "pending", "sent", "panicked"}]

HubInit ==
  /\ hub = "loop" /\ stopping = FALSE /\ down = FALSE
  /\ clients = {}
  /\ channels = [ch \in Channels |-> {}]
  /\ subs = [c \in Clients |-> {}]
  /\ open = [c \in Clients |-> TRUE]
  /\ locks = [f \in Files |-> NoLock]
  /\ registering = {} /\ unregistering = {} /\ broadcast = 0
  /\ pump = [c \in Clients |-> "none"]
  /\ replying = [c \in Clients |-> FALSE]
  /\ owed = [c \in Clients |-> {}]
  /\ confirm = [c \in Clients |-> "none"]

------------------------------------------------------------------------------
(* One connection: ServeHTTP, then readPump and its handlers.              *)

\* h.mu can be had: only unregisterClient keeps it beyond one step.
MuFree == hub # "leaving"

\* ServeHTTP: h.register <- client, which waits while the channel is full,
\* then the pumps start.  The channels keep the order of their senders; the
\* sets here forget it, for connections are independent.
Connect(c) ==
  /\ ~down
  /\ pump[c] = "none"
  /\ Cardinality(registering) < RegisterCap
  /\ registering' = registering \cup {c}
  /\ pump' = [pump EXCEPT ![c] = "reading"]
  /\ confirm' = [confirm EXCEPT ![c] = "pending"]
  /\ UNCHANGED <<hub, stopping, down, open, replying, owed, unregistering,
                 broadcast, tables>>

\* sendConnectionConfirmation.  A send on a closed channel panics; net/http
\* recovers a panic of its own goroutine.
Confirm(c) ==
  /\ ~down
  /\ confirm[c] = "pending"
  /\ confirm' = [confirm EXCEPT ![c] = IF open[c] THEN "sent" ELSE "panicked"]
  /\ UNCHANGED <<hub, stopping, down, open, handler, queues, tables>>

\* readPump is in ReadMessage.
Reading(c) == ~down /\ pump[c] = "reading" /\ ~replying[c] /\ owed[c] = {}

\* What a handler does after its hub call: reply to the client if r, then
\* broadcast to the channels of S.
Then(c, r, S) ==
  /\ replying' = [replying EXCEPT ![c] = r]
  /\ owed' = [owed EXCEPT ![c] = S]
  /\ UNCHANGED <<hub, stopping, down, open, confirm, pump, queues>>

\* Every operation on the hub refuses a client it does not know: not yet
\* registered, or dropped by shutdown.
Refused(c) ==
  /\ Reading(c) /\ MuFree
  /\ c \notin clients
  /\ Then(c, TRUE, {})
  /\ UNCHANGED tables

\* Pings, presence lists and messages that do not parse are only answered.
Ping(c) == /\ Reading(c)
           /\ Then(c, TRUE, {})
           /\ UNCHANGED tables

\* Cursor and edit messages go to the channel they name.
Relay(c, ch) == /\ Reading(c)
                /\ Then(c, FALSE, {ch})
                /\ UNCHANGED tables

\* handlePresenceUpdate broadcasts to every channel of the client.
UpdatePresence(c) ==
  /\ Reading(c) /\ MuFree
  /\ c \in clients
  /\ Then(c, FALSE, subs[c])
  /\ UNCHANGED tables

Subscribe(c, ch) ==
  /\ Reading(c) /\ MuFree
  /\ c \in clients
  /\ channels' = [channels EXCEPT ![ch] = @ \cup {c}]
  /\ subs' = [subs EXCEPT ![c] = @ \cup {ch}]
  /\ Then(c, TRUE, {ch})
  /\ UNCHANGED <<clients, locks>>

Unsubscribe(c, ch) ==
  /\ Reading(c) /\ MuFree
  /\ c \in clients
  /\ channels' = [channels EXCEPT ![ch] = @ \ {c}]
  /\ subs' = [subs EXCEPT ![c] = @ \ {ch}]
  /\ Then(c, FALSE, {ch})
  /\ UNCHANGED <<clients, locks>>

\* Somebody holds a lock on f that has not run out.
Live(f) == locks[f] # NoLock /\ locks[f].left > 0

\* Mutant: a live lock is not looked at.
LockFile_IgnoresLease(c, f, d) ==
  /\ Reading(c) /\ MuFree
  /\ c \in clients
  /\ locks' = [locks EXCEPT ![f] = [by |-> c, left |-> d]]
  /\ Then(c, TRUE, {ShareChannel(f)})
  /\ UNCHANGED <<clients, channels, subs>>

\* LockFile for d ticks (0 for the negative durations a client may ask for).
\* The lock table is keyed by file and checked by user: a second device of
\* the same user resets the time the first one has left.
LockFile(c, f, d) ==
  /\ Reading(c) /\ MuFree
  /\ c \in clients
  /\ \/ /\ ~Live(f)
        /\ locks' = [locks EXCEPT ![f] = [by |-> c, left |-> d]]
        /\ Then(c, TRUE, {ShareChannel(f)})
     \/ /\ Live(f) /\ UserOf(locks[f].by) = UserOf(c)
        /\ locks' = [locks EXCEPT ![f] = [by |-> locks[f].by, left |-> d]]
        /\ Then(c, TRUE, {ShareChannel(f)})
     \/ /\ Live(f) /\ UserOf(locks[f].by) # UserOf(c)
        /\ Then(c, TRUE, {})
        /\ UNCHANGED locks
  /\ UNCHANGED <<clients, channels, subs>>

\* The entry of f is another user's, even if it has run out.
Foreign(c, f) == locks[f] # NoLock /\ UserOf(locks[f].by) # UserOf(c)

\* UnlockFile, by any device of the user.
UnlockFile(c, f) ==
  /\ Reading(c) /\ MuFree
  /\ c \in clients
  /\ \/ /\ ~Foreign(c, f)
        /\ locks' = [locks EXCEPT ![f] = NoLock]
        /\ Then(c, TRUE, {ShareChannel(f)})
     \/ /\ Foreign(c, f)
        /\ Then(c, TRUE, {})
        /\ UNCHANGED locks
  /\ UNCHANGED <<clients, channels, subs>>

\* sendMessage on the readPump goroutine, which nothing recovers.
Reply(c) ==
  /\ ~down
  /\ replying[c]
  /\ replying' = [replying EXCEPT ![c] = FALSE]
  /\ down' = ~open[c]
  /\ UNCHANGED <<hub, stopping, open, confirm, pump, owed, queues, tables>>

\* Broadcast: h.broadcast <- msg waits while the channel is full.
Notify(c, ch) ==
  /\ ~down
  /\ pump[c] = "reading" /\ ~replying[c]
  /\ ch \in owed[c]
  /\ broadcast < BroadcastCap
  /\ broadcast' = broadcast + 1
  /\ owed' = [owed EXCEPT ![c] = @ \ {ch}]
  /\ UNCHANGED <<hub, stopping, down, open, confirm, pump, replying,
                 registering, unregistering, tables>>

\* ReadMessage fails: the peer left, timed out or was closed by writePump.
Disconnect(c) ==
  /\ Reading(c)
  /\ pump' = [pump EXCEPT ![c] = "leaving"]
  /\ UNCHANGED <<hub, stopping, down, open, confirm, replying, owed, queues, tables>>

\* UnregisterClient: h.unregister <- client waits while the channel is full.
Leave(c) ==
  /\ ~down
  /\ pump[c] = "leaving"
  /\ Cardinality(unregistering) < RegisterCap
  /\ unregistering' = unregistering \cup {c}
  /\ pump' = [pump EXCEPT ![c] = "gone"]
  /\ UNCHANGED <<hub, stopping, down, open, confirm, replying, owed,
                 registering, broadcast, tables>>

------------------------------------------------------------------------------
(* The hub goroutine.  Its select takes any case that is ready.            *)

InLoop == ~down /\ hub = "loop"

HubRegister(c) ==
  /\ InLoop
  /\ c \in registering
  /\ registering' = registering \ {c}
  /\ clients' = clients \cup {c}
  /\ UNCHANGED <<hub, stopping, down, open, confirm, handler, unregistering,
                 broadcast, channels, subs, locks>>

\* Mutant: a client that is not in h.clients is closed as well.
HubUnregister_ClosesUnknown(c) ==
  /\ InLoop
  /\ c \in unregistering
  /\ unregistering' = unregistering \ {c}
  /\ clients' = clients \ {c}
  /\ channels' = [ch \in Channels |-> channels[ch] \ {c}]
  /\ open' = [open EXCEPT ![c] = FALSE]
  /\ hub' = IF c \in clients /\ subs[c] # {} THEN "leaving" ELSE "loop"
  /\ UNCHANGED <<stopping, down, confirm, handler, registering, broadcast,
                 subs, locks>>

\* unregisterClient.  releaseClientLocks looks the client up in h.clients,
\* where it no longer is, and so releases nothing.  broadcastPresenceLeave
\* calls broadcastMessage for each channel of the client, which asks for
\* h.mu.RLock while this goroutine holds h.mu.Lock: it never returns.
HubUnregister(c) ==
  /\ InLoop
  /\ c \in unregistering
  /\ unregistering' = unregistering \ {c}
  /\ \/ /\ c \notin clients
        /\ UNCHANGED <<clients, channels, open, hub>>
     \/ /\ c \in clients
        /\ clients' = clients \ {c}
        /\ channels' = [ch \in Channels |->
                          IF ch \in subs[c] THEN channels[ch] \ {c} ELSE channels[ch]]
        /\ open' = [open EXCEPT ![c] = FALSE]
        /\ hub' = IF subs[c] = {} THEN "loop" ELSE "leaving"
  /\ UNCHANGED <<stopping, down, confirm, handler, registering, broadcast,
                 subs, locks>>

\* Mutant: the select listens to h.broadcast only while anyone is subscribed.
HubBroadcast_OnlyWithSubscribers ==
  /\ InLoop
  /\ broadcast > 0 /\ \E ch \in Channels : channels[ch] # {}
  /\ broadcast' = broadcast - 1
  /\ UNCHANGED <<hub, stopping, down, open, confirm, handler, registering,
                 unregistering, tables>>

\* broadcastMessage hands the message to the subscribers' Send buffers.
HubBroadcast ==
  /\ InLoop
  /\ broadcast > 0
  /\ broadcast' = broadcast - 1
  /\ UNCHANGED <<hub, stopping, down, open, confirm, handler, registering,
                 unregistering, tables>>

\* The ticker: cleanupExpiredLocks (updateIdlePresence changes no table).
HubTicker ==
  /\ InLoop
  /\ locks' = [f \in Files |-> IF Live(f) THEN locks[f] ELSE NoLock]
  /\ UNCHANGED <<hub, stopping, down, open, confirm, handler, queues, clients,
                 channels, subs>>

\* Stop, called by ConnectionManager.Shutdown.
Stop ==
  /\ ~down
  /\ stopping' = TRUE
  /\ UNCHANGED <<hub, down, open, confirm, handler, queues, tables>>

\* shutdown: every client known to the hub is closed and forgotten.
HubShutdown ==
  /\ InLoop
  /\ stopping
  /\ hub' = "stopped"
  /\ open' = [c \in Clients |-> c \notin clients /\ open[c]]
  /\ clients' = {}
  /\ channels' = [ch \in Channels |-> {}]
  /\ locks' = [f \in Files |-> NoLock]
  /\ UNCHANGED <<stopping, down, confirm, handler, queues, subs>>

\* Time passes for every lock.
Tick ==
  /\ ~down
  /\ \E f \in Files : Live(f)
  /\ locks' = [f \in Files |->
                 IF Live(f) THEN [by |-> locks[f].by, left |-> locks[f].left - 1]
                 ELSE locks[f]]
  /\ UNCHANGED <<hub, stopping, down, open, confirm, handler, queues, clients,
                 channels, subs>>

------------------------------------------------------------------------------
ClientStep(c) ==
  \/ Connect(c) \/ Confirm(c) \/ Disconnect(c) \/ Leave(c)
  \/ Refused(c) \/ Ping(c) \/ UpdatePresence(c) \/ Reply(c)
  \/ \E ch \in Channels :
        Relay(c, ch) \/ Subscribe(c, ch) \/ Unsubscribe(c, ch) \/ Notify(c, ch)
  \/ \E f \in Files : UnlockFile(c, f)
  \/ \E f \in Files, d \in 0..MaxLease : LockFile(c, f, d)

HubStep == \/ \E c \in Clients : HubRegister(c) \/ HubUnregister(c)
           \/ HubBroadcast \/ HubTicker \/ HubShutdown

HubNext == (\E c \in Clients : ClientStep(c)) \/ HubStep \/ Stop \/ Tick

HubSpec == HubInit /\ [][HubNext]_hubVars

\* The hub goroutine runs and its select is random, so a case that stays
\* ready is taken; Go serves the senders blocked on a channel in turn; the
\* handlers end by themselves.  Nothing makes a peer connect, speak or leave.
Fairness ==
  /\ \A c \in Clients :
       /\ WF_hubVars(HubRegister(c)) /\ WF_hubVars(HubUnregister(c))
       /\ WF_hubVars(Confirm(c)) /\ WF_hubVars(Reply(c))
       /\ SF_hubVars(Leave(c))
       /\ \A ch \in Channels : SF_hubVars(Notify(c, ch))
  /\ WF_hubVars(HubBroadcast) /\ WF_hubVars(HubShutdown)

HubFairSpec == HubSpec /\ Fairness

------------------------------------------------------------------------------
\* The two sides of a subscription agree: a channel lists exactly the known
\* clients that are subscribed to it, however registrations, disconnections
\* and subscriptions interleave.  (Subscribe, Unsubscribe, unregisterClient
\* and shutdown each keep h.channels and client.Subscriptions.)
SubscriptionsAgree ==
  \A c \in Clients, ch \in Channels :
    c \in channels[ch] <=> c \in clients /\ ch \in subs[c]

\* A client the hub knows has an open Send channel, so that neither
\* broadcastMessage nor a second close can panic, even when a client leaves
\* before it was registered or after the shutdown.
KnownAreOpen == \A c \in clients : open[c]

\* The tables of the hub agree with each other and with the connections.
TablesAgree == SubscriptionsAgree /\ KnownAreOpen

\* For the proofs: a connection that is new, or queued for registration, has
\* left no trace in the tables of the hub.
NewAreFresh ==
  /\ \A c \in Clients : pump[c] = "none" => c \notin registering
  /\ \A c \in Clients : pump[c] = "none" \/ c \in registering
       => c \notin clients /\ open[c] /\ subs[c] = {}

HubInv == HubTypeOK /\ SubscriptionsAgree /\ KnownAreOpen /\ NewAreFresh

\* The file locks are leases: no step takes a file from the user who holds it
\* and gives it to another (LockFile, UnlockFile, cleanupExpiredLocks).
holderOf == [f \in Files |-> IF Live(f) THEN UserOf(locks[f].by) ELSE Nobody]

Lease == INSTANCE FileLease WITH holder <- holderOf

ImplementsFileLease == Lease!Spec

\* Goroutines blocked on the hub's channels get through as long as the hub
\* is in its loop: nothing but its own lock can stop it for good.
SendersGoOn ==
  \A c \in Clients :
    owed[c] # {} \/ pump[c] = "leaving"
      ~> (owed[c] = {} /\ pump[c] # "leaving") \/ down \/ hub # "loop"
==============================================================================
