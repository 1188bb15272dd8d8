-------------------------------- MODULE Hub --------------------------------
(***************************************************************************)
(* The connection lifecycle of the chat hub: one ReadPump and one          *)
(* WritePump goroutine per websocket, the Run goroutine that owns the      *)
(* client table, the three channels between them, the takeover of a        *)
(* session by a new login, and the shutdown of the server.                 *)
(*                                                                         *)
(* What travels in a send buffer is left out, except the "kicked" notice:  *)
(* a buffer is the number of messages queued in it.  A panic ("send on     *)
(* closed channel", "close of closed channel") kills the process: crash    *)
(* then names the kind of goroutine that panicked and nothing moves again. *)
(***************************************************************************)
EXTENDS Naturals, Sequences, FiniteSets

CONSTANTS
  Clients,     \* connections (*Client objects)
  Users,       \* usernames a join can carry
  NoName,      \* the username of a connection that has not joined
  Torn,        \* what a racing reader sees while a username is being written
  ChanCap,     \* capacity of register, unregister and broadcast (code: 256)
  SendCap,     \* capacity of Client.send (code: 256)
  MaxConns,    \* MaxConnections (code: 100)
  MaxJoins,    \* bound: join frames one connection gets accepted
  Chatty,      \* connections whose peer sends more than join frames
  MayShutdown  \* whether the process receives SIGTERM

ASSUME HubAssumption ==
  /\ IsFiniteSet(Clients)
  /\ NoName \notin Users \cup Clients /\ Torn \notin Users /\ NoName # Torn
  /\ ChanCap \in Nat \ {0} /\ SendCap \in Nat \ {0}
  /\ MaxConns \in Nat /\ MaxJoins \in Nat
  /\ Chatty \subseteq Clients
  /\ MayShutdown \in BOOLEAN

VARIABLES
  clients,      \* h.clients
  registerQ,    \* h.register, a buffered channel
  unregisterQ,  \* h.unregister
  broadcastQ,   \* number of messages in h.broadcast
  spawned,      \* clients with a goroutine "h.unregister <- c" under way
  kick,         \* the takeover Run is in the middle of, holding h.mu
  running,      \* Run has not returned
  phase,        \* progress of main's shutdown sequence
  name,         \* Client.username
  open,         \* Client.send has not been closed
  buf,          \* number of messages in Client.send
  conn,         \* the websocket
  reader,       \* where ReadPump is
  writer,       \* where WritePump is
  joins,        \* join frames accepted on the connection
  told,         \* fate of the "kicked" notice
  overtaken,    \* clients unregistered while still in registerQ
  crash         \* who panicked

pumps == <<reader, writer, conn>>
chans == <<registerQ, unregisterQ, broadcastQ, spawned>>
vars == <<clients, chans, kick, running, phase, name, open, buf, pumps, joins,
          told, overtaken, crash>>

NoKick == [old |-> NoName, new |-> NoName]

ReaderStates == {"none", "reading", "naming", "registering", "greeting",
                 "publishing", "leaving", "done"}
WriterStates == {"none", "running", "leaving", "done"}

TypeOK ==
  /\ clients \in SUBSET Clients
  /\ registerQ \in Seq(Clients) /\ unregisterQ \in Seq(Clients)
  /\ broadcastQ \in 0..ChanCap
  /\ spawned \in SUBSET Clients
  /\ kick \in [old : Clients, new : Clients] \cup {NoKick}
  /\ running \in BOOLEAN
  /\ phase \in {"serving", "draining", "stopped", "cleared"}
  /\ name \in [Clients -> Users \cup {NoName, Torn}]
  /\ open \in [Clients -> BOOLEAN]
  /\ buf \in [Clients -> 0..SendCap]
  /\ conn \in [Clients -> {"none", "open", "closed"}]
  /\ reader \in [Clients -> ReaderStates]
  /\ writer \in [Clients -> WriterStates]
  /\ joins \in [Clients -> 0..MaxJoins]
  /\ told \in [Clients -> {"no", "queued", "told", "lost"}]
  /\ overtaken \in SUBSET Clients
  /\ crash \in {"no", "loop", "guarded", "handler", "main"}

Init ==
  /\ clients = {} /\ spawned = {} /\ overtaken = {}
  /\ registerQ = <<>> /\ unregisterQ = <<>> /\ broadcastQ = 0
  /\ kick = NoKick /\ running = TRUE /\ phase = "serving" /\ crash = "no"
  /\ name = [c \in Clients |-> NoName]
  /\ open = [c \in Clients |-> TRUE]
  /\ buf = [c \in Clients |-> 0]
  /\ conn = [c \in Clients |-> "none"]
  /\ reader = [c \in Clients |-> "none"]
  /\ writer = [c \in Clients |-> "none"]
  /\ joins = [c \in Clients |-> 0]
  /\ told = [c \in Clients |-> "no"]

-----------------------------------------------------------------------------
(* Helpers                                                                 *)

Elems(q) == {q[i] : i \in 1..Len(q)}

AtMost(n, cap) == IF n < cap THEN n ELSE cap

\* n non-blocking sends ("select { case c.send <- m: default: }") to each
\* connection of the set: a full buffer drops the message.
Offered(to, n) ==
  [c \in Clients |-> IF c \in to THEN AtMost(buf[c] + n, SendCap) ELSE buf[c]]

\* Such sends by a goroutine of kind `who`: the runtime panics when one of the
\* channels is closed, however full it is.
TrySend(to, n, who) ==
  IF \A c \in to : open[c]
  THEN buf' = Offered(to, n) /\ UNCHANGED crash
  ELSE crash' = who /\ UNCHANGED buf

\* The process has not died of a panic: a conjunct of every action.
Alive == crash = "no"

\* h.mu is free to be taken: Run holds it from the removal of the old session
\* to the entry of the new one.
LockFree == kick = NoKick

\* n non-blocking sends to the broadcast channel.
Published(n) == AtMost(broadcastQ + n, ChanCap)

-----------------------------------------------------------------------------
(* The connection: HTTP upgrade, ReadPump, WritePump                       *)

\* GET /ws: refused while the hub is full, else both pumps start.
HandleWebSocket(c) ==
  /\ Alive
  /\ phase = "serving" /\ LockFree
  /\ reader[c] = "none"
  /\ Cardinality(clients) < MaxConns
  /\ reader' = [reader EXCEPT ![c] = "reading"]
  /\ writer' = [writer EXCEPT ![c] = "running"]
  /\ conn' = [conn EXCEPT ![c] = "open"]
  /\ UNCHANGED <<clients, chans, kick, running, phase, name, open, buf, joins,
                 told, overtaken, crash>>

\* The peer goes away, or the network does.
PeerGone(c) ==
  /\ Alive
  /\ conn[c] = "open"
  /\ conn' = [conn EXCEPT ![c] = "closed"]
  /\ UNCHANGED <<clients, chans, kick, running, phase, name, open, buf, reader,
                 writer, joins, told, overtaken, crash>>

ReaderStep(c, from, to) ==
  /\ reader[c] = from
  /\ reader' = [reader EXCEPT ![c] = to]

\* A join frame passes validation and authentication; the assignment of
\* c.username races with every goroutine that reads it.  Frames buffered before
\* the socket was closed are still handled.
BeginJoin(c) ==
  /\ Alive
  /\ joins[c] < MaxJoins
  /\ ReaderStep(c, "reading", "naming")
  /\ joins' = [joins EXCEPT ![c] = @ + 1]
  /\ name' = [name EXCEPT ![c] = Torn]
  /\ UNCHANGED <<clients, chans, kick, running, phase, open, buf, conn, writer,
                 told, overtaken, crash>>

SetUsername(c, u) ==
  /\ Alive
  /\ ReaderStep(c, "naming", "registering")
  /\ name' = [name EXCEPT ![c] = u]
  /\ UNCHANGED <<clients, chans, kick, running, phase, open, buf, conn, writer,
                 joins, told, overtaken, crash>>

\* c.hub.register <- c, which blocks while the channel is full.
Register(c) ==
  /\ Alive
  /\ Len(registerQ) < ChanCap
  /\ ReaderStep(c, "registering", "greeting")
  /\ registerQ' = Append(registerQ, c)
  /\ UNCHANGED <<clients, unregisterQ, broadcastQ, spawned, kick, running,
                 phase, name, open, buf, conn, writer, joins, told, overtaken,
                 crash>>

\* A handler answers on its own connection (history, room list, preferences,
\* errors, profiles, ...) without asking whether the hub has closed the channel.
DirectSend(c) ==
  /\ Alive
  /\ reader[c] = "greeting" \/ (reader[c] = "reading" /\ c \in Chatty)
  /\ TrySend({c}, 1, "handler")
  /\ UNCHANGED <<clients, chans, kick, running, phase, name, open, pumps, joins,
                 told, overtaken>>

\* The end of handleJoin: user_joined and user_status on the broadcast channel.
Announce(c) ==
  /\ Alive
  /\ LockFree
  /\ ReaderStep(c, "greeting", "reading")
  /\ broadcastQ' = Published(2)
  /\ UNCHANGED <<clients, registerQ, unregisterQ, spawned, kick, running, phase,
                 name, open, buf, conn, writer, joins, told, overtaken, crash>>

\* A handler publishes on the broadcast channel without blocking.
Publish(c) ==
  /\ Alive
  /\ c \in Chatty /\ reader[c] = "reading" /\ name[c] # NoName
  /\ broadcastQ' = Published(1)
  /\ UNCHANGED <<clients, registerQ, unregisterQ, spawned, kick, running, phase,
                 name, open, buf, pumps, joins, told, overtaken, crash>>

\* The custom emoji handlers publish with a blocking send.
BeginPublishBlocking(c) ==
  /\ Alive
  /\ c \in Chatty /\ name[c] # NoName
  /\ ReaderStep(c, "reading", "publishing")
  /\ UNCHANGED <<clients, chans, kick, running, phase, name, open, buf, conn,
                 writer, joins, told, overtaken, crash>>

PublishBlocking(c) ==
  /\ Alive
  /\ broadcastQ < ChanCap
  /\ ReaderStep(c, "publishing", "reading")
  /\ broadcastQ' = broadcastQ + 1
  /\ UNCHANGED <<clients, registerQ, unregisterQ, spawned, kick, running, phase,
                 name, open, buf, conn, writer, joins, told, overtaken, crash>>

\* Any goroutine sends to registered clients while it holds h.mu for reading:
\* room messages, typing, mentions, stream chunks, private replies.
GuardedSend(to) ==
  /\ Alive
  /\ Chatty # {} /\ LockFree
  /\ to # {} /\ to \subseteq clients
  /\ TrySend(to, 1, "guarded")
  /\ UNCHANGED <<clients, chans, kick, running, phase, name, open, pumps, joins,
                 told, overtaken>>

\* ReadMessage fails.
ReadError(c) ==
  /\ Alive
  /\ ReaderStep(c, "reading", "leaving")
  /\ UNCHANGED <<clients, chans, kick, running, phase, name, open, buf, conn,
                 writer, joins, told, overtaken, crash>>

\* h.unregister after a non-blocking send of c.
OfferedToUnregister(c) ==
  IF Len(unregisterQ) < ChanCap THEN Append(unregisterQ, c) ELSE unregisterQ

ReaderLeaves(c, queue, socket) ==
  /\ Alive
  /\ ReaderStep(c, "leaving", "done")
  /\ unregisterQ' = queue
  /\ conn' = [conn EXCEPT ![c] = socket]
  /\ UNCHANGED <<clients, registerQ, broadcastQ, spawned, kick, running, phase,
                 name, open, buf, writer, joins, told, overtaken, crash>>

\* Mutants: the unregister does not block; the socket stays open.
ReaderExitNonBlocking(c) == ReaderLeaves(c, OfferedToUnregister(c), "closed")
ReaderExitKeepsSocket(c) ==
  Len(unregisterQ) < ChanCap /\ ReaderLeaves(c, Append(unregisterQ, c), conn[c])

\* The deferred end of ReadPump: a blocking unregister, then close the socket.
ReaderExit(c) ==
  Len(unregisterQ) < ChanCap /\ ReaderLeaves(c, Append(unregisterQ, c), "closed")

\* WritePump writes the next message to the socket.
WriteMessage(c) ==
  /\ Alive
  /\ writer[c] = "running" /\ conn[c] = "open" /\ buf[c] > 0
  /\ buf' = [buf EXCEPT ![c] = @ - 1]
  /\ told' = [told EXCEPT ![c] =
                IF @ = "queued" /\ buf[c] = 1 THEN "told" ELSE @]
  /\ UNCHANGED <<clients, chans, kick, running, phase, name, open, pumps, joins,
                 overtaken, crash>>

\* WritePump stops: a write or a ping failed, or the hub closed the channel and
\* it is drained.
WriterStop(c) ==
  /\ Alive
  /\ writer[c] = "running"
  /\ writer' = [writer EXCEPT ![c] = "leaving"]
  /\ UNCHANGED <<clients, chans, kick, running, phase, name, open, buf, conn,
                 reader, joins, told, overtaken, crash>>

MustStopWriting(c) == conn[c] = "closed" \/ (~open[c] /\ buf[c] = 0)

\* The deferred end of WritePump: an unregister that does not block, then close
\* the socket.
WriterExit(c) ==
  /\ Alive
  /\ writer[c] = "leaving"
  /\ writer' = [writer EXCEPT ![c] = "done"]
  /\ unregisterQ' = OfferedToUnregister(c)
  /\ conn' = [conn EXCEPT ![c] = "closed"]
  /\ UNCHANGED <<clients, registerQ, broadcastQ, spawned, kick, running, phase,
                 name, open, buf, reader, joins, told, overtaken, crash>>

\* Nothing refers to the object any more: its identity stands for the next
\* connection.
Reuse(c) ==
  /\ Alive
  /\ reader[c] = "done" /\ writer[c] = "done"
  /\ c \notin clients \cup spawned \cup Elems(registerQ) \cup Elems(unregisterQ)
  /\ c \notin {kick.old, kick.new}
  /\ name' = [name EXCEPT ![c] = NoName]
  /\ open' = [open EXCEPT ![c] = TRUE]
  /\ buf' = [buf EXCEPT ![c] = 0]
  /\ conn' = [conn EXCEPT ![c] = "none"]
  /\ reader' = [reader EXCEPT ![c] = "none"]
  /\ writer' = [writer EXCEPT ![c] = "none"]
  /\ joins' = [joins EXCEPT ![c] = 0]
  /\ told' = [told EXCEPT ![c] = "no"]
  /\ overtaken' = overtaken \ {c}
  /\ UNCHANGED <<clients, chans, kick, running, phase, crash>>

-----------------------------------------------------------------------------
(* The Run goroutine.  Its select takes any branch that is ready.          *)

\* Mutants: sessions whose ReadPump has ended are overlooked; names are not
\* compared.
LiveRivals(c) ==
  {d \in clients \ {c} : name[d] = name[c] /\ name[c] # Torn /\ reader[d] # "done"}
AnyRivals(c) == clients \ {c}

\* delete(h.clients, c)
Without(c) == clients \ {c}

\* A registered session the newcomer's login takes over: the names are compared
\* with ==, and a name that is being rewritten may or may not compare equal.
Rivals(c) == {d \in clients \ {c} : name[d] = name[c] /\ name[c] # Torn}
MaybeRivals(c) ==
  {d \in clients \ {c} : name[d] = name[c] \/ Torn \in {name[c], name[d]}}

\* case client := <-h.register, no rival found: the client is entered.
HubEnter ==
  /\ Alive
  /\ running /\ LockFree /\ registerQ # <<>>
  /\ Rivals(Head(registerQ)) = {}
  /\ registerQ' = Tail(registerQ)
  /\ clients' = clients \cup {Head(registerQ)}
  /\ UNCHANGED <<unregisterQ, broadcastQ, spawned, kick, running, phase, name,
                 open, buf, pumps, joins, told, overtaken, crash>>

\* case client := <-h.register, a rival found: it is offered the "kicked" notice,
\* removed, and its channel closed.  The loop breaks after one rival.
HubTakeover(old) ==
  /\ Alive
  /\ running /\ LockFree /\ registerQ # <<>>
  /\ old \in MaybeRivals(Head(registerQ))
  /\ registerQ' = Tail(registerQ)
  /\ IF ~open[old]
     THEN /\ crash' = "loop"
          /\ UNCHANGED <<clients, kick, open, buf, told>>
     ELSE /\ kick' = [old |-> old, new |-> Head(registerQ)]
          /\ clients' = Without(old)
          /\ open' = [open EXCEPT ![old] = FALSE]
          /\ buf' = Offered({old}, 1)
          /\ told' = [told EXCEPT ![old] =
                        IF buf[old] < SendCap THEN "queued" ELSE "lost"]
          /\ UNCHANGED crash
  /\ UNCHANGED <<unregisterQ, broadcastQ, spawned, running, phase, name, pumps,
                 joins, overtaken>>

\* ... then its socket is closed (a notice still queued can no longer be
\* written) and the newcomer entered.
HubFinishTakeover ==
  /\ Alive
  /\ running /\ ~LockFree
  /\ kick' = NoKick
  /\ clients' = clients \cup {kick.new}
  /\ conn' = [conn EXCEPT ![kick.old] = "closed"]
  /\ told' = [told EXCEPT ![kick.old] = IF @ = "queued" THEN "lost" ELSE @]
  /\ UNCHANGED <<chans, running, phase, name, open, buf, reader, writer, joins,
                 overtaken, crash>>

\* case client := <-h.unregister: user_left (when the connection had joined)
\* and user_status go to everyone left, whether or not the client was there.  The lock
\* is given up between the removal and the fan-outs (450, 468-494); one step here, since
\* only Run and what holds the lock change the table and close channels.
HubUnregister ==
  LET c == Head(unregisterQ)
      rest == Without(c)
  IN
  /\ Alive
  /\ running /\ LockFree /\ unregisterQ # <<>>
  /\ unregisterQ' = Tail(unregisterQ)
  /\ clients' = rest
  /\ open' = [open EXCEPT ![c] = @ /\ c \notin clients]
  /\ overtaken' = IF c \in Elems(registerQ) THEN overtaken \cup {c} ELSE overtaken
  /\ IF c \in clients /\ ~open[c]
     THEN crash' = "loop" /\ UNCHANGED buf
     ELSE TrySend(rest, IF name[c] = NoName THEN 1 ELSE 2, "loop")
  /\ UNCHANGED <<registerQ, broadcastQ, spawned, kick, running, phase, name,
                 pumps, joins, told>>

\* case message := <-h.broadcast: a client whose buffer is full is unregistered
\* by a goroutine of its own.
HubBroadcast ==
  /\ Alive
  /\ running /\ LockFree /\ broadcastQ > 0
  /\ broadcastQ' = broadcastQ - 1
  /\ TrySend(clients, 1, "loop")
  /\ spawned' = spawned \cup {c \in clients : buf[c] = SendCap}
  /\ UNCHANGED <<clients, registerQ, unregisterQ, kick, running, phase, name,
                 open, pumps, joins, told, overtaken>>

\* case <-syncTicker.C: online_users to everyone.
HubTick ==
  /\ Alive
  /\ running /\ LockFree
  /\ TrySend(clients, 1, "loop")
  /\ UNCHANGED <<clients, chans, kick, running, phase, name, open, pumps, joins,
                 told, overtaken>>

\* case <-h.done.
HubReturn ==
  /\ Alive
  /\ running /\ LockFree /\ phase \in {"stopped", "cleared"}
  /\ running' = FALSE
  /\ UNCHANGED <<clients, chans, kick, phase, name, open, buf, pumps, joins,
                 told, overtaken, crash>>

\* go func(c *Client) { h.unregister <- c }(client)
SpawnedUnregister(c) ==
  /\ Alive
  /\ c \in spawned /\ Len(unregisterQ) < ChanCap
  /\ spawned' = spawned \ {c}
  /\ unregisterQ' = Append(unregisterQ, c)
  /\ UNCHANGED <<clients, registerQ, broadcastQ, kick, running, phase, name,
                 open, buf, pumps, joins, told, overtaken, crash>>

-----------------------------------------------------------------------------
(* Shutdown                                                                *)

\* SIGTERM: server.Shutdown stops new connections; websockets are hijacked and
\* stay.
BeginShutdown ==
  /\ Alive
  /\ MayShutdown /\ phase = "serving"
  /\ phase' = "draining"
  /\ UNCHANGED <<clients, chans, kick, running, name, open, buf, pumps, joins,
                 told, overtaken, crash>>

\* h.Stop closes done.
Stop ==
  /\ Alive
  /\ phase = "draining"
  /\ phase' = "stopped"
  /\ UNCHANGED <<clients, chans, kick, running, name, open, buf, pumps, joins,
                 told, overtaken, crash>>

\* Mutant: h.clients is not emptied.
CloseAllKeepsTable ==
  /\ Alive
  /\ phase = "stopped" /\ LockFree
  /\ phase' = "cleared"
  /\ open' = [c \in Clients |-> open[c] /\ c \notin clients]
  /\ UNCHANGED <<clients, chans, kick, running, name, buf, pumps, joins, told,
                 overtaken, crash>>

\* The rest of h.Shutdown, under h.mu.
CloseAll ==
  /\ Alive
  /\ phase = "stopped" /\ LockFree
  /\ phase' = "cleared"
  /\ IF \A c \in clients : open[c]
     THEN /\ open' = [c \in Clients |-> open[c] /\ c \notin clients]
          /\ conn' = [c \in Clients |-> IF c \in clients THEN "closed" ELSE conn[c]]
          /\ clients' = {}
          /\ UNCHANGED crash
     ELSE crash' = "main" /\ UNCHANGED <<open, conn, clients>>
  /\ UNCHANGED <<chans, kick, running, name, buf, reader, writer, joins, told,
                 overtaken>>

\* The process is dead after a panic, and main returns after Shutdown.
Ended ==
  /\ ~Alive \/ phase = "cleared"
  /\ UNCHANGED vars

-----------------------------------------------------------------------------

ConnectionNext(c) ==
  \/ HandleWebSocket(c) \/ PeerGone(c) \/ Reuse(c)
  \/ BeginJoin(c) \/ \E u \in Users : SetUsername(c, u)
  \/ Register(c) \/ DirectSend(c) \/ Announce(c)
  \/ Publish(c) \/ BeginPublishBlocking(c) \/ PublishBlocking(c)
  \/ ReadError(c) \/ ReaderExit(c)
  \/ WriteMessage(c) \/ WriterStop(c) \/ WriterExit(c)
  \/ SpawnedUnregister(c)

HubNext ==
  \/ HubEnter \/ (\E c \in Clients : HubTakeover(c)) \/ HubFinishTakeover
  \/ HubUnregister \/ HubBroadcast \/ HubTick \/ HubReturn

Next ==
  \/ \E c \in Clients : ConnectionNext(c)
  \/ \E to \in SUBSET Clients : GuardedSend(to)
  \/ HubNext
  \/ BeginShutdown \/ Stop \/ CloseAll
  \/ Ended

Spec == Init /\ [][Next]_vars

-----------------------------------------------------------------------------
(* Fairness.  Go picks uniformly among the ready branches of a select, serves  *)
(* blocked senders in order and does not starve a waiting RWMutex, so a branch *)
(* or a blocking send that is ready again and again is taken; a pump that can  *)
(* run does.  Peers, the network and the operator owe nothing.  Only finitely  *)
(* many frames are buffered behind a closed socket, so its reader gets to the  *)
(* error.                                                                      *)

Fairness ==
  /\ SF_vars(HubEnter)
  /\ \A c \in Clients : SF_vars(HubTakeover(c))
  /\ WF_vars(HubFinishTakeover)
  /\ SF_vars(HubUnregister)
  /\ SF_vars(HubBroadcast)
  /\ \A c \in Clients :
       /\ WF_vars(\E u \in Users : SetUsername(c, u))
       /\ SF_vars(Register(c))
       /\ SF_vars(Announce(c))
       /\ SF_vars(PublishBlocking(c))
       /\ SF_vars(conn[c] = "closed" /\ ReadError(c))
       /\ SF_vars(ReaderExit(c))
       /\ SF_vars(SpawnedUnregister(c))
       /\ WF_vars(WriteMessage(c))
       /\ WF_vars(MustStopWriting(c) /\ WriterStop(c))
       /\ WF_vars(WriterExit(c))

FairSpec == Spec /\ Fairness

-----------------------------------------------------------------------------
(* Properties of connections that join once, as the web client does.          *)

\* A registered client's send channel is open, so every send made after a look
\* at h.clients under h.mu is safe (hub.go 789-793): closing and removing go
\* together on all four paths - takeover, unregister, shutdown, a full buffer.
RegisteredOpen == \A c \in clients : open[c]

\* A username has at most one registered session, whatever the order in which
\* joins, disconnects and late unregisters reach Run.
SessionUnique == \A c, d \in clients : name[c] = name[d] => c = d

\* Only a handler's unguarded send can panic: neither Run, nor a sender that
\* holds h.mu, nor Shutdown ever touches a closed channel.
LoopSafe == crash \notin {"loop", "guarded", "main"}

\* A session that outlives its connection has one cause: Run served the
\* unregister before the register that was queued first on the other channel.
ZombieCause ==
  \A c \in clients :
    reader[c] = "done" => c \in Elems(unregisterQ) \cup overtaken

\* The hub implements Sessions: a takeover replaces the session of its own user
\* in one step and never disturbs another user's.  While Run is between removing
\* the old connection and entering the new one, the old one still counts: h.mu
\* keeps everyone from looking.
Held == clients \cup (IF LockFree THEN {} ELSE {kick.old})
SessionOf == [u \in Users |-> {c \in Held : name[c] = u}]
Registry == INSTANCE Sessions WITH session <- SessionOf
ImplementsSessions == Registry!Spec

\* Why these hold: a connection goes once through the stages joining - waiting in
\* h.register - being entered - registered, its username is final from the second
\* on, and its channel is closed only as it leaves the last one.
Entering == IF LockFree THEN {} ELSE {kick.new}
Joining == {c \in Clients : reader[c] \in {"naming", "registering"}}

Staged ==
  \A c \in Elems(registerQ) \cup Entering \cup clients :
    open[c] /\ joins[c] # 0 /\ c \notin Joining /\ name[c] \in Users

OneStage ==
  /\ Elems(registerQ) \cap clients = {}
  /\ Entering \cap (Elems(registerQ) \cup clients) = {}
  /\ \A i, j \in 1..Len(registerQ) : registerQ[i] = registerQ[j] => i = j

ClosedIsSpent == \A c \in Clients : ~open[c] => joins[c] # 0 /\ c \notin Joining

JoinFrames ==
  \A c \in Clients :
    /\ reader[c] = "none" => joins[c] = 0
    /\ c \in Joining => joins[c] # 0
    /\ reader[c] = "registering" => name[c] \in Users

TakeoverInv ==
  ~LockFree =>
    /\ kick.old \notin clients /\ ~open[kick.old]
    /\ name[kick.old] = name[kick.new]
    /\ \A d \in clients : name[d] # name[kick.new]

\* The inductive invariant: a stage is never entered twice, a closed channel is
\* never staged again, and a takeover leaves no second session of its user.
LifecycleInv ==
  /\ Staged /\ OneStage /\ ClosedIsSpent /\ JoinFrames /\ TakeoverInv
  /\ SessionUnique /\ LoopSafe

\* The two pumps of a connection fall together while Run serves the channels: once
\* the socket or the send channel is closed or one pump has stopped, both end.
\* (After Stop nobody drains the channels and a blocked sender stays.)
PumpsEnd ==
  \A c \in Clients :
    (\/ conn[c] = "closed" \/ ~open[c]
     \/ reader[c] \in {"leaving", "done"} \/ writer[c] \in {"leaving", "done"})
    ~> \/ (reader[c] \in {"none", "done"} /\ writer[c] \in {"none", "done"})
       \/ ~Alive

-----------------------------------------------------------------------------
(* Statements of the repository that the code does not keep.                  *)

\* hub.go 425-426: a takeover removes the old client first "so unregister handler
\* is a no-op".  It still tells everyone that the user has left.
UnregisterOfRemovedIsNoop ==
  [][\A c \in Clients :
       /\ unregisterQ # <<>> /\ unregisterQ' = Tail(unregisterQ)
       /\ c = Head(unregisterQ) /\ c \notin clients /\ told[c] # "no"
       => buf' = buf]_vars

\* hub.go 424: closing the old websocket is there "to trigger cleanup in
\* ReadPump/WritePump".  A handler that is still running panics instead.
HandlersNeverPanic == crash # "handler"

\* hub.go 789-793: a send channel "is only closed after it is removed from
\* h.clients", so membership under the lock prevents the panic.  A connection
\* that joins again is put back after its channel was closed.
GuardedSendsNeverPanic == crash # "guarded"

\* CHANGELOG.md 152: the old connection "receives the kicked message".
KickedIsTold == \A c \in Clients : told[c] # "lost"

\* hub.go 19: MaxConnections is "the hard limit on concurrent WebSocket
\* connections".
HardLimit == Cardinality({c \in Clients : conn[c] = "open"}) <= MaxConns

\* hub_test.go 2264-2270: after Shutdown no client is tracked and none
\* re-registers.
ShutdownStaysEmpty == phase = "cleared" => clients = {}

\* SECURITY.md 217: orphaned connections are cleaned up.
OrphansRemoved ==
  \A c \in Clients :
    reader[c] = "done" ~> c \notin clients \/ ~Alive \/ phase # "serving"
=============================================================================
