------------------------------- MODULE ChatAPI -------------------------------
(***************************************************************************)
(* The browser's websocket client: the connect and join handshake, the     *)
(* queue of messages typed while the socket is not ready, and the          *)
(* automatic reconnection.                                                 *)
(*                                                                         *)
(* JavaScript runs one handler at a time, so an action is one event: a     *)
(* call by the page, an event of a socket, or a timer.  Timers fire at any *)
(* time after they are set; delays, the JSON and the event subscribers     *)
(* other than the "kicked" one are left out.  An account is its name, and  *)
(* its token is that name too.                                             *)
(***************************************************************************)
EXTENDS Naturals, Sequences

CONSTANTS
  Names,        \* accounts of this browser
  NoName,       \* null
  QueueCap,     \* length of outboundQueue (code: 100)
  MaxAttempts,  \* maxReconnectAttempts (code: 10)
  MaxGen,       \* bound: connects and disconnects
  MaxMsgs       \* bound: messages the user sends

ASSUME ChatAPIAssumption ==
  /\ NoName \notin Names
  /\ QueueCap \in Nat \ {0} /\ MaxAttempts \in Nat
  /\ MaxGen \in Nat \ {0} /\ MaxMsgs \in Nat

VARIABLES
  gen,       \* connectGeneration; the sockets are numbered by it
  sock,      \* what the browser knows of each socket
  srv,       \* how far the server is with the join on each socket
  by,        \* who called connect: the page or the reconnect timer
  ws,        \* this.ws, 0 for null
  pending,   \* pendingJoin is set
  queue,     \* outboundQueue
  user,      \* reconnectUsername
  token,     \* reconnectToken
  attempt,   \* reconnectAttempt
  timer,     \* username captured by the timer in reconnectTimer
  orphans,   \* usernames captured by timers that reconnectTimer forgot
  waiting,   \* wasReconnecting
  failed,    \* "reconnect_failed" was the last thing the page was told
  issued,    \* messages the user has sent: they are numbered
  sent       \* messages handed to a socket

retry == <<user, token, attempt, timer, orphans, waiting, failed>>
messages == <<queue, issued, sent>>
vars == <<gen, sock, srv, by, ws, pending, retry, messages>>

Gens == 1..MaxGen

TypeOK ==
  /\ gen \in 0..MaxGen /\ ws \in 0..MaxGen
  /\ sock \in [Gens -> {"none", "connecting", "open", "failed", "closing", "closed"}]
  /\ srv \in [Gens -> {"idle", "asked", "joined", "refused", "kicked"}]
  /\ by \in [Gens -> {"nobody", "page", "timer"}]
  /\ pending \in BOOLEAN /\ waiting \in BOOLEAN /\ failed \in BOOLEAN
  /\ queue \in Seq(1..MaxMsgs) /\ Len(queue) <= QueueCap
  /\ user \in Names \cup {NoName} /\ token \in Names \cup {NoName}
  /\ timer \in Names \cup {NoName} /\ orphans \in SUBSET Names
  /\ attempt \in Nat
  /\ issued \in 0..MaxMsgs /\ sent \in Seq(1..MaxMsgs)

Init ==
  /\ gen = 0 /\ ws = 0
  /\ sock = [g \in Gens |-> "none"]
  /\ srv = [g \in Gens |-> "idle"]
  /\ by = [g \in Gens |-> "nobody"]
  /\ pending = FALSE /\ waiting = FALSE /\ failed = FALSE
  /\ queue = <<>> /\ issued = 0 /\ sent = <<>>
  /\ user = NoName /\ token = NoName /\ timer = NoName /\ orphans = {}
  /\ attempt = 0

-----------------------------------------------------------------------------
(* Helpers                                                                 *)

\* Mutant: the generation is not compared.
AnyGeneration(g) == TRUE

\* Handlers of a socket that is not the latest return at once.
Current(g) == g = gen

IsOpen == ws # 0 /\ sock[ws] = "open"

\* this.ws?.close()
Closing(s) ==
  IF ws # 0 /\ s[ws] \in {"connecting", "open"} THEN [s EXCEPT ![ws] = "closing"] ELSE s

\* Mutant: the old socket is left alone.
NotClosing(s) == s

\* The socket that connect replaces.
Replaced(s) == Closing(s)

\* Mutant: the last message first.
FlushLastFirst ==
  /\ sent' = sent \o [i \in DOMAIN queue |-> queue[Len(queue) + 1 - i]]
  /\ queue' = <<>>

\* Handler of "history": the queue goes out on the joined socket.
Flush == sent' = sent \o queue /\ queue' = <<>>

\* outboundQueue after a push; the oldest entry gives way when it is full.
Queued(m) == Append(IF Len(queue) < QueueCap THEN queue ELSE Tail(queue), m)

\* attemptReconnect.  The previous timer, if it is live, keeps running.
AttemptReconnect ==
  IF user = NoName
  THEN UNCHANGED <<timer, orphans, waiting, failed>>
  ELSE IF attempt >= MaxAttempts
  THEN failed' = TRUE /\ UNCHANGED <<timer, orphans, waiting>>
  ELSE /\ orphans' = orphans \cup ({timer} \ {NoName})
       /\ timer' = user
       /\ waiting' = TRUE
       /\ failed' = FALSE

-----------------------------------------------------------------------------
(* Calls                                                                   *)

\* connect(username, token): a new socket replaces the old one.
ConnectAs(u, t, who) ==
  /\ gen < MaxGen
  /\ gen' = gen + 1 /\ ws' = gen + 1
  /\ sock' = [Replaced(sock) EXCEPT ![gen + 1] = "connecting"]
  /\ by' = [by EXCEPT ![gen + 1] = who]
  /\ pending' = TRUE
  /\ queue' = <<>>
  /\ user' = u /\ token' = t
  /\ UNCHANGED <<srv, waiting, issued, sent>>

\* The page connects: a login, a guest join or the automatic login at start.
Connect(u) ==
  /\ ConnectAs(u, u, "page")
  /\ failed' = FALSE
  /\ UNCHANGED <<attempt, timer, orphans>>

\* disconnect(): logout.
Disconnect ==
  /\ gen < MaxGen
  /\ gen' = gen + 1
  /\ sock' = Closing(sock) /\ ws' = 0
  /\ pending' = FALSE /\ waiting' = FALSE /\ failed' = FALSE
  /\ user' = NoName /\ token' = NoName
  /\ queue' = <<>>
  /\ timer' = NoName
  /\ UNCHANGED <<srv, by, attempt, orphans, issued, sent>>

\* Mutant: the answer to the join is not waited for.
SendWhenOpen ==
  /\ issued < MaxMsgs /\ gen # 0
  /\ issued' = issued + 1
  /\ IF IsOpen
     THEN sent' = Append(sent, issued + 1) /\ UNCHANGED queue
     ELSE queue' = Queued(issued + 1) /\ UNCHANGED sent
  /\ UNCHANGED <<gen, sock, srv, by, ws, pending, retry>>

\* send(message): on the socket when it is open and joined, else in the queue.
Send ==
  /\ issued < MaxMsgs /\ gen # 0
  /\ issued' = issued + 1
  /\ IF IsOpen /\ ~pending
     THEN sent' = Append(sent, issued + 1) /\ UNCHANGED queue
     ELSE queue' = Queued(issued + 1) /\ UNCHANGED sent
  /\ UNCHANGED <<gen, sock, srv, by, ws, pending, retry>>

-----------------------------------------------------------------------------
(* Events of a socket                                                      *)

\* onopen: the join frame goes out.  Attempts count from the last open socket.
Open(g) ==
  /\ sock[g] = "connecting" /\ Current(g)
  /\ sock' = [sock EXCEPT ![g] = "open"]
  /\ IF pending
     THEN attempt' = 0 /\ srv' = [srv EXCEPT ![g] = "asked"]
     ELSE UNCHANGED <<attempt, srv>>
  /\ UNCHANGED <<gen, by, ws, pending, user, token, timer, orphans, waiting,
                 failed, messages>>

\* onmessage "history" while joining: the server has accepted the join.
History(g) ==
  /\ sock[g] = "open" /\ srv[g] = "asked" /\ Current(g) /\ pending
  /\ srv' = [srv EXCEPT ![g] = "joined"]
  /\ pending' = FALSE
  /\ Flush
  /\ waiting' = FALSE
  /\ UNCHANGED <<gen, sock, by, ws, user, token, attempt, timer, orphans, failed,
                 issued>>

\* onmessage "error" while joining.
JoinError(g) ==
  /\ sock[g] = "open" /\ srv[g] = "asked" /\ Current(g) /\ pending
  /\ srv' = [srv EXCEPT ![g] = "refused"]
  /\ pending' = FALSE
  /\ sock' = Closing(sock)
  /\ UNCHANGED <<gen, by, ws, retry, messages>>

\* onmessage "kicked" while joining.
KickedJoining(g) ==
  /\ sock[g] = "open" /\ srv[g] = "asked" /\ Current(g) /\ pending
  /\ srv' = [srv EXCEPT ![g] = "kicked"]
  /\ pending' = FALSE
  /\ UNCHANGED <<gen, sock, by, ws, retry, messages>>

\* onmessage "kicked" later: the page's subscriber disconnects.
Kicked(g) ==
  /\ sock[g] = "open" /\ srv[g] = "joined" /\ Current(g) /\ ~pending
  /\ Disconnect

\* onclose.  The server or the network closed the socket, or this client did.
Close(g) ==
  /\ sock[g] \in {"open", "closing", "failed"}
  /\ sock' = [sock EXCEPT ![g] = "closed"]
  /\ IF ~Current(g) THEN UNCHANGED <<pending, timer, orphans, waiting, failed>>
     ELSE IF pending
     THEN pending' = FALSE /\ UNCHANGED <<timer, orphans, waiting, failed>>
     ELSE AttemptReconnect /\ UNCHANGED pending
  /\ UNCHANGED <<gen, srv, by, ws, user, token, attempt, messages>>

\* onerror: a connection that fails; the browser reports onclose next.
Error(g) ==
  /\ sock[g] \in {"connecting", "open", "closing"}
  /\ sock' = [sock EXCEPT ![g] = "failed"]
  /\ pending' = (pending /\ ~Current(g))
  /\ UNCHANGED <<gen, srv, by, ws, retry, messages>>

-----------------------------------------------------------------------------
(* Timers                                                                  *)

\* No onopen within 15 s.
TimeOut(g) ==
  /\ sock[g] = "connecting" /\ Current(g) /\ pending
  /\ pending' = FALSE
  /\ sock' = Closing(sock)
  /\ UNCHANGED <<gen, srv, by, ws, retry, messages>>

\* The reconnect timer: the name it captured, and the token of the moment.
Reconnect ==
  /\ timer # NoName
  /\ ConnectAs(timer, token, "timer")
  /\ attempt' = attempt + 1
  /\ timer' = NoName
  /\ UNCHANGED <<orphans, failed>>

ReconnectOrphan(u) ==
  /\ u \in orphans
  /\ ConnectAs(u, token, "timer")
  /\ attempt' = attempt + 1
  /\ orphans' = orphans \ {u}
  /\ UNCHANGED <<timer, failed>>

-----------------------------------------------------------------------------

SocketNext(g) ==
  \/ Open(g) \/ History(g) \/ JoinError(g) \/ KickedJoining(g) \/ Kicked(g)
  \/ Close(g) \/ Error(g) \/ TimeOut(g)

Next ==
  \/ \E u \in Names : Connect(u) \/ ReconnectOrphan(u)
  \/ Disconnect \/ Send \/ Reconnect
  \/ \E g \in Gens : SocketNext(g)

Spec == Init /\ [][Next]_vars

-----------------------------------------------------------------------------
(* Properties                                                              *)

\* The server gets the user's messages in the order they were typed, and none
\* twice, across queueing, flushing and any number of reconnections.
InOrder == \A i, j \in 1..Len(sent) : i < j => sent[i] < sent[j]

\* A message goes out only on a socket whose join the server has answered: the
\* server throws away what comes before.
JoinFirst == [][sent' # sent => srv'[ws'] \in {"joined", "kicked"}]_vars

\* Nothing waits in the queue of a connection that has joined.
NothingStranded == IsOpen /\ ~pending /\ srv[ws] = "joined" => queue = <<>>

\* The messages the user types are handed over as they should: bounded in the queue, in
\* order, none twice, and none left behind by a connection that has joined.
QueueInv == TypeOK /\ InOrder /\ NothingStranded

\* However connects, retries and late closes overlap, at most one socket is
\* connecting or open, and it is this.ws (SECURITY.md 228).
OneSocket == \A g \in Gens : sock[g] \in {"connecting", "open"} => g = ws

\* A late event of a replaced socket does not end the join of the new one.
JoinOnlyByOwnSocket ==
  [][pending /\ ~pending' /\ gen' = gen
       => sock'[gen] # "connecting" /\ (sock'[gen] # sock[gen] \/ srv'[gen] # srv[gen])]_vars

-----------------------------------------------------------------------------
(* Statements of the repository that the code does not keep.               *)

\* api.ts 415-420: a message typed during a reconnect is queued "instead of
\* dropping it" and flushed when the socket is back.
QueueSurvivesReconnect ==
  [][gen' # gen /\ ws' # 0 /\ by'[ws'] = "timer" => queue' = queue]_vars

\* api.ts 348: "Initial connection failed - do NOT auto-reconnect".
InitialFailureStaysDown ==
  [][\A g \in Gens :
       sock[g] # "closed" /\ sock'[g] = "closed" /\ by[g] = "page" /\ srv[g] # "joined"
       => timer' = timer]_vars

\* api.ts 401: when a reconnect fails, "onclose will trigger next attempt": a page
\* that shows "reconnecting" has an attempt under way, a timer, or the final word.
RetryGoesOn ==
  waiting /\ ~pending /\ (ws # 0 => sock[ws] = "closed") =>
    timer # NoName \/ orphans # {} \/ failed

\* api.test.ts 1511: disconnect "clears the reconnect timer".
DisconnectIsFinal == [][user = NoName /\ gen' # gen /\ ws' # 0 => by'[ws'] = "page"]_vars

\* api.test.ts 456: a reconnect "keeps the token" of the session that dropped.
OwnToken == pending => token = user
=============================================================================
