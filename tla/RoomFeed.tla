------------------------------- MODULE RoomFeed -------------------------------
(***************************************************************************)
(* How the messages of the room get from the page that types them through  *)
(* the store and the hub to the windows of all pages, with edits,          *)
(* deletions, history, pagination and reconnections.                       *)
(*                                                                         *)
(* Each connection has one goroutine that handles its requests one after   *)
(* the other.  A message or an edit is fanned out by that goroutine; a     *)
(* deletion goes through the hub's broadcast channel, a join through the   *)
(* hub's register channel.  Send buffers do not overflow here, and the end *)
(* of a connection is abstract: both are in module Hub.  No two messages   *)
(* are stored in the same millisecond.  System lines, blocked users,       *)
(* reactions, polls, mentions and the bot are left out.                    *)
(***************************************************************************)
EXTENDS MessageWindow

CONSTANTS
  Users,     \* a user has one page
  Conns,     \* connections
  Owner,     \* the user of a connection
  None,      \* no connection
  Texts,     \* contents of messages as typed
  Edits,     \* contents they are edited to
  Stored,    \* the authors of the messages in the room at the start
  JoinPage,  \* messages sent with a join (code: 100)
  OlderPage, \* messages sent for load_history (code: 50)
  ChanCap,   \* capacity of h.broadcast (code: 256)
  MaxAsked   \* bound: messages, edits, deletions and loads the pages ask for

ASSUME RoomFeedAssumption ==
  /\ Owner \in [Conns -> Users] /\ None \notin Conns /\ "" \notin Texts \cup Edits
  /\ Stored \in Seq(Users) /\ JoinPage \in Nat \ {0} /\ OlderPage \in Nat \ {0} /\ ChanCap \in Nat \ {0}
  /\ MaxAsked \in Nat /\ MessageCap <= HistoryCap

VARIABLES
  \* the server
  rows,      \* the messages table; a row's id is its place
  room,      \* h.clients, without those whose socket is lost
  registerQ, \* h.register
  broadcastQ,\* h.broadcast
  job,       \* what the goroutine of each connection is doing
  \* the network
  up,        \* requests on their way
  down,      \* frames on their way
  \* the pages
  conn,      \* the page's socket
  used,      \* connections that were opened
  joined,    \* the page has had the history that answers its join
  loaded,    \* historyLoaded
  win,       \* messages
  asked,     \* requests the pages have made
  \* for the properties
  read,      \* rows there were when the history of the connection was read
  entered,   \* rows there were when Run entered the connection
  had,       \* rows that were read as history for the connection
  full,      \* pages whose window has been full since they connected: it may have been
             \* cut, at the end where the newest message stands too if history came
  guessed,   \* pages that took a message of history for one of their own
  lossy      \* users a request, a frame or a connection of whom was lost

server == <<rows, room, registerQ, broadcastQ, job, read, entered, had>>
pages == <<conn, used, joined, loaded, win, asked, full, guessed>>
feedVars == <<server, up, down, pages, lossy>>

Idle == [at |-> "idle"]

MaxId == Len(Stored) + MaxAsked

Messages ==
  [id : (-MaxAsked)..MaxId, cid : (-MaxAsked)..0, user : Users, text : Texts \cup Edits \cup {""}]

FeedTypeOK ==
  /\ rows \in Seq([cid : (-MaxAsked)..0, user : Users, text : Texts \cup Edits, gone : BOOLEAN])
  /\ room \subseteq Conns /\ registerQ \in Seq(Conns)
  /\ Len(broadcastQ) <= ChanCap
  /\ \A c \in Conns :
       job[c].at \in {"idle", "greeting", "answering", "fanning", "publishing"}
  /\ conn \in [Users -> Conns \cup {None}] /\ used \subseteq Conns
  /\ joined \in [Users -> BOOLEAN] /\ loaded \in [Users -> BOOLEAN]
  /\ win \in [Users -> Seq(Messages)]
  /\ asked \in 0..MaxAsked
  /\ read \in [Conns -> 0..MaxId] /\ entered \in [Conns -> 0..MaxId]
  /\ had \in [Conns -> SUBSET (1..MaxId)]
  /\ full \subseteq Users /\ guessed \subseteq Users /\ lossy \subseteq Users

FeedInit ==
  /\ \E t \in Texts :
       rows = [i \in DOMAIN Stored |-> [cid |-> 0, user |-> Stored[i], text |-> t, gone |-> FALSE]]
  /\ room = {} /\ registerQ = <<>> /\ broadcastQ = <<>>
  /\ job = [c \in Conns |-> Idle]
  /\ up = [c \in Conns |-> <<>>] /\ down = [c \in Conns |-> <<>>]
  /\ conn = [u \in Users |-> None] /\ used = {}
  /\ joined = [u \in Users |-> FALSE] /\ loaded = [u \in Users |-> FALSE]
  /\ win = [u \in Users |-> <<>>]
  /\ asked = 0
  /\ read = [c \in Conns |-> 0] /\ entered = [c \in Conns |-> 0]
  /\ had = [c \in Conns |-> {}]
  /\ full = {} /\ guessed = {} /\ lossy = {}

-----------------------------------------------------------------------------
(* The page                                                                *)

\* Entries of the page whose clock agrees with the server's within five seconds:
\* any of them may.
Clocks(u) == SUBSET {id \in Ids(win[u]) : id < 0}

Ask(u, request) == up' = [up EXCEPT ![conn[u]] = Append(@, request)]

\* The window as it is now may have been full since the page connected.
Filled(u, w) == IF Len(w) >= MessageCap THEN full \cup {u} ELSE full

OpenSocket(u, c) ==
  /\ conn[u] = None /\ c \notin used /\ Owner[c] = u
  /\ conn' = [conn EXCEPT ![u] = c]
  /\ used' = used \cup {c}
  /\ joined' = [joined EXCEPT ![u] = FALSE]
  /\ up' = [up EXCEPT ![c] = <<[kind |-> "join"]>>]
  /\ full' = full \ {u}
  /\ UNCHANGED <<server, down, loaded, win, asked, guessed, lossy>>

\* The socket is lost with what was on its way.  Bound: not the last one.
LoseSocket(u) ==
  /\ conn[u] # None /\ \E c \in Conns \ used : Owner[c] = u
  /\ conn' = [conn EXCEPT ![u] = None]
  /\ up' = [up EXCEPT ![conn[u]] = <<>>]
  /\ down' = [down EXCEPT ![conn[u]] = <<>>]
  /\ room' = room \ {conn[u]}
  /\ lossy' = lossy \cup {u}
  /\ UNCHANGED <<rows, registerQ, broadcastQ, job, read, entered, had, used, joined,
                 loaded, win, asked, full, guessed>>

\* sendMessage: the page shows the message at once under an id of its own.
SendMessage(u, text) ==
  LET id == -(asked + 1)
      entry == [id |-> id, cid |-> id, user |-> u, text |-> text]
  IN
  /\ conn[u] # None /\ joined[u] /\ asked < MaxAsked
  /\ asked' = asked + 1
  /\ win' = [win EXCEPT ![u] = AddMessage(@, entry, {})]
  /\ full' = Filled(u, win'[u])
  /\ Ask(u, [kind |-> "message", cid |-> id, text |-> text])
  /\ UNCHANGED <<server, down, conn, used, joined, loaded, guessed, lossy>>

AskAbout(u, request) ==
  /\ conn[u] # None /\ joined[u] /\ asked < MaxAsked
  /\ asked' = asked + 1
  /\ Ask(u, request)
  /\ UNCHANGED <<server, down, conn, used, joined, loaded, win, full, guessed, lossy>>

Own(u) == {win[u][i].id : i \in {j \in DOMAIN win[u] : win[u][j].user = u}}

SendEdit(u, id, text) ==
  /\ id \in Own(u) /\ id > 0
  /\ AskAbout(u, [kind |-> "edit", id |-> id, text |-> text])

SendDelete(u, id) ==
  /\ id \in Own(u) /\ id > 0
  /\ AskAbout(u, [kind |-> "delete", id |-> id])

\* The page asks for what came before its first entry.  The time of an entry that
\* has no answer yet is the page's own, which may be ahead of the server's.
LoadHistory(u) ==
  LET first == Head(win[u]) IN
  /\ win[u] # <<>>
  /\ \E time \in 1..(MaxId + 1) :
       /\ ~Optimistic(first) => time = first.id
       /\ AskAbout(u, [kind |-> "load", before |-> time])

\* The handlers of the socket's frames.
Shown(u, frame, close) ==
  CASE frame.kind = "message" -> AddMessage(win[u], frame.message, close)
    [] frame.kind = "edit" ->
         IF frame.text = "" THEN win[u]
         ELSE EditMessageInPlace(win[u], frame.id, frame.text)
    [] frame.kind = "delete" -> DeleteMessage(win[u], frame.id)
    [] frame.kind = "history" ->
         IF loaded[u] THEN PrependHistory(win[u], frame.messages, close)
         ELSE SetHistory(win[u], frame.messages, close)

Handle(u) ==
  LET frame == Head(down[conn[u]])
      isHistory == frame.kind = "history"
  IN
  /\ conn[u] # None /\ down[conn[u]] # <<>>
  /\ down' = [down EXCEPT ![conn[u]] = Tail(@)]
  /\ \E close \in Clocks(u) :
       LET w == Shown(u, frame, close) IN
       /\ win' = [win EXCEPT ![u] = w]
       /\ full' = Filled(u, w)
       /\ guessed' = IF isHistory /\ w # Shown(u, frame, {}) THEN guessed \cup {u} ELSE guessed
  /\ loaded' = [loaded EXCEPT ![u] = @ \/ isHistory]
  /\ joined' = [joined EXCEPT ![u] = @ \/ isHistory]
  /\ UNCHANGED <<server, up, conn, used, asked, lossy>>

-----------------------------------------------------------------------------
(* The goroutine of a connection                                           *)

Row(id) ==
  [id |-> id, cid |-> 0, user |-> rows[id].user,
   text |-> IF rows[id].gone THEN "" ELSE rows[id].text]

\* Mutant: the oldest rows.
GetRoomMessagesOldest(limit, before) ==
  [i \in 1..Min({before - 1, Len(rows), limit}) |-> Row(i)]

\* GetRoomMessages: the last `limit` rows older than `before`, oldest first.
GetRoomMessages(limit, before) ==
  LET last == Min({before - 1, Len(rows)})
      first == Max({1, last - limit + 1})
  IN [i \in 1..(last - first + 1) |-> Row(first + i - 1)]

\* The goroutine takes the next request and will go on with `next`.
Take(c, kind, next) ==
  /\ job[c] = Idle /\ up[c] # <<>> /\ Head(up[c]).kind = kind
  /\ up' = [up EXCEPT ![c] = Tail(@)]
  /\ job' = [job EXCEPT ![c] = next]

\* The frame goes to the page, if its socket is still there.
Delivered(cs, frame) ==
  [c \in Conns |-> IF c \in cs /\ conn[Owner[c]] = c THEN Append(down[c], frame) ELSE down[c]]

\* handleJoin up to the register channel, which is taken to have room.
HandleJoin(c) ==
  /\ Take(c, "join", [at |-> "greeting"])
  /\ registerQ' = Append(registerQ, c)
  /\ UNCHANGED <<rows, room, broadcastQ, read, entered, had, down, pages, lossy>>

\* The history is read, and sent in a later step.
ReadHistory(c) ==
  LET page == GetRoomMessages(JoinPage, MaxId + 1) IN
  /\ job[c].at = "greeting"
  /\ job' = [job EXCEPT ![c] = [at |-> "answering", frame |-> [kind |-> "history", messages |-> page]]]
  /\ read' = [read EXCEPT ![c] = Len(rows)]
  /\ had' = [had EXCEPT ![c] = @ \cup Ids(page)]
  /\ UNCHANGED <<rows, room, registerQ, broadcastQ, entered, up, down, pages, lossy>>

HandleLoadHistory(c) ==
  LET page == GetRoomMessages(OlderPage, Head(up[c]).before) IN
  /\ Take(c, "load", [at |-> "answering", frame |-> [kind |-> "history", messages |-> page]])
  /\ had' = [had EXCEPT ![c] = @ \cup Ids(page)]
  /\ UNCHANGED <<rows, room, registerQ, broadcastQ, read, entered, down, pages, lossy>>

Answer(c) ==
  /\ job[c].at = "answering"
  /\ down' = Delivered({c}, job[c].frame)
  /\ job' = [job EXCEPT ![c] = Idle]
  /\ UNCHANGED <<rows, room, registerQ, broadcastQ, read, entered, had, up, pages, lossy>>

\* Mutant: the echo does not carry the page's id.
HandleChatMessageAnonymous(c) ==
  LET r == Head(up[c])
      row == [cid |-> r.cid, user |-> Owner[c], text |-> r.text, gone |-> FALSE]
  IN
  /\ Take(c, "message",
          [at |-> "fanning",
           frame |-> [kind |-> "message",
                      message |-> [id |-> Len(rows) + 1, cid |-> 0,
                                   user |-> Owner[c], text |-> r.text]]])
  /\ rows' = Append(rows, row)
  /\ UNCHANGED <<room, registerQ, broadcastQ, read, entered, had, down, pages, lossy>>

HandleChatMessage(c) ==
  LET r == Head(up[c])
      row == [cid |-> r.cid, user |-> Owner[c], text |-> r.text, gone |-> FALSE]
  IN
  /\ Take(c, "message",
          [at |-> "fanning",
           frame |-> [kind |-> "message",
                      message |-> [id |-> Len(rows) + 1, cid |-> r.cid,
                                   user |-> Owner[c], text |-> r.text]]])
  /\ rows' = Append(rows, row)
  /\ UNCHANGED <<room, registerQ, broadcastQ, read, entered, had, down, pages, lossy>>

\* The rate limit or a failure of the store: an error frame at most, and pages
\* ignore those.
Refuse(c) ==
  /\ \E kind \in {"message", "edit", "delete"} : Take(c, kind, Idle)
  /\ lossy' = lossy \cup {Owner[c]}
  /\ UNCHANGED <<rows, room, registerQ, broadcastQ, read, entered, had, down, pages>>

\* Mutant: the text is the one read for the owner check.
HandleMessageEditStale(c) ==
  LET r == Head(up[c]) IN
  /\ Take(c, "edit", [at |-> "fanning",
                      frame |-> [kind |-> "edit", id |-> r.id, text |-> Row(r.id).text]])
  /\ rows' = [rows EXCEPT ![r.id].text = r.text]
  /\ UNCHANGED <<room, registerQ, broadcastQ, read, entered, had, down, pages, lossy>>

\* UpdateMessage does not ask whether the message was deleted.
HandleMessageEdit(c) ==
  LET r == Head(up[c]) IN
  /\ Take(c, "edit",
          [at |-> "fanning",
           frame |-> [kind |-> "edit", id |-> r.id,
                      text |-> IF rows[r.id].gone THEN "" ELSE r.text]])
  /\ rows' = [rows EXCEPT ![r.id].text = r.text]
  /\ UNCHANGED <<room, registerQ, broadcastQ, read, entered, had, down, pages, lossy>>

\* BroadcastToRoom.  Two fan-outs of different goroutines may overlap; no property
\* here compares the order two pages see.
BroadcastToRoom(c) ==
  /\ job[c].at = "fanning"
  /\ down' = Delivered(room, job[c].frame)
  /\ job' = [job EXCEPT ![c] = Idle]
  /\ UNCHANGED <<rows, room, registerQ, broadcastQ, read, entered, had, up, pages, lossy>>

HandleMessageDelete(c) ==
  LET r == Head(up[c]) IN
  /\ Take(c, "delete", [at |-> "publishing", frame |-> [kind |-> "delete", id |-> r.id]])
  /\ rows' = [rows EXCEPT ![r.id].gone = TRUE]
  /\ UNCHANGED <<room, registerQ, broadcastQ, read, entered, had, down, pages, lossy>>

\* A non-blocking send on the broadcast channel.
Publish(c) ==
  /\ job[c].at = "publishing"
  /\ job' = [job EXCEPT ![c] = Idle]
  /\ IF Len(broadcastQ) < ChanCap
     THEN broadcastQ' = Append(broadcastQ, job[c].frame) /\ UNCHANGED lossy
     ELSE lossy' = Users /\ UNCHANGED broadcastQ
  /\ UNCHANGED <<rows, room, registerQ, read, entered, had, up, down, pages>>

-----------------------------------------------------------------------------
(* The hub                                                                 *)

\* Run enters the connection; another one of the same user is removed.  (A
\* connection whose socket is lost gets nothing any more: whether it is still in
\* the table makes no difference to the pages.)
HubRegister ==
  LET c == Head(registerQ) IN
  /\ registerQ # <<>>
  /\ registerQ' = Tail(registerQ)
  /\ room' = {d \in room : Owner[d] # Owner[c]} \cup ({c} \cap {conn[Owner[c]]})
  /\ entered' = [entered EXCEPT ![c] = Len(rows)]
  /\ UNCHANGED <<rows, broadcastQ, job, read, had, up, down, pages, lossy>>

HubBroadcast ==
  /\ broadcastQ # <<>>
  /\ broadcastQ' = Tail(broadcastQ)
  /\ down' = Delivered(room, Head(broadcastQ))
  /\ UNCHANGED <<rows, room, registerQ, job, read, entered, had, up, pages, lossy>>

-----------------------------------------------------------------------------

PageNext(u) ==
  \/ \E c \in Conns : OpenSocket(u, c)
  \/ LoseSocket(u) \/ Handle(u) \/ LoadHistory(u)
  \/ \E t \in Texts : SendMessage(u, t)
  \/ \E id \in Own(u) : SendDelete(u, id) \/ \E t \in Edits : SendEdit(u, id, t)

ConnNext(c) ==
  \/ HandleJoin(c) \/ ReadHistory(c) \/ HandleLoadHistory(c) \/ Answer(c)
  \/ HandleChatMessage(c) \/ Refuse(c) \/ HandleMessageEdit(c) \/ BroadcastToRoom(c)
  \/ HandleMessageDelete(c) \/ Publish(c)

FeedNext ==
  \/ \E u \in Users : PageNext(u)
  \/ \E c \in Conns : ConnNext(c)
  \/ HubRegister \/ HubBroadcast

FeedSpec == FeedInit /\ [][FeedNext]_feedVars

-----------------------------------------------------------------------------
(* Properties                                                              *)

\* Nothing is under way.
Quiet ==
  /\ registerQ = <<>> /\ broadcastQ = <<>>
  /\ \A c \in Conns : job[c] = Idle /\ up[c] = <<>> /\ down[c] = <<>>

\* The page has joined and is in the room.  (A connection that was taken over, by a
\* late register of an older one too, is about to be closed.)
Settled(u) == conn[u] # None /\ joined[u] /\ conn[u] \in room

Entries(u, id) == {i \in DOMAIN win[u] : win[u][i].id = id}

\* Rows stored after the connection's history was read and before Run entered the
\* connection: neither the history nor a fan-out brings them.
Gap(c) == {id \in DOMAIN rows : read[c] < id /\ id <= entered[c]}

\* Rows the page has heard of live, and by no history: they came after its history was
\* read and its connection entered.
Live(u) ==
  {id \in DOMAIN rows : id > Max({read[conn[u]], entered[conn[u]]})} \ had[conn[u]]

\* A message the page shows before the server's answer gives way to the stored
\* one: on a page that lost nothing only a message stored in the gap of its own
\* join stays "optimistic".
OptimisticSettles ==
  Quiet => \A u \in Users \ lossy : \A i \in DOMAIN win[u] :
             Optimistic(win[u][i]) => \E id \in Gap(conn[u]) : rows[id].cid = win[u][i].id

\* What came live ends up as it is in the store, although edits go to the pages
\* directly and deletions through the hub's channel: nothing is missing but what was
\* deleted, and the text is the last one.
LiveConverges ==
  Quiet =>
    \A u \in Users \ lossy : Settled(u) =>
      \A id \in Live(u) :
        /\ Entries(u, id) = {} => rows[id].gone \/ u \in full
        /\ rows[id].user \notin lossy =>
             \A i \in Entries(u, id) : win[u][i].text = Row(id).text

\* Live messages of an author who kept one connection stand in the order in which
\* they were sent, unless an echo or a page of history may have met another entry of
\* the user's than its own.
AuthorOrder ==
  \A u \in Users \ (lossy \cup guessed \cup full) : Settled(u) =>
    \A i, j \in DOMAIN win[u] :
      /\ win[u][i].id \in Live(u) /\ win[u][j].id \in Live(u)
      /\ win[u][i].user = win[u][j].user /\ win[u][i].user \notin lossy /\ i < j
      => win[u][i].id < win[u][j].id

\* A page that has joined, for the first time or again, misses no recent message
\* but those of the gap.
CaughtUp ==
  Quiet =>
    \A u \in Users : Settled(u) =>
      \A id \in DOMAIN rows :
        /\ id > read[conn[u]] - JoinPage /\ ~rows[id].gone /\ u \notin full
        /\ Entries(u, id) = {}
        => id \in Gap(conn[u])

\* The page shows no message twice, unless it took one of history for its own.
NoTwice ==
  \A u \in Users \ (lossy \cup guessed) :
    \A i, j \in DOMAIN win[u] : win[u][i].id = win[u][j].id => i = j

\* A window has no message twice and no author's messages in another order, whatever
\* echoes, history and live messages were merged into it.
WindowInv == FeedTypeOK /\ NoTwice /\ AuthorOrder

-----------------------------------------------------------------------------
(* Statements of the repository that the code does not keep.               *)

\* mergeMessageWindow.ts 22: "Stable chronological ordering".
Chronological ==
  \A u \in Users : \A i, j \in DOMAIN win[u] :
    i < j /\ win[u][i].id > 0 /\ win[u][j].id > 0 => win[u][i].id < win[u][j].id

\* mergeMessageWindow.ts 23: "Dedup by stable message ID."
Deduped ==
  \A u \in Users : \A i, j \in DOMAIN win[u] : win[u][i].id = win[u][j].id => i = j
=============================================================================
