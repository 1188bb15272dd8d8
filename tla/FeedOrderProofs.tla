--------------------------- MODULE FeedOrderProofs ---------------------------
(***************************************************************************)
(* The second half of the proofs about the room's feed, RoomFeed: what is  *)
(* still to come, that it comes once and in order, the last texts and the  *)
(* deletions; and the theorems, for any users, connections and messages,   *)
(* any sizes of windows and pages and any capacity of the hub's channel.   *)
(***************************************************************************)
EXTENDS FeedProofs

\* On a page that lost nothing, when nothing is under way, an entry without answer is in the gap.
LEMMA OptimistsSettle ==
  ASSUME Types, SocketsKnown, Optimists
  PROVE  OptimisticSettles
<1> SUFFICES ASSUME Quiet, NEW u \in Users \ lossy, NEW i \in DOMAIN win[u], Optimistic(win[u][i])
             PROVE  \E id \in Gap(conn[u]) : rows[id].cid = win[u][i].id
  BY DEF OptimisticSettles
<1>1. conn[u] # None
  BY DEF SocketsKnown
<1>2. PICK c \in Conns : c = conn[u] /\ Owner[c] = u /\ Attached(c)
  BY <1>1, SocketOf
<1>3. PICK k : k = win[u][i].id /\ k < 0 /\ k \in Ids(win[u])
  BY DEF Optimistic, Ids
<1>4. Pending(c, k)
  BY <1>2, <1>3 DEF Optimists
<1>5. up[c] = <<>> /\ down[c] = <<>> /\ job[c] = Idle /\ registerQ = <<>>
  BY DEF Quiet
<1>6. Asks(c, "message") = {} /\ At(c, "message") = {} /\ ~Fans(c, "message")
  BY <1>5 DEF Asks, At, Fans, Idle
<1>7. c \notin ToSet(registerQ)
  BY <1>5 DEF ToSet
<1>8. PICK r \in DOMAIN rows : rows[r].cid = k /\ read[c] < r /\ r <= entered[c]
  BY <1>4, <1>6, <1>7 DEF Pending, Bound
<1> QED BY <1>2, <1>3, <1>8 DEF Gap

\* How the job of a goroutine changes.
JobChange(d) ==
  \/ job'[d] = job[d]
  \/ job[d] = Idle /\ up[d] # <<>>
  \/ ReadHistory(d) \/ Answer(d) \/ BroadcastToRoom(d) \/ Publish(d)

\* How the work of a goroutine changes.
LEMMA JobChanges ==
  ASSUME Types, Faithful, FeedNext
  PROVE  \A d \in Conns : JobChange(d)
<1>1. job' = job => \A d \in Conns : JobChange(d)
  BY DEF JobChange
<1>2. ASSUME NEW c \in Conns, NEW kind, NEW next, Take(c, kind, next)
      PROVE  \A d \in Conns : JobChange(d)
  BY <1>2, TakeAt DEF JobChange
<1>3. ASSUME NEW c \in Conns
      PROVE  /\ ReadHistory(c) => \A d \in Conns : JobChange(d)
             /\ Answer(c) => \A d \in Conns : JobChange(d)
             /\ BroadcastToRoom(c) => \A d \in Conns : JobChange(d)
             /\ Publish(c) => \A d \in Conns : JobChange(d)
  <2>1. \A next : job' = [job EXCEPT ![c] = next] => \A b \in Conns : b # c => job'[b] = job[b]
    BY JobEnds
  <2>2. ReadHistory(c) \/ Answer(c) \/ BroadcastToRoom(c) \/ Publish(c) => \A b \in Conns : b # c => job'[b] = job[b]
    BY <2>1 DEF ReadHistory, Answer, BroadcastToRoom, Publish
  <2> QED BY <2>2 DEF JobChange
<1>4. ASSUME NEW c \in Conns
      PROVE  HandleJoin(c) \/ HandleLoadHistory(c) \/ HandleChatMessage(c) \/ Refuse(c) \/ HandleMessageEdit(c)
             \/ HandleMessageDelete(c) => \E kind, next : Take(c, kind, next)
  BY DEF HandleJoin, HandleLoadHistory, HandleChatMessage, Refuse, HandleMessageEdit, HandleMessageDelete
<1>5. ASSUME NEW u \in Users
      PROVE  /\ \A c \in Conns : OpenSocket(u, c) => job' = job
             /\ LoseSocket(u) => job' = job
             /\ \A t \in Texts : SendMessage(u, t) => job' = job
             /\ \A r \in Requests : AskAbout(u, r) => job' = job
             /\ Handle(u) => job' = job
  BY DEF OpenSocket, LoseSocket, SendMessage, AskAbout, Handle, server
<1>6. HubRegister \/ HubBroadcast => job' = job
  BY DEF HubRegister, HubBroadcast
<1>7. ASSUME NEW c \in Conns, \E kind, next : Take(c, kind, next)
      PROVE  \A d \in Conns : JobChange(d)
  BY <1>2, <1>7
<1> QED BY <1>1, <1>3, <1>4, <1>5, <1>6, <1>7, FeedSteps

\* How the frames of a connection change.
DownChange(c) ==
  \/ down'[c] = down[c]
  \/ \E f \in Frames : down'[c] = Append(down[c], f)
  \/ \E u \in Users : Handle(u) /\ c = conn[u]
  \/ \E u \in Users : LoseSocket(u) /\ c = conn[u]

\* How the frames for a connection change.
LEMMA DownChanges ==
  ASSUME Types, Faithful, FeedNext
  PROVE  \A c \in Conns : DownChange(c)
<1>1. down' = down => \A c \in Conns : DownChange(c)
  BY DEF DownChange
<1>2. ASSUME NEW u \in Users, Handle(u)
      PROVE  \A c \in Conns : DownChange(c)
  <2>1. PICK c : c = conn[u]
    OBVIOUS
  <2>2. \A b \in Conns : b # c => down'[b] = down[b]
    BY <1>2, <2>1, HandleDoes
  <2> QED BY <1>2, <2>1, <2>2 DEF DownChange
<1>3. ASSUME NEW u \in Users, LoseSocket(u)
      PROVE  \A c \in Conns : DownChange(c)
  <2>1. PICK c : c = conn[u]
    OBVIOUS
  <2>2. \A b \in Conns : b # c => down'[b] = down[b]
    BY <1>3, <2>1, LoseDoes
  <2> QED BY <1>3, <2>1, <2>2 DEF DownChange
<1>4. ASSUME NEW d \in Conns, Answer(d)
      PROVE  \A c \in Conns : DownChange(c)
  <2>1. PICK f : f = job[d].frame
    OBVIOUS
  <2>2. f \in Frames /\ (\A b \in Conns : b # d => down'[b] = down[b]) /\ down'[d] \in {down[d], Append(down[d], f)}
    BY <1>4, <2>1, AnswerDoes
  <2> QED BY <2>2 DEF DownChange
<1>5. ASSUME NEW d \in Conns, BroadcastToRoom(d)
      PROVE  \A c \in Conns : DownChange(c)
  <2>1. PICK f : f = job[d].frame
    OBVIOUS
  <2>2. f \in Frames /\ \A b \in Conns : down'[b] \in {down[b], Append(down[b], f)}
    BY <1>5, <2>1, FanDoes
  <2> QED BY <2>2 DEF DownChange
<1>6. ASSUME HubBroadcast
      PROVE  \A c \in Conns : DownChange(c)
  <2>1. PICK f : f = Head(broadcastQ)
    OBVIOUS
  <2>2. f \in Frames /\ \A b \in Conns : down'[b] \in {down[b], Append(down[b], f)}
    BY <1>6, <2>1, HubDoes
  <2> QED BY <2>2 DEF DownChange
<1>7. ASSUME NEW u \in Users
      PROVE  /\ \A c \in Conns : OpenSocket(u, c) => down' = down
             /\ \A t \in Texts : SendMessage(u, t) => down' = down
             /\ \A r \in Requests : AskAbout(u, r) => down' = down
  BY DEF OpenSocket, SendMessage, AskAbout
<1>8. ASSUME NEW c \in Conns
      PROVE  /\ HandleJoin(c) => down' = down
             /\ ReadHistory(c) => down' = down
             /\ HandleLoadHistory(c) => down' = down
             /\ HandleChatMessage(c) => down' = down
             /\ Refuse(c) => down' = down
             /\ HandleMessageEdit(c) => down' = down
             /\ HandleMessageDelete(c) => down' = down
             /\ Publish(c) => down' = down
  BY DEF HandleJoin, ReadHistory, HandleLoadHistory, HandleChatMessage, Refuse, HandleMessageEdit,
         HandleMessageDelete, Publish
<1>9. HubRegister => down' = down
  BY DEF HubRegister
<1> QED BY <1>1, <1>2, <1>3, <1>4, <1>5, <1>6, <1>7, <1>8, <1>9, FeedSteps

\* How the page of a user changes.
PageChange(u) ==
  \/ win'[u] = win[u] /\ conn'[u] = conn[u] /\ (u \in full' <=> u \in full) /\ (u \in guessed' <=> u \in guessed)
  \/ Handle(u)
  \/ \E t \in Texts : SendMessage(u, t)
  \/ \E c \in Conns : OpenSocket(u, c)
  \/ LoseSocket(u)

\* How a page changes.
LEMMA PageChanges ==
  ASSUME Types, Faithful, FeedNext
  PROVE  \A u \in Users : PageChange(u)
<1> DEFINE Same == win' = win /\ conn' = conn /\ full' = full /\ guessed' = guessed
<1>1. Same => \A u \in Users : PageChange(u)
  BY DEF PageChange
<1>7. ASSUME NEW u \in Users
      PROVE  \A r \in Requests : AskAbout(u, r) => Same
  BY DEF AskAbout
<1>8. ASSUME NEW c \in Conns
      PROVE  /\ HandleJoin(c) => Same
             /\ ReadHistory(c) => Same
             /\ HandleLoadHistory(c) => Same
             /\ Answer(c) => Same
             /\ HandleChatMessage(c) => Same
             /\ Refuse(c) => Same
             /\ HandleMessageEdit(c) => Same
             /\ BroadcastToRoom(c) => Same
             /\ HandleMessageDelete(c) => Same
             /\ Publish(c) => Same
  BY DEF HandleJoin, ReadHistory, HandleLoadHistory, Answer, HandleChatMessage, Refuse, HandleMessageEdit,
         BroadcastToRoom, HandleMessageDelete, Publish, pages
<1>9. HubRegister \/ HubBroadcast => Same
  BY DEF HubRegister, HubBroadcast, pages
<1> HIDE DEF Same
<1>2. ASSUME NEW u \in Users, Handle(u)
      PROVE  \A v \in Users : PageChange(v)
  <2>1. PICK c, f : c = conn[u] /\ f = down[c][1]
    OBVIOUS
  <2>2. /\ \A v \in Users : v # u => win'[v] = win[v]
        /\ full' = Filled(u, win'[u])
        /\ guessed' = guessed \/ guessed' = guessed \cup {u}
    BY <1>2, <2>1, HandleDoes
  <2>3. conn' = conn
    BY <1>2, HandleKeeps
  <2>4. \A v \in Users : v # u => (v \in full' <=> v \in full)
    BY <2>2 DEF Filled
  <2> QED BY <1>2, <2>2, <2>3, <2>4 DEF PageChange
<1>3. ASSUME NEW u \in Users, NEW t \in Texts, SendMessage(u, t)
      PROVE  \A v \in Users : PageChange(v)
  <2>2. /\ \A v \in Users : v # u => win'[v] = win[v]
        /\ full' = Filled(u, win'[u])
        /\ guessed' = guessed /\ conn' = conn
    BY <1>3, SendAll
  <2>4. \A v \in Users : v # u => (v \in full' <=> v \in full)
    BY <2>2 DEF Filled
  <2> QED BY <1>3, <2>2, <2>4 DEF PageChange
<1>4. ASSUME NEW u \in Users, NEW c \in Conns, OpenSocket(u, c)
      PROVE  \A v \in Users : PageChange(v)
  <2>1. /\ \A v \in Users : v # u => conn'[v] = conn[v]
        /\ full' = full \ {u} /\ win' = win /\ guessed' = guessed
    BY <1>4, OpenDoes
  <2> QED BY <1>4, <2>1 DEF PageChange
<1>5. ASSUME NEW u \in Users, LoseSocket(u)
      PROVE  \A v \in Users : PageChange(v)
  <2>0. PICK c : c = conn[u]
    OBVIOUS
  <2>1. /\ \A v \in Users : v # u => conn'[v] = conn[v]
        /\ full' = full /\ win' = win /\ guessed' = guessed
    BY <1>5, <2>0, LoseDoes
  <2> QED BY <1>5, <2>1 DEF PageChange
<1> QED BY <1>1, <1>2, <1>3, <1>4, <1>5, <1>7, <1>8, <1>9, FeedSteps

\* What was lost stays lost.
LEMMA LossyGrows ==
  ASSUME Types, Faithful, FeedNext
  PROVE  lossy \subseteq lossy'
<1>1. ASSUME NEW u \in Users
      PROVE  /\ \A c \in Conns : OpenSocket(u, c) => lossy \subseteq lossy'
             /\ LoseSocket(u) => lossy \subseteq lossy'
             /\ \A t \in Texts : SendMessage(u, t) => lossy \subseteq lossy'
             /\ \A r \in Requests : AskAbout(u, r) => lossy \subseteq lossy'
             /\ Handle(u) => lossy \subseteq lossy'
  BY DEF OpenSocket, LoseSocket, SendMessage, AskAbout, Handle
<1>2. ASSUME NEW c \in Conns
      PROVE  /\ HandleJoin(c) => lossy \subseteq lossy'
             /\ ReadHistory(c) => lossy \subseteq lossy'
             /\ HandleLoadHistory(c) => lossy \subseteq lossy'
             /\ Answer(c) => lossy \subseteq lossy'
             /\ HandleChatMessage(c) => lossy \subseteq lossy'
             /\ Refuse(c) => lossy \subseteq lossy'
             /\ HandleMessageEdit(c) => lossy \subseteq lossy'
             /\ BroadcastToRoom(c) => lossy \subseteq lossy'
             /\ HandleMessageDelete(c) => lossy \subseteq lossy'
  BY DEF HandleJoin, ReadHistory, HandleLoadHistory, Answer, HandleChatMessage, Refuse, HandleMessageEdit,
         BroadcastToRoom, HandleMessageDelete
<1>3. \A c \in Conns : Publish(c) => lossy \subseteq lossy'
  BY DEF Publish, Types
<1>4. HubRegister \/ HubBroadcast => lossy \subseteq lossy'
  BY DEF HubRegister, HubBroadcast
<1> QED BY <1>1, <1>2, <1>3, <1>4, FeedSteps

\* A connection that is its page's now was before, or was opened.
LEMMA CurrentSteps ==
  ASSUME Types, Faithful, FeedNext, NEW c \in Conns, Attached(c)'
  PROVE  Attached(c) \/ OpenSocket(Owner[c], c)
<1>1. PICK u \in Users : u = Owner[c]
  BY TypesAt
<1>2. PageChange(u) /\ conn'[u] = c
  BY <1>1, PageChanges DEF Attached
<1>3. \A b \in Conns : OpenSocket(u, b) => conn'[u] = b
  BY OpenDoes
<1>4. ~LoseSocket(u)
  <2> SUFFICES ASSUME LoseSocket(u)
               PROVE  FALSE
    OBVIOUS
  <2>1. PICK b : b = conn[u]
    OBVIOUS
  <2>2. conn'[u] = None
    BY <2>1, LoseDoes
  <2> QED BY <1>2, <2>2, FeedConstants
<1>5. Handle(u) => conn' = conn
  BY HandleKeeps
<1>6. \A t \in Texts : SendMessage(u, t) => conn' = conn
  BY DEF SendMessage
<1> QED BY <1>1, <1>2, <1>3, <1>4, <1>5, <1>6 DEF PageChange, Attached


-----------------------------------------------------------------------------
(***************************************************************************)
(* What comes                                                              *)
(***************************************************************************)

\* A live message leaves what is of the store in the window.
LEMMA LiveKeeps ==
  ASSUME NEW w \in Seq(Told), NEW m \in Told, NEW d, Put(d, w, m) \/ Known(d, w, m) \/ Added(d, w, m),
         Len(d) < MessageCap, m.cid \in Int, m.cid <= 0
  PROVE  m.id \in Ids(d) /\ \A k \in Ids(w) : k > 0 => k \in Ids(d)
<1>1. CASE Put(d, w, m)
  <2>1. PICK at \in DOMAIN w : d = [w EXCEPT ![at] = m] /\ ((m.cid # 0 /\ w[at].id = m.cid) \/ w[at].id < 0)
    BY <1>1 DEF Put
  <2>2. m.id \in Ids(d) /\ Ids(w) \subseteq Ids(d) \cup {w[at].id}
    BY <2>1, InPlace
  <2>3. w[at].id \in Int /\ ~(w[at].id > 0)
    <3>1. w[at] \in Told
      BY <2>1, EntriesAre
    <3>2. w[at].id \in Int
      BY <3>1 DEF Told
    <3> QED BY <2>1, <3>2
  <2> QED BY <2>2, <2>3
<1>2. CASE Known(d, w, m)
  BY <1>2 DEF Known
<1>3. CASE Added(d, w, m)
  BY <1>3 DEF Added
<1> QED BY <1>1, <1>2, <1>3

\* The ids that a frame brings.
Brings(f, id) ==
  \/ f.kind = "message" /\ f.message.id = id
  \/ f.kind = "history" /\ id \in Ids(f.messages)

\* A window that was not cut has what it had and what it is told, but for what is deleted.
LEMMA TreatsKeeps ==
  ASSUME NEW w \in Seq(Told), NEW f \in Frames, NEW u, NEW d, Treats(d, w, f, u), Len(d) < MessageCap,
         NEW id, id > 0, id \in Ids(w) \/ Brings(f, id), ~(f.kind = "delete" /\ f.id = id),
         f.kind = "message" => f.message.cid \in Int /\ f.message.cid <= 0
  PROVE  id \in Ids(d)
<1>1. CASE f.kind = "message"
  <2>1. PICK m : m = f.message
    OBVIOUS
  <2>2. m \in Told /\ (Put(d, w, m) \/ Known(d, w, m) \/ Added(d, w, m)) /\ m.cid \in Int /\ m.cid <= 0
    BY <1>1, <2>1, FrameKinds DEF Treats
  <2>3. m.id \in Ids(d) /\ \A k \in Ids(w) : k > 0 => k \in Ids(d)
    BY <2>2, LiveKeeps
  <2> QED BY <1>1, <2>1, <2>3 DEF Brings
<1>2. CASE f.kind = "edit"
  <2>1. f.text \in TextOrNone
    BY <1>2, FrameKinds
  <2>2. d = w \/ d = EditMessageInPlace(w, f.id, f.text)
    BY <1>2 DEF Treats
  <2>3. Ids(d) = Ids(w)
    BY <2>1, <2>2, EditWindow
  <2> QED BY <1>2, <2>3 DEF Brings
<1>3. CASE f.kind = "delete"
  BY <1>3 DEF Treats, Without, Brings
<1>4. CASE f.kind = "history"
  <2>1. PICK p : p = f.messages
    OBVIOUS
  <2>2. PICK cap, close : cap \in Nat /\ cap >= MessageCap /\ PageMerged(d, w, p, cap, close)
    BY <1>4, <2>1 DEF Treats
  <2>3. Len(d) \in Nat /\ MessageCap \in Nat
    BY <2>2, MessageWindowAssumption DEF PageMerged
  <2>4. Len(d) < cap
    BY <2>2, <2>3
  <2>5. Ids(p) \subseteq Ids(d) /\ \A x \in Ids(w) : x > 0 => x \in Ids(d)
    BY <2>2, <2>4 DEF PageMerged
  <2> QED BY <1>4, <2>1, <2>5 DEF Brings
<1> QED BY <1>1, <1>2, <1>3, <1>4, FrameKinds

\* The page has the message, or a frame for it brings it.
LEMMA ComesBy ==
  ASSUME NEW c \in Conns, NEW id
  PROVE  Comes(c, id) <=> \/ id \in Ids(win[Owner[c]])
                          \/ \E p \in DOMAIN down[c] : Brings(down[c][p], id)
                          \/ job[c].at = "answering" /\ id \in Ids(job[c].frame.messages)
BY DEF Comes, Brings, At

\* The same after a step.
LEMMA ComesAfter ==
  ASSUME NEW c \in Conns, NEW id,
         \/ id \in Ids(win'[Owner[c]])
         \/ \E p \in DOMAIN down'[c] : Brings(down'[c][p], id)
         \/ job'[c].at = "answering" /\ id \in Ids(job'[c].frame.messages)
  PROVE  Comes(c, id)'
BY DEF Comes, Brings, At

\* A page that handles a frame.
LEMMA ComesHandle ==
  ASSUME Types, SocketsKnown, Cids, Faithful, FeedNext, NEW u \in Users, Handle(u), NEW c \in Conns, c = conn[u],
         u \notin full', NEW id \in DOMAIN rows, ~rows[id].gone, Comes(c, id)
  PROVE  Comes(c, id)'
<1>0. PICK f : f = down[c][1]
  OBVIOUS
<1>1. /\ 1 \in DOMAIN down[c] /\ f \in Frames /\ down[c] # <<>>
      /\ down'[c] = Tail(down[c])
      /\ Treats(win'[u], win[u], f, u)
      /\ full' = Filled(u, win'[u])
  BY <1>0, HandleDoes
<1>2. job' = job
  BY HandleKeeps
<1>3. Owner[c] = u
  BY SocketOf, FeedConstants
<1>4. PICK d, w : d = win'[u] /\ w = win[u]
  OBVIOUS
<1>5. Len(d) < MessageCap
  <2>1. d \in Seq(Told)
    BY <1>1, <1>4 DEF Treats
  <2>2. ~(Len(d) >= MessageCap)
    BY <1>1, <1>4 DEF Filled
  <2>3. Len(d) \in Nat /\ MessageCap \in Nat
    BY <2>1, MessageWindowAssumption
  <2> QED BY <2>2, <2>3
<1>6. ~(f.kind = "delete" /\ f.id = id) /\ (f.kind = "message" => f.message.cid \in Int /\ f.message.cid <= 0)
  <2>1. Says(c, f)
    BY <1>0, <1>1 DEF Faithful, FaithFrames
  <2>2. \A r \in DOMAIN rows : rows[r].cid \in Int /\ rows[r].cid <= 0
    BY TypesAt DEF Cids
  <2> QED BY <2>1, <2>2 DEF Says, IsRow
<1>7. CASE id \in Ids(w) \/ Brings(f, id)
  <2>1. id > 0 /\ w \in Seq(Told) /\ Treats(d, w, f, u)
    BY <1>1, <1>4, TypesAt
  <2>2. id \in Ids(d)
    BY <1>1, <1>5, <1>6, <1>7, <2>1, TreatsKeeps
  <2> QED BY <1>3, <1>4, <2>2, ComesAfter
<1>8. CASE \E p \in DOMAIN down[c] : p # 1 /\ Brings(down[c][p], id)
  <2>1. PICK p \in DOMAIN down[c] : p # 1 /\ Brings(down[c][p], id)
    BY <1>8
  <2>2. p - 1 \in DOMAIN down'[c] /\ down'[c][p - 1] = down[c][p]
    BY <1>1, <2>1, DownShrinks
  <2> QED BY <2>1, <2>2, ComesAfter
<1>9. CASE job[c].at = "answering" /\ id \in Ids(job[c].frame.messages)
  BY <1>2, <1>9, ComesAfter
<1> QED BY <1>0, <1>3, <1>4, <1>7, <1>8, <1>9, ComesBy

\* The goroutine answers.
LEMMA ComesAnswer ==
  ASSUME Types, NEW c \in Conns, Answer(c), Attached(c), NEW id, Comes(c, id)
  PROVE  Comes(c, id)'
<1>0. PICK f : f = job[c].frame
  OBVIOUS
<1>1. /\ f \in Frames /\ f.kind = "history" /\ down'[c] = Append(down[c], f) /\ win' = win
  BY <1>0, AnswerDoes
<1>2. PICK n \in Nat :
        /\ DOMAIN down'[c] = DOMAIN down[c] \cup {n} /\ down'[c][n] = f
        /\ \A p \in DOMAIN down[c] : down'[c][p] = down[c][p]
  BY <1>1, DownGrows
<1>3. CASE id \in Ids(win[Owner[c]])
  BY <1>1, <1>3, ComesAfter
<1>4. CASE \E p \in DOMAIN down[c] : Brings(down[c][p], id)
  <2>1. \E p \in DOMAIN down'[c] : Brings(down'[c][p], id)
    BY <1>2, <1>4
  <2> QED BY <2>1, ComesAfter
<1>5. CASE id \in Ids(job[c].frame.messages)
  <2>1. Brings(f, id)
    BY <1>0, <1>1, <1>5 DEF Brings
  <2>2. \E p \in DOMAIN down'[c] : Brings(down'[c][p], id)
    BY <1>2, <2>1
  <2> QED BY <2>2, ComesAfter
<1> QED BY <1>3, <1>4, <1>5, ComesBy

\* What a page has or is told and what is not deleted is not lost on the way.
LEMMA ComesSteps ==
  ASSUME Types, SocketsKnown, Cids, Faithful, FeedNext, NEW c \in Conns, Attached(c), Attached(c)',
         Owner[c] \notin full', NEW id \in DOMAIN rows, ~rows[id].gone, Comes(c, id)
  PROVE  Comes(c, id)'
<1>0. PICK u \in Users : u = Owner[c] /\ conn[u] = c
  BY TypesAt DEF Attached
<1>1. CASE Handle(u)
  BY <1>0, <1>1, ComesHandle
<1>2. CASE Answer(c)
  BY <1>2, ComesAnswer
<1>3. CASE ~Handle(u) /\ ~Answer(c)
  <2>1. \A k \in Ids(win[u]) : k > 0 => k \in Ids(win'[u])
    <3>1. CASE \E t \in Texts : SendMessage(u, t)
      <4>1. PICK k, m : /\ m \in Told /\ k \in Int /\ k = -(asked + 1) /\ k < 0 /\ m.id = k /\ m.cid = k
                        /\ win'[u] \in Seq(Told)
                        /\ Put(win'[u], win[u], m) \/ Known(win'[u], win[u], m) \/ Added(win'[u], win[u], m)
                        /\ full' = Filled(u, win'[u])
        BY <3>1, SendAll
      <4>2. PICK d, w : d = win'[u] /\ w = win[u]
        OBVIOUS
      <4>3. Len(d) < MessageCap
        <5>1. ~(Len(d) >= MessageCap)
          BY <1>0, <4>1, <4>2 DEF Filled
        <5>2. Len(d) \in Nat /\ MessageCap \in Nat
          BY <4>1, <4>2, MessageWindowAssumption
        <5> QED BY <5>1, <5>2
      <4>4. w \in Seq(Told) /\ m.cid \in Int /\ m.cid <= 0
        BY <4>1, <4>2, TypesAt
      <4>5. Put(d, w, m) \/ Known(d, w, m) \/ Added(d, w, m)
        BY <4>1, <4>2
      <4>6. \A k1 \in Ids(w) : k1 > 0 => k1 \in Ids(d)
        BY <4>1, <4>3, <4>4, <4>5, LiveKeeps
      <4> QED BY <4>2, <4>6
    <3>2. win'[u] = win[u] \/ \E t \in Texts : SendMessage(u, t)
      <4>1. \A b \in Conns : OpenSocket(u, b) => win' = win
        BY DEF OpenSocket
      <4>2. LoseSocket(u) => win' = win
        BY DEF LoseSocket
      <4> QED BY <1>3, <4>1, <4>2, PageChanges DEF PageChange
    <3> QED BY <3>1, <3>2
  <2>2. \A p \in DOMAIN down[c] : p \in DOMAIN down'[c] /\ down'[c][p] = down[c][p]
    <3>1. down'[c] = down[c] \/ \E f \in Frames : down'[c] = Append(down[c], f)
      <4>1. ASSUME NEW v \in Users, c = conn[v]
            PROVE  v = u
        <5>1. conn[v] # None
          BY <4>1, FeedConstants
        <5> QED BY <1>0, <4>1, <5>1, SocketOf
      <4>2. ~LoseSocket(u)
        <5> SUFFICES ASSUME LoseSocket(u)
                     PROVE  FALSE
          OBVIOUS
        <5>1. conn'[u] = None
          BY <1>0, LoseDoes
        <5> QED BY <1>0, <5>1, FeedConstants DEF Attached
      <4> QED BY <1>3, <4>1, <4>2, DownChanges DEF DownChange
    <3> QED BY <3>1, AppendAt, TypesAt
  <2>3. job[c].at = "answering" => job'[c] = job[c]
    <3>1. JobChange(c)
      BY JobChanges
    <3>2. ReadHistory(c) \/ BroadcastToRoom(c) \/ Publish(c) => job[c].at # "answering"
      BY DEF ReadHistory, BroadcastToRoom, Publish
    <3>3. Idle.at # "answering"
      BY DEF Idle
    <3> QED BY <1>3, <3>1, <3>2, <3>3 DEF JobChange
  <2>4. CASE id \in Ids(win[Owner[c]])
    <3>1. id > 0
      BY TypesAt
    <3> QED BY <1>0, <2>1, <2>4, <3>1, ComesAfter
  <2>5. CASE \E p \in DOMAIN down[c] : Brings(down[c][p], id)
    BY <2>2, <2>5, ComesAfter
  <2>6. CASE job[c].at = "answering" /\ id \in Ids(job[c].frame.messages)
    BY <2>3, <2>6, ComesAfter
  <2> QED BY <2>4, <2>5, <2>6, ComesBy
<1> QED BY <1>1, <1>2, <1>3

\* Each message that was asked for is stored once at most.
LEMMA RowsBound ==
  ASSUME Types, Cids
  PROVE  Len(rows) <= MaxId /\ Len(rows) <= Len(Stored) + asked
<1> DEFINE k == Len(Stored)
           n == Len(rows)
           S == (k + 1)..n
           T == (-asked)..(-1)
<1>1. k \in Nat /\ n \in Nat /\ asked \in Nat /\ k <= n /\ DOMAIN rows = 1..n /\ asked <= MaxAsked
      /\ MaxAsked \in Nat /\ MaxId = k + MaxAsked
  BY FeedConstants, TypesAt DEF Cids
<1>2. \A i \in S : i \in DOMAIN rows /\ rows[i].cid \in T
  <2> SUFFICES ASSUME NEW i \in S
               PROVE  i \in DOMAIN rows /\ rows[i].cid \in T
    OBVIOUS
  <2>1. i \in DOMAIN rows /\ ~(i <= k)
    BY <1>1
  <2>2. rows[i].cid \in (-asked)..0 /\ rows[i].cid # 0
    BY <2>1 DEF Cids
  <2> HIDE DEF k, n
  <2> QED BY <1>1, <2>1, <2>2
<1>3. \A i, j \in S : rows[i].cid = rows[j].cid => i = j
  <2>1. \A i, j \in DOMAIN rows : rows[i].cid # 0 /\ rows[i].cid = rows[j].cid => i = j
    BY DEF Cids
  <2>2. \A i \in S : rows[i].cid # 0
    BY <1>1, <1>2
  <2> QED BY <1>2, <2>1, <2>2
<1> HIDE DEF k, n
<1>4. IsFiniteSet(S) /\ Cardinality(S) = IF k + 1 > n THEN 0 ELSE n - (k + 1) + 1
  BY <1>1, FS_Interval
<1>5. IsFiniteSet(T) /\ Cardinality(T) = IF -asked > -1 THEN 0 ELSE (-1) - (-asked) + 1
  BY <1>1, FS_Interval
<1>6. Cardinality(T) = asked
  BY <1>1, <1>5
<1> DEFINE f == [i \in S |-> rows[i].cid]
<1>7. f \in [S -> T] /\ ~\E x, y \in S : x # y /\ f[x] = f[y]
  BY <1>2, <1>3
<1>8. ~(Cardinality(T) < Cardinality(S))
  <2> HIDE DEF f, S, T
  <2> QED BY <1>4, <1>5, <1>7, FS_PigeonHole
<1>9. n <= k + asked
  <2> HIDE DEF S, T, f
  <2> QED BY <1>1, <1>4, <1>6, <1>8
<1> QED BY <1>1, <1>9 DEF n, k

\* How the requests of a connection change.
UpChange(c) ==
  \/ up'[c] = up[c]
  \/ \E r \in Requests : up'[c] = Append(up[c], r)
  \/ \E kind, next : Take(c, kind, next) /\ (kind = "join" => next.at = "greeting")
  \/ \E u \in Users : OpenSocket(u, c) \/ (LoseSocket(u) /\ c = conn[u])

\* How the requests of a connection change.
LEMMA UpChanges ==
  ASSUME Types, Faithful, FeedNext
  PROVE  \A c \in Conns : UpChange(c)
<1>1. up' = up => \A c \in Conns : UpChange(c)
  BY DEF UpChange
<1>2. ASSUME NEW b \in Conns, NEW kind, NEW next, Take(b, kind, next), kind = "join" => next.at = "greeting"
      PROVE  \A c \in Conns : UpChange(c)
  <2>1. \A c \in Conns : c # b => up'[c] = up[c]
    BY <1>2, TakeAt
  <2> QED BY <1>2, <2>1 DEF UpChange
<1>3. ASSUME NEW b \in Conns,
             \/ HandleJoin(b) \/ HandleLoadHistory(b) \/ HandleChatMessage(b) \/ Refuse(b) \/ HandleMessageEdit(b)
             \/ HandleMessageDelete(b)
      PROVE  \E kind, next : Take(b, kind, next) /\ (kind = "join" => next.at = "greeting")
  <2>1. [at |-> "greeting"].at = "greeting"
    OBVIOUS
  <2>2. HandleJoin(b) => \E kind, next : Take(b, kind, next) /\ (kind = "join" => next.at = "greeting")
    BY <2>1 DEF HandleJoin
  <2>3. ASSUME ~HandleJoin(b)
        PROVE  \E kind, next : Take(b, kind, next) /\ kind # "join"
    <3>1. ASSUME NEW kind, kind # "join"
          PROVE  (\E next : Take(b, kind, next)) => \E k, next : Take(b, k, next) /\ k # "join"
      BY <3>1
    <3>2. HandleLoadHistory(b) => \E next : Take(b, "load", next)
      BY DEF HandleLoadHistory
    <3>3. HandleChatMessage(b) => \E next : Take(b, "message", next)
      BY DEF HandleChatMessage
    <3>4. HandleMessageEdit(b) => \E next : Take(b, "edit", next)
      BY DEF HandleMessageEdit
    <3>5. HandleMessageDelete(b) => \E next : Take(b, "delete", next)
      BY DEF HandleMessageDelete
    <3>6. Refuse(b) => \E kind \in {"message", "edit", "delete"} : Take(b, kind, Idle)
      BY DEF Refuse
    <3> QED BY <1>3, <2>3, <3>1, <3>2, <3>3, <3>4, <3>5, <3>6
  <2> QED BY <2>2, <2>3
<1>4. ASSUME NEW b \in Conns,
             \/ HandleJoin(b) \/ HandleLoadHistory(b) \/ HandleChatMessage(b) \/ Refuse(b) \/ HandleMessageEdit(b)
             \/ HandleMessageDelete(b)
      PROVE  \A c \in Conns : UpChange(c)
  BY <1>2, <1>3, <1>4
<1>5. ASSUME NEW b \in Conns, ReadHistory(b) \/ Answer(b) \/ BroadcastToRoom(b) \/ Publish(b)
      PROVE  \A c \in Conns : UpChange(c)
  BY <1>1, <1>5 DEF ReadHistory, Answer, BroadcastToRoom, Publish
<1>6. ASSUME NEW u \in Users, NEW b \in Conns, OpenSocket(u, b)
      PROVE  \A c \in Conns : UpChange(c)
  <2>1. \A c \in Conns : c # b => up'[c] = up[c]
    BY <1>6, OpenDoes
  <2> QED BY <1>6, <2>1 DEF UpChange
<1>7. ASSUME NEW u \in Users, LoseSocket(u)
      PROVE  \A c \in Conns : UpChange(c)
  <2>0. PICK b : b = conn[u]
    OBVIOUS
  <2>1. \A c \in Conns : c # b => up'[c] = up[c]
    BY <1>7, <2>0, LoseDoes
  <2> QED BY <1>7, <2>0, <2>1 DEF UpChange
<1>8. ASSUME NEW u \in Users, NEW t \in Texts, SendMessage(u, t)
      PROVE  \A c \in Conns : UpChange(c)
  <2>1. PICK b, r : /\ b \in Conns /\ r \in Requests
                    /\ up'[b] = Append(up[b], r) /\ \A c \in Conns : c # b => up'[c] = up[c]
    BY <1>8, SendAll
  <2> QED BY <2>1 DEF UpChange
<1>9. ASSUME NEW u \in Users, NEW r \in Requests, AskAbout(u, r)
      PROVE  \A c \in Conns : UpChange(c)
  <2>0. PICK b : b = conn[u]
    OBVIOUS
  <2>1. up'[b] = Append(up[b], r) /\ \A c \in Conns : c # b => up'[c] = up[c]
    BY <1>9, <2>0, AskDoes
  <2> QED BY <2>1 DEF UpChange
<1>10. ASSUME NEW u \in Users, Handle(u)
       PROVE  \A c \in Conns : UpChange(c)
  BY <1>1, <1>10 DEF Handle
<1>11. HubRegister \/ HubBroadcast => \A c \in Conns : UpChange(c)
  BY <1>1 DEF HubRegister, HubBroadcast
<1> QED BY <1>4, <1>5, <1>6, <1>7, <1>8, <1>9, <1>10, <1>11, FeedSteps

\* Only the read of its history ends a join.
LEMMA JoiningSteps ==
  ASSUME Types, SocketsKnown, Joins, Faithful, FeedNext, NEW c \in Conns, Attached(c), Attached(c)', Joining(c), ~Joining(c)'
  PROVE  ReadHistory(c)
<1>1. CASE job[c].at = "greeting"
  <2>1. JobChange(c)
    BY JobChanges
  <2>2. Answer(c) \/ BroadcastToRoom(c) \/ Publish(c) => job[c].at # "greeting"
    BY DEF Answer, BroadcastToRoom, Publish
  <2>3. Idle.at # "greeting"
    BY DEF Idle
  <2>4. job'[c] # job[c]
    BY <1>1 DEF Joining
  <2> QED BY <1>1, <2>1, <2>2, <2>3, <2>4 DEF JobChange
<1>2. CASE Asks(c, "join") # {}
  <2>1. Asks(c, "join")' = {} /\ job'[c].at # "greeting"
    BY DEF Joining
  <2>2. UpChange(c)
    BY UpChanges
  <2>3. ~(up'[c] = up[c])
    BY <1>2, <2>1 DEF Asks
  <2>4. ASSUME NEW r \in Requests, up'[c] = Append(up[c], r)
        PROVE  FALSE
    <3>1. PICK p \in DOMAIN up[c] : up[c][p].kind = "join"
      BY <1>2 DEF Asks
    <3>2. p \in DOMAIN up'[c] /\ up'[c][p] = up[c][p]
      BY <2>4, AppendAt, TypesAt
    <3> QED BY <2>1, <3>1, <3>2 DEF Asks
  <2>5. ASSUME NEW kind, NEW next, Take(c, kind, next), kind = "join" => next.at = "greeting"
        PROVE  FALSE
    <3>1. kind = "join"
      BY <1>2, <2>5, TakesJoined
    <3>2. job'[c] = next
      BY <2>5, TakeAt
    <3> QED BY <2>1, <2>5, <3>1, <3>2
  <2>6. ASSUME NEW u \in Users, OpenSocket(u, c)
        PROVE  FALSE
    <3>1. conn[u] = None /\ Owner[c] = u
      BY <2>6, OpenDoes
    <3> QED BY <3>1, FeedConstants DEF Attached
  <2>7. ASSUME NEW u \in Users, LoseSocket(u), c = conn[u]
        PROVE  FALSE
    <3>1. conn'[u] = None
      BY <2>7, LoseDoes
    <3>2. Owner[c] = u
      BY <2>7, FeedConstants, SocketOf
    <3> QED BY <3>1, <3>2, FeedConstants DEF Attached
  <2> QED BY <2>2, <2>3, <2>4, <2>5, <2>6, <2>7 DEF UpChange
<1> QED BY <1>1, <1>2 DEF Joining

\* A fan-out goes on, or is done.
LEMMA FanSteps ==
  ASSUME Types, Faithful, FeedNext, NEW d \in Conns, NEW kind, Fans(d, kind)
  PROVE  job'[d] = job[d] \/ BroadcastToRoom(d)
<1>1. JobChange(d)
  BY JobChanges
<1>2. ReadHistory(d) \/ Answer(d) \/ Publish(d) => job[d].at # "fanning"
  BY DEF ReadHistory, Answer, Publish
<1>3. Idle.at # "fanning"
  BY DEF Idle
<1> QED BY <1>1, <1>2, <1>3 DEF JobChange, Fans

\* What a history is said to have read, but for the step that reads it.
LEMMA ReadSteps ==
  ASSUME Types, Faithful, FeedNext
  PROVE  \A c \in Conns : read'[c] = read[c] \/ ReadHistory(c)
<1>1. ASSUME NEW u \in Users
      PROVE  /\ \A c \in Conns : OpenSocket(u, c) => read' = read
             /\ LoseSocket(u) => read' = read
             /\ \A t \in Texts : SendMessage(u, t) => read' = read
             /\ \A r \in Requests : AskAbout(u, r) => read' = read
             /\ Handle(u) => read' = read
  BY DEF OpenSocket, LoseSocket, SendMessage, AskAbout, Handle, server
<1>2. ASSUME NEW c \in Conns
      PROVE  /\ HandleJoin(c) => read' = read
             /\ HandleLoadHistory(c) => read' = read
             /\ Answer(c) => read' = read
             /\ HandleChatMessage(c) => read' = read
             /\ Refuse(c) => read' = read
             /\ HandleMessageEdit(c) => read' = read
             /\ BroadcastToRoom(c) => read' = read
             /\ HandleMessageDelete(c) => read' = read
             /\ Publish(c) => read' = read
  BY DEF HandleJoin, HandleLoadHistory, Answer, HandleChatMessage, Refuse, HandleMessageEdit,
         BroadcastToRoom, HandleMessageDelete, Publish
<1>3. HubRegister \/ HubBroadcast => read' = read
  BY DEF HubRegister, HubBroadcast
<1>4. ASSUME NEW b \in Conns, ReadHistory(b)
      PROVE  \A c \in Conns : read'[c] = read[c] \/ ReadHistory(c)
  <2>1. \A c \in Conns : c # b => read'[c] = read[c]
    BY <1>4, ReadDoes
  <2> QED BY <1>4, <2>1
<1> QED BY <1>1, <1>2, <1>3, <1>4, FeedSteps

\* Who is in the room, and since when, but for the steps of the register channel.
LEMMA RoomSteps ==
  ASSUME Types, Faithful, FeedNext
  PROVE  HubRegister \/ (room' \subseteq room /\ entered' = entered)
<1>1. ASSUME NEW u \in Users
      PROVE  /\ \A c \in Conns : OpenSocket(u, c) => room' \subseteq room /\ entered' = entered
             /\ LoseSocket(u) => room' \subseteq room /\ entered' = entered
             /\ \A t \in Texts : SendMessage(u, t) => room' \subseteq room /\ entered' = entered
             /\ \A r \in Requests : AskAbout(u, r) => room' \subseteq room /\ entered' = entered
             /\ Handle(u) => room' \subseteq room /\ entered' = entered
  BY DEF OpenSocket, LoseSocket, SendMessage, AskAbout, Handle, server
<1>2. ASSUME NEW c \in Conns
      PROVE  /\ HandleJoin(c) => room' \subseteq room /\ entered' = entered
             /\ ReadHistory(c) => room' \subseteq room /\ entered' = entered
             /\ HandleLoadHistory(c) => room' \subseteq room /\ entered' = entered
             /\ Answer(c) => room' \subseteq room /\ entered' = entered
             /\ HandleChatMessage(c) => room' \subseteq room /\ entered' = entered
             /\ Refuse(c) => room' \subseteq room /\ entered' = entered
             /\ HandleMessageEdit(c) => room' \subseteq room /\ entered' = entered
             /\ BroadcastToRoom(c) => room' \subseteq room /\ entered' = entered
             /\ HandleMessageDelete(c) => room' \subseteq room /\ entered' = entered
             /\ Publish(c) => room' \subseteq room /\ entered' = entered
  BY DEF HandleJoin, ReadHistory, HandleLoadHistory, Answer, HandleChatMessage, Refuse, HandleMessageEdit,
         BroadcastToRoom, HandleMessageDelete, Publish
<1>3. HubBroadcast => room' \subseteq room /\ entered' = entered
  BY DEF HubBroadcast
<1> QED BY <1>1, <1>2, <1>3, FeedSteps

\* A page that keeps its connection is as full as it was.
LEMMA FullSteps ==
  ASSUME Types, Faithful, FeedNext, NEW c \in Conns, Attached(c), Owner[c] \notin full'
  PROVE  Owner[c] \notin full
<1>1. PICK u \in Users : u = Owner[c] /\ conn[u] = c
  BY TypesAt DEF Attached
<1>2. PageChange(u)
  BY PageChanges
<1>3. \A b \in Conns : ~OpenSocket(u, b)
  BY <1>1, FeedConstants DEF OpenSocket
<1>4. LoseSocket(u) => full' = full
  BY DEF LoseSocket
<1>5. Handle(u) => full' = Filled(u, win'[u])
  <2>1. PICK b, f : b = conn[u] /\ f = down[b][1]
    OBVIOUS
  <2> QED BY <2>1, HandleDoes
<1>6. \A t \in Texts : SendMessage(u, t) => full' = Filled(u, win'[u])
  BY SendAll
<1>7. full' = Filled(u, win'[u]) => u \notin full
  BY <1>1 DEF Filled
<1> QED BY <1>1, <1>2, <1>3, <1>4, <1>5, <1>6, <1>7 DEF PageChange

\* A row that is not deleted was not.
LEMMA GoneStays ==
  ASSUME Types, Faithful, FeedNext, NEW id \in DOMAIN rows
  PROVE  id \in DOMAIN rows' /\ (~rows'[id].gone => ~rows[id].gone)
BY StoreGrows DEF RowsGrow

\* The newest row is being told, or there is none.
LEMMA NewestSteps ==
  ASSUME Types, Faithful, FeedNext, NEW id \in DOMAIN rows', id \notin DOMAIN rows
  PROVE  \E c \in Conns : HandleChatMessage(c) /\ id = Len(rows) + 1
<1>1. ~SameRows
  BY DEF SameRows
<1>2. PICK c \in Conns : HandleChatMessage(c)
  BY <1>1, RowSteps
<1>3. PICK n : n = Len(rows) + 1
  OBVIOUS
<1>4. DOMAIN rows' = DOMAIN rows \cup {n}
  BY <1>2, <1>3, ChatDoes
<1> QED BY <1>2, <1>3, <1>4

\* The history of a join brings the last messages of the store.
LEMMA HistoryComesStep ==
  ASSUME Types, SocketsKnown, Joins, Cids, Faithful, Coming, FeedNext, NEW c \in Conns, Attached(c)', Owner[c] \notin full'
  PROVE  HistoryComes(c)'
<1> SUFFICES ASSUME ~Joining(c)', NEW id \in DOMAIN rows', read'[c] - JoinPage < id, id <= read'[c], ~rows'[id].gone
             PROVE  Comes(c, id)'
  BY DEF HistoryComes
<1>1. CASE ReadHistory(c)
  <2>1. PICK page \in Seq(Told) :
           /\ Len(rows) <= MaxId =>
                \A i \in DOMAIN rows : i > Len(rows) - JoinPage => i \in Ids(page)
           /\ job'[c] = [at |-> "answering", frame |-> [kind |-> "history", messages |-> page]]
           /\ read'[c] = Len(rows) /\ rows' = rows
    BY <1>1, ReadDoes
  <2>2. id > Len(rows) - JoinPage
    BY <2>1, TypesAt, FeedConstants
  <2>3. id \in Ids(page)
    BY <2>1, <2>2, RowsBound
  <2>4. job'[c].at = "answering" /\ id \in Ids(job'[c].frame.messages)
    BY <2>1, <2>3
  <2> QED BY <2>4, ComesAfter
<1>2. CASE ~ReadHistory(c)
  <2>1. read'[c] = read[c]
    BY <1>2, ReadSteps
  <2>2. Attached(c)
    <3>1. ASSUME OpenSocket(Owner[c], c)
          PROVE  FALSE
      <4>1. up'[c] = <<[kind |-> "join"]>>
        BY <3>1, TypesAt, OpenDoes
      <4>2. 1 \in Asks(c, "join")'
        BY <4>1 DEF Asks
      <4> QED BY <4>2 DEF Joining
    <3> QED BY <3>1, CurrentSteps
  <2>3. ~Joining(c)
    BY <1>2, <2>2, JoiningSteps
  <2>4. id \in DOMAIN rows /\ ~rows[id].gone
    <3>1. id \in DOMAIN rows
      <4>1. read[c] <= Len(rows)
        BY DEF Faithful, FaithCounts
      <4> QED BY <2>1, <4>1, NewestSteps, TypesAt
    <3> QED BY <3>1, GoneStays
  <2>5. Owner[c] \notin full
    BY <2>2, FullSteps
  <2>6. Comes(c, id)
    BY <2>1, <2>2, <2>3, <2>4, <2>5 DEF Coming, HistoryComes
  <2> QED BY <2>2, <2>4, <2>6, ComesSteps
<1> QED BY <1>1, <1>2

\* What was stored since comes live.
LEMMA LiveComesStep ==
  ASSUME Types, SocketsKnown, Joins, Cids, Faithful, Coming, FeedNext, NEW c \in Conns, Attached(c)', Owner[c] \notin full'
  PROVE  LiveComes(c)'
<1> SUFFICES ASSUME c \in room', NEW id \in DOMAIN rows', entered'[c] < id, ~rows'[id].gone
             PROVE  Comes(c, id)' \/ \E d \in Conns : Fans(d, "message")' /\ job'[d].frame.message.id = id
  BY DEF LiveComes
<1>1. CASE id \notin DOMAIN rows
  <2>1. PICK d \in Conns : HandleChatMessage(d) /\ id = Len(rows) + 1
    BY <1>1, NewestSteps
  <2> DEFINE m == [id |-> id, cid |-> up[d][1].cid, user |-> Owner[d], text |-> up[d][1].text]
             next == [at |-> "fanning", frame |-> [kind |-> "message", message |-> m]]
  <2>2. Take(d, "message", next)
    BY <2>1, ChatDoes
  <2>3. job'[d] = next
    BY <2>2, TakeAt
  <2>4. job'[d].at = "fanning" /\ job'[d].frame.kind = "message" /\ job'[d].frame.message.id = id
    BY <2>3
  <2> QED BY <2>4 DEF Fans
<1>2. CASE id \in DOMAIN rows
  <2>1. ~rows[id].gone
    BY <1>2, GoneStays
  <2>2. CASE HubRegister
    <3>1. PICK b : b = Head(registerQ)
      OBVIOUS
    <3>2. /\ \A d : d \in room' <=> (d \in room /\ Owner[d] # Owner[b]) \/ (d = b /\ Attached(b))
          /\ entered'[b] = Len(rows) /\ \A d \in Conns : d # b => entered'[d] = entered[d]
          /\ UNCHANGED <<rows, broadcastQ, job, read, had, up, down>>
          /\ UNCHANGED <<conn, used, joined, loaded, win, asked, full, guessed, lossy>>
      BY <2>2, <3>1, RegisterDoes
    <3>3. c # b
      BY <1>2, <3>2, TypesAt
    <3>4. c \in room /\ entered'[c] = entered[c] /\ Attached(c)
      BY <3>2, <3>3 DEF Attached
    <3>5. Comes(c, id) \/ \E d \in Conns : Fans(d, "message") /\ job[d].frame.message.id = id
      BY <1>2, <2>1, <3>2, <3>4 DEF Coming, LiveComes
    <3> QED BY <3>2, <3>5 DEF Comes, Fans, At
  <2>3. CASE room' \subseteq room /\ entered' = entered
    <3>1. c \in room
      BY <2>3
    <3>2. Attached(c)
      BY <3>1 DEF SocketsKnown
    <3>3. Owner[c] \notin full
      BY <3>2, FullSteps
    <3>4. Comes(c, id) \/ \E d \in Conns : Fans(d, "message") /\ job[d].frame.message.id = id
      BY <1>2, <2>1, <2>3, <3>1, <3>2, <3>3 DEF Coming, LiveComes
    <3>5. CASE Comes(c, id)
      BY <1>2, <2>1, <3>2, <3>5, ComesSteps
    <3>6. CASE \E d \in Conns : Fans(d, "message") /\ job[d].frame.message.id = id
      <4>1. PICK d \in Conns : Fans(d, "message") /\ job[d].frame.message.id = id
        BY <3>6
      <4>2. CASE job'[d] = job[d]
        BY <4>1, <4>2 DEF Fans
      <4>3. CASE BroadcastToRoom(d)
        <5>1. PICK f : f = job[d].frame
          OBVIOUS
        <5>2. f \in Frames /\ down'[c] = Append(down[c], f)
          BY <3>1, <3>2, <4>3, <5>1, FanDoes
        <5>3. PICK n \in Nat : DOMAIN down'[c] = DOMAIN down[c] \cup {n} /\ down'[c][n] = f
          BY <5>2, DownGrows
        <5>4. Brings(f, id)
          BY <4>1, <5>1 DEF Brings, Fans
        <5>5. \E p \in DOMAIN down'[c] : Brings(down'[c][p], id)
          BY <5>3, <5>4
        <5> QED BY <5>5, ComesAfter
      <4> QED BY <4>1, <4>2, <4>3, FanSteps
    <3> QED BY <3>4, <3>5, <3>6
  <2> QED BY <2>2, <2>3, RoomSteps
<1> QED BY <1>1, <1>2

\* What should come still does.
LEMMA ComingStep ==
  ASSUME Types, SocketsKnown, Joins, Cids, Faithful, Coming, FeedNext
  PROVE  Coming'
<1> SUFFICES ASSUME NEW c \in Conns, Attached(c)', Owner[c] \notin full'
             PROVE  HistoryComes(c)' /\ LiveComes(c)'
  BY DEF Coming
<1> QED BY HistoryComesStep, LiveComesStep

\* When nothing is under way, a page that joined misses what is in the gap only.
LEMMA CaughtUpHolds ==
  ASSUME Types, SocketsKnown, Joins, Coming
  PROVE  CaughtUp
<1> SUFFICES ASSUME Quiet, NEW u \in Users, Settled(u), NEW id \in DOMAIN rows,
                    id > read[conn[u]] - JoinPage, ~rows[id].gone, u \notin full, Entries(u, id) = {}
             PROVE  id \in Gap(conn[u])
  BY DEF CaughtUp
<1>1. PICK c \in Conns : c = conn[u] /\ Owner[c] = u /\ Attached(c) /\ c \in room
  BY SocketOf DEF Settled
<1>2. up[c] = <<>> /\ down[c] = <<>> /\ \A d \in Conns : job[d] = Idle
  BY DEF Quiet
<1>3. \A d \in Conns : ~Fans(d, "message") /\ job[d].at # "answering" /\ job[d].at # "greeting"
  BY <1>2 DEF Fans, Idle
<1>4. ~Comes(c, id)
  <2>1. \A p \in DOMAIN down[c] : FALSE
    BY <1>2
  <2>2. id \notin Ids(win[u])
    BY DEF Entries, Ids
  <2> QED BY <1>1, <1>3, <2>1, <2>2, ComesBy
<1>5. ~Joining(c)
  BY <1>2, <1>3 DEF Joining, Asks
<1>6. HistoryComes(c) /\ LiveComes(c)
  BY <1>1 DEF Coming
<1>7. ~(id <= read[c])
  BY <1>1, <1>4, <1>5, <1>6 DEF HistoryComes
<1>8. ~(entered[c] < id)
  BY <1>1, <1>3, <1>4, <1>6 DEF LiveComes
<1>9. id \in Int /\ read[c] \in Int /\ entered[c] \in Int
  BY TypesAt
<1> QED BY <1>1, <1>7, <1>8, <1>9 DEF Gap


-----------------------------------------------------------------------------
(***************************************************************************)
(* How the frames move                                                     *)
(***************************************************************************)

\* Frames that a step brings to a connection.
Arrives(c, f) ==
  /\ Attached(c) /\ f \in Frames
  /\ \/ \E d \in Conns : BroadcastToRoom(d) /\ f = job[d].frame /\ c \in room
     \/ Answer(c) /\ f = job[c].frame
     \/ HubBroadcast /\ broadcastQ # <<>> /\ f = Head(broadcastQ) /\ f.kind = "delete" /\ c \in room

\* Frames stay s places earlier, and one comes to place n.
Moves(c, s, n) ==
  /\ s \in {0, 1} /\ n \in Nat /\ (s = 1 => n = 0)
  /\ \A p \in DOMAIN down'[c] :
       /\ p \in Nat /\ p # 0
       /\ p # n => /\ p + s \in DOMAIN down[c] /\ down'[c][p] = down[c][p + s]
                   /\ n # 0 => p < n
  /\ s = 1 <=> \E u \in Users : Handle(u) /\ c = conn[u]
  /\ n # 0 => n \in DOMAIN down'[c] /\ Arrives(c, down'[c][n])

\* A page handles the first frame.
LEMMA HandleMoves ==
  ASSUME Types, Faithful, NEW u \in Users, Handle(u), NEW c \in Conns
  PROVE  \E s, n : Moves(c, s, n)
<1>1. PICK b, f : b = conn[u] /\ f = down[b][1]
  OBVIOUS
<1>2. /\ b \in Conns /\ down[b] # <<>> /\ down'[b] = Tail(down[b]) /\ \A x \in Conns : x # b => down'[x] = down[x]
  BY <1>1, HandleDoes
<1>4. CASE ~\E v \in Users : Handle(v) /\ c = conn[v]
  <2>1. down'[c] = down[c]
    BY <1>1, <1>2, <1>4
  <2>2. \A p \in DOMAIN down[c] : p \in Nat /\ p # 0 /\ p + 0 = p
    BY TypesAt, EmptyAt
  <2>3. Moves(c, 0, 0)
    BY <1>4, <2>1, <2>2 DEF Moves
  <2> QED BY <2>3
<1>5. ASSUME NEW v \in Users, Handle(v), c = conn[v]
      PROVE  \E s, n : Moves(c, s, n)
  <2>1. PICK g : g = down[c][1]
    OBVIOUS
  <2>2. down[c] # <<>> /\ down'[c] = Tail(down[c])
    BY <1>5, <2>1, HandleDoes
  <2>3. \A p \in DOMAIN down'[c] : p \in Nat /\ p + 1 \in DOMAIN down[c] /\ down'[c][p] = down[c][p + 1]
    BY <2>2, DownShrinks
  <2>4. 0 \notin DOMAIN down'[c]
    BY <2>2, TailAt, TypesAt
  <2>5. Moves(c, 1, 0)
    BY <1>5, <2>3, <2>4 DEF Moves
  <2> QED BY <2>5
<1> QED BY <1>4, <1>5

\* A frame comes.
LEMMA ArriveMoves ==
  ASSUME Types, Faithful, NEW c \in Conns, NEW f, Arrives(c, f), down'[c] = Append(down[c], f),
         ~\E u \in Users : Handle(u) /\ c = conn[u]
  PROVE  \E s, n : Moves(c, s, n)
<1> DEFINE n == Len(down[c]) + 1
<1>1. down[c] \in Seq(Frames) /\ f \in Frames
  BY TypesAt DEF Arrives
<1>2. /\ n \in Nat /\ n # 0 /\ n \in DOMAIN down'[c] /\ down'[c][n] = f
      /\ \A p \in DOMAIN down'[c] : p \in DOMAIN down[c] \/ p = n
      /\ \A p \in DOMAIN down[c] : down'[c][p] = down[c][p] /\ p \in Nat /\ p < n /\ p # 0
  BY <1>1, AppendAt
<1> HIDE DEF n
<1>3. \A p \in DOMAIN down[c] : p + 0 = p
  BY <1>2
<1>4. Moves(c, 0, n)
  BY <1>2, <1>3 DEF Moves
<1> QED BY <1>4

\* Nothing comes, or all is lost.
LEMMA StillMoves ==
  ASSUME Types, NEW c \in Conns, down'[c] = down[c] \/ down'[c] = <<>>,
         ~\E u \in Users : Handle(u) /\ c = conn[u]
  PROVE  \E s, n : Moves(c, s, n)
<1>1. \A p \in DOMAIN down[c] : p \in Nat /\ p # 0 /\ p + 0 = p
  BY TypesAt, EmptyAt
<1>2. \A p \in DOMAIN down'[c] : p \in DOMAIN down[c] /\ down'[c][p] = down[c][p]
  OBVIOUS
<1>3. Moves(c, 0, 0)
  BY <1>1, <1>2 DEF Moves
<1> QED BY <1>3

\* Every step moves the frames of every connection so.
LEMMA FrameMoves ==
  ASSUME Types, Faithful, FeedNext, NEW c \in Conns
  PROVE  \E s, n : Moves(c, s, n)
<1>1. CASE \E u \in Users : Handle(u)
  BY <1>1, HandleMoves
<1>2. CASE ~\E u \in Users : Handle(u)
  <2>1. ASSUME NEW u \in Users, LoseSocket(u)
        PROVE  down'[c] = down[c] \/ down'[c] = <<>>
    <3>1. PICK b : b = conn[u]
      OBVIOUS
    <3>2. down'[b] = <<>> /\ \A x \in Conns : x # b => down'[x] = down[x]
      BY <2>1, <3>1, LoseDoes
    <3> QED BY <3>2
  <2>2. ASSUME NEW d \in Conns, Answer(d)
        PROVE  down'[c] = down[c] \/ \E f : Arrives(c, f) /\ down'[c] = Append(down[c], f)
    <3>1. PICK f : f = job[d].frame
      OBVIOUS
    <3>2. /\ f \in Frames
          /\ down'[d] = IF Attached(d) THEN Append(down[d], f) ELSE down[d]
          /\ \A b \in Conns : b # d => down'[b] = down[b]
      BY <2>2, <3>1, AnswerDoes
    <3>3. c = d /\ Attached(d) => Arrives(c, f)
      BY <2>2, <3>1, <3>2 DEF Arrives
    <3> QED BY <3>2, <3>3
  <2>3. ASSUME NEW d \in Conns, BroadcastToRoom(d)
        PROVE  down'[c] = down[c] \/ \E f : Arrives(c, f) /\ down'[c] = Append(down[c], f)
    <3>1. PICK f : f = job[d].frame
      OBVIOUS
    <3>2. /\ f \in Frames
          /\ \A b \in Conns : down'[b] = IF b \in room /\ Attached(b) THEN Append(down[b], f) ELSE down[b]
      BY <2>3, <3>1, FanDoes
    <3>3. c \in room /\ Attached(c) => Arrives(c, f)
      BY <2>3, <3>1, <3>2 DEF Arrives
    <3> QED BY <3>2, <3>3
  <2>4. ASSUME HubBroadcast
        PROVE  down'[c] = down[c] \/ \E f : Arrives(c, f) /\ down'[c] = Append(down[c], f)
    <3>1. PICK f : f = Head(broadcastQ)
      OBVIOUS
    <3>2. /\ f \in Frames /\ f.kind = "delete" /\ broadcastQ # <<>>
          /\ \A b \in Conns : down'[b] = IF b \in room /\ Attached(b) THEN Append(down[b], f) ELSE down[b]
      BY <2>4, <3>1, HubDoes
    <3>3. c \in room /\ Attached(c) => Arrives(c, f)
      BY <2>4, <3>1, <3>2 DEF Arrives
    <3> QED BY <3>2, <3>3
  <2>5. ASSUME down' = down
        PROVE  down'[c] = down[c]
    BY <2>5
  <2>7. ASSUME NEW u \in Users
        PROVE  /\ \A b \in Conns : OpenSocket(u, b) => down' = down
               /\ \A t \in Texts : SendMessage(u, t) => down' = down
               /\ \A r \in Requests : AskAbout(u, r) => down' = down
    BY DEF OpenSocket, SendMessage, AskAbout
  <2>8. ASSUME NEW b \in Conns
        PROVE  /\ HandleJoin(b) => down' = down
               /\ ReadHistory(b) => down' = down
               /\ HandleLoadHistory(b) => down' = down
               /\ HandleChatMessage(b) => down' = down
               /\ Refuse(b) => down' = down
               /\ HandleMessageEdit(b) => down' = down
               /\ HandleMessageDelete(b) => down' = down
               /\ Publish(b) => down' = down
    BY DEF HandleJoin, ReadHistory, HandleLoadHistory, HandleChatMessage, Refuse, HandleMessageEdit,
           HandleMessageDelete, Publish
  <2>9. HubRegister => down' = down
    BY DEF HubRegister
  <2>10. \/ down'[c] = down[c] \/ down'[c] = <<>>
         \/ \E f : Arrives(c, f) /\ down'[c] = Append(down[c], f)
    BY <1>2, <2>1, <2>2, <2>3, <2>4, <2>5, <2>7, <2>8, <2>9, FeedSteps
  <2> QED BY <1>2, <2>10, ArriveMoves, StillMoves
<1> QED BY <1>1, <1>2

\* A goroutine fans what it fanned, or a message or an edit it just stored.
LEMMA FansNew ==
  ASSUME Types, Faithful, FeedNext, NEW c \in Conns, job'[c].at = "fanning"
  PROVE  \/ job'[c] = job[c] /\ job[c].at = "fanning" /\ ~BroadcastToRoom(c)
         \/ HandleChatMessage(c)
         \/ HandleMessageEdit(c)
<1> DEFINE Other == job'[c] = job[c] \/ job'[c].at # "fanning"
<1>1. job' = job => Other
  OBVIOUS
<1>2. ASSUME NEW b \in Conns, NEW kind, NEW next, Take(b, kind, next), next.at # "fanning"
      PROVE  Other
  BY <1>2, TakeAt
<1>3. ASSUME NEW b \in Conns, NEW kind, NEW next, Take(b, kind, next), b # c
      PROVE  Other
  BY <1>3, TakeAt
<1>4. ASSUME NEW b \in Conns, NEW next, job' = [job EXCEPT ![b] = next], next.at # "fanning"
      PROVE  Other
  BY <1>4, JobEnds
<1> HIDE DEF Other
<1>5. Idle.at # "fanning"
  BY DEF Idle
<1>6. ASSUME NEW b \in Conns, HandleJoin(b) \/ HandleLoadHistory(b) \/ Refuse(b) \/ HandleMessageDelete(b)
      PROVE  \E kind, next : Take(b, kind, next) /\ next.at # "fanning"
  <2>1. HandleJoin(b) => Take(b, "join", [at |-> "greeting"])
    BY DEF HandleJoin
  <2>2. HandleLoadHistory(b) => \E f : Take(b, "load", [at |-> "answering", frame |-> f])
    BY DEF HandleLoadHistory
  <2>3. HandleMessageDelete(b) => \E f : Take(b, "delete", [at |-> "publishing", frame |-> f])
    BY DEF HandleMessageDelete
  <2>4. Refuse(b) => \E kind : Take(b, kind, Idle)
    BY DEF Refuse
  <2>5. /\ [at |-> "greeting"].at # "fanning"
        /\ \A f : [at |-> "answering", frame |-> f].at # "fanning"
        /\ \A f : [at |-> "publishing", frame |-> f].at # "fanning"
    OBVIOUS
  <2> QED BY <1>5, <1>6, <2>1, <2>2, <2>3, <2>4, <2>5
<1>7. ASSUME NEW b \in Conns, HandleJoin(b) \/ HandleLoadHistory(b) \/ Refuse(b) \/ HandleMessageDelete(b)
      PROVE  Other
  BY <1>2, <1>6, <1>7
<1>8. ASSUME NEW b \in Conns, HandleChatMessage(b), b # c
      PROVE  Other
  BY <1>3, <1>8 DEF HandleChatMessage
<1>9. ASSUME NEW b \in Conns, HandleMessageEdit(b), b # c
      PROVE  Other
  BY <1>3, <1>9 DEF HandleMessageEdit
<1>10. ASSUME NEW b \in Conns, Answer(b) \/ BroadcastToRoom(b) \/ Publish(b)
       PROVE  Other
  BY <1>4, <1>5, <1>10 DEF Answer, BroadcastToRoom, Publish
<1>11. ASSUME NEW b \in Conns, ReadHistory(b)
       PROVE  Other
  <2>1. \A f : [at |-> "answering", frame |-> f].at # "fanning"
    OBVIOUS
  <2>2. \E f : job' = [job EXCEPT ![b] = [at |-> "answering", frame |-> f]]
    BY <1>11 DEF ReadHistory
  <2> QED BY <1>4, <2>1, <2>2
<1>12. ASSUME NEW u \in Users
       PROVE  /\ \A b \in Conns : OpenSocket(u, b) => job' = job
              /\ LoseSocket(u) => job' = job
              /\ \A t \in Texts : SendMessage(u, t) => job' = job
              /\ \A r \in Requests : AskAbout(u, r) => job' = job
              /\ Handle(u) => job' = job
  BY DEF OpenSocket, LoseSocket, SendMessage, AskAbout, Handle, server
<1>13. HubRegister \/ HubBroadcast => job' = job
  BY DEF HubRegister, HubBroadcast
<1>14. Other \/ HandleChatMessage(c) \/ HandleMessageEdit(c)
  BY <1>1, <1>7, <1>8, <1>9, <1>10, <1>11, <1>12, <1>13, FeedSteps
<1>15. ~BroadcastToRoom(c)
  <2> SUFFICES ASSUME BroadcastToRoom(c)
               PROVE  FALSE
    OBVIOUS
  <2>1. job'[c] = Idle
    <3>1. PICK f : f = job[c].frame
      OBVIOUS
    <3> QED BY <3>1, FanDoes
  <2> QED BY <1>5, <2>1
<1> QED BY <1>14, <1>15 DEF Other

\* The message that was just stored.
LEMMA ChatFans ==
  ASSUME Types, NEW c \in Conns, HandleChatMessage(c), NEW n, n = Len(rows) + 1
  PROVE  /\ Fans(c, "message")' /\ ~Fans(c, "message") /\ job[c] = Idle
         /\ job'[c].frame.message.id = n /\ job'[c].frame.message.user = Owner[c]
         /\ job'[c].frame.message.cid = up[c][1].cid /\ job'[c].frame.message.text = up[c][1].text
         /\ n \in Nat /\ n \notin DOMAIN rows /\ DOMAIN rows' = DOMAIN rows \cup {n}
         /\ (\A i \in DOMAIN rows : rows'[i] = rows[i] /\ i < n) /\ rows'[n] = NewRow(c)
         /\ up[c][1].kind = "message" /\ 1 \in DOMAIN up[c] /\ up'[c] = Tail(up[c])
         /\ \A b \in Conns : b # c => job'[b] = job[b] /\ up'[b] = up[b]
<1> DEFINE m == [id |-> n, cid |-> up[c][1].cid, user |-> Owner[c], text |-> up[c][1].text]
           next == [at |-> "fanning", frame |-> [kind |-> "message", message |-> m]]
<1>1. /\ Take(c, "message", next) /\ n \in Nat /\ n \notin DOMAIN rows /\ DOMAIN rows' = DOMAIN rows \cup {n}
      /\ (\A i \in DOMAIN rows : rows'[i] = rows[i]) /\ rows'[n] = NewRow(c)
  BY ChatDoes
<1>2. /\ next.at = "fanning" /\ next.frame.kind = "message" /\ next.frame.message.id = n
      /\ next.frame.message.user = Owner[c] /\ next.frame.message.cid = up[c][1].cid
      /\ next.frame.message.text = up[c][1].text
  OBVIOUS
<1> HIDE DEF m, next
<1>3. /\ job'[c] = next /\ job[c] = Idle /\ up[c][1].kind = "message" /\ 1 \in DOMAIN up[c] /\ up'[c] = Tail(up[c])
      /\ \A b \in Conns : b # c => job'[b] = job[b] /\ up'[b] = up[b]
  BY <1>1, TakeAt
<1>4. \A i \in DOMAIN rows : i < n
  BY TypesAt
<1>5. ~Fans(c, "message")
  BY <1>3, IdleFans
<1> QED BY <1>1, <1>2, <1>3, <1>4, <1>5 DEF Fans

\* A message that is fanned was, or was just stored.
LEMMA FansMessage ==
  ASSUME Types, Faithful, FeedNext, NEW c \in Conns, Fans(c, "message")'
  PROVE  \/ Fans(c, "message") /\ job'[c] = job[c] /\ ~BroadcastToRoom(c)
         \/ HandleChatMessage(c)
<1>1. job'[c].at = "fanning" /\ job'[c].frame.kind = "message"
  BY DEF Fans
<1>2. ~HandleMessageEdit(c)
  <2> SUFFICES ASSUME HandleMessageEdit(c)
               PROVE  FALSE
    OBVIOUS
  <2>1. PICK id, t : Take(c, "edit", [at |-> "fanning", frame |-> [kind |-> "edit", id |-> id, text |-> t]])
    BY DEF HandleMessageEdit
  <2>2. job'[c].frame.kind = "edit"
    BY <2>1, TakeAt
  <2> QED BY <1>1, <2>2
<1> QED BY <1>1, <1>2, FansNew DEF Fans

\* Only the goroutine of a connection reads history for it, and then it fans nothing.
LEMMA HadSteps ==
  ASSUME Types, Faithful, FeedNext, NEW c \in Conns
  PROVE  had'[c] = had[c] \/ job'[c].at = "answering"
<1>1. ASSUME NEW u \in Users
      PROVE  /\ \A b \in Conns : OpenSocket(u, b) => had' = had
             /\ LoseSocket(u) => had' = had
             /\ \A t \in Texts : SendMessage(u, t) => had' = had
             /\ \A r \in Requests : AskAbout(u, r) => had' = had
             /\ Handle(u) => had' = had
  BY DEF OpenSocket, LoseSocket, SendMessage, AskAbout, Handle, server
<1>2. ASSUME NEW b \in Conns
      PROVE  /\ HandleJoin(b) => had' = had
             /\ Answer(b) => had' = had
             /\ HandleChatMessage(b) => had' = had
             /\ Refuse(b) => had' = had
             /\ HandleMessageEdit(b) => had' = had
             /\ BroadcastToRoom(b) => had' = had
             /\ HandleMessageDelete(b) => had' = had
             /\ Publish(b) => had' = had
  BY DEF HandleJoin, Answer, HandleChatMessage, Refuse, HandleMessageEdit, BroadcastToRoom,
         HandleMessageDelete, Publish
<1>3. HubRegister \/ HubBroadcast => had' = had
  BY DEF HubRegister, HubBroadcast
<1>4. ASSUME NEW b \in Conns, ReadHistory(b)
      PROVE  had'[c] = had[c] \/ job'[c].at = "answering"
  <2>1. /\ \A x \in Conns : x # b => had'[x] = had[x]
        /\ job'[b].at = "answering"
    <3>1. PICK p \in Seq(Told) :
            /\ job'[b] = [at |-> "answering", frame |-> [kind |-> "history", messages |-> p]]
            /\ \A x \in Conns : x # b => job'[x] = job[x] /\ read'[x] = read[x] /\ had'[x] = had[x]
      BY <1>4, ReadDoes
    <3> QED BY <3>1
  <2> QED BY <2>1
<1>5. ASSUME NEW b \in Conns, HandleLoadHistory(b)
      PROVE  had'[c] = had[c] \/ job'[c].at = "answering"
  <2>1. PICK p : /\ Take(b, "load", [at |-> "answering", frame |-> [kind |-> "history", messages |-> p]])
                 /\ \A x \in Conns : x # b => had'[x] = had[x]
    BY <1>5, LoadDoes
  <2>2. job'[b].at = "answering"
    BY <2>1, TakeAt
  <2> QED BY <2>1, <2>2
<1> QED BY <1>1, <1>2, <1>3, <1>4, <1>5, FeedSteps

\* What a window has of the store it had, or the frame brought it.
LEMMA WinNew ==
  ASSUME Types, Types', Faithful, FeedNext, NEW u \in Users, NEW k \in Ids(win'[u]), k > 0
  PROVE  k \in Ids(win[u]) \/ (Handle(u) /\ Brings(down[conn[u]][1], k))
<1>1. CASE Handle(u)
  <2>1. PICK c, f : c = conn[u] /\ f = down[c][1]
    OBVIOUS
  <2>2. f \in Frames /\ Treats(win'[u], win[u], f, u)
    BY <1>1, <2>1, HandleDoes
  <2>3. PICK d, w : d = win'[u] /\ w = win[u]
    OBVIOUS
  <2>4. w \in Seq(Told) /\ Treats(d, w, f, u)
    BY <2>2, <2>3, TypesAt
  <2>5. PICK i \in DOMAIN d : d[i].id = k
    BY <2>3 DEF Ids
  <2>6. \/ \E j \in DOMAIN w : d[i].id = w[j].id
        \/ f.kind = "message" /\ d[i] = f.message
        \/ f.kind = "history" /\ \E q \in DOMAIN f.messages : d[i] = f.messages[q]
    BY <2>2, <2>4, TreatsEntries
  <2> QED BY <1>1, <2>1, <2>3, <2>5, <2>6 DEF Brings, Ids
<1>2. CASE \E t \in Texts : SendMessage(u, t)
  <2>1. PICK n, m : /\ m \in Told /\ n \in Int /\ n = -(asked + 1) /\ n < 0 /\ m.id = n /\ m.cid = n
                    /\ win'[u] \in Seq(Told)
                    /\ Put(win'[u], win[u], m) \/ Known(win'[u], win[u], m) \/ Added(win'[u], win[u], m)
    BY <1>2, SendAll
  <2>2. PICK d : d = win'[u]
    OBVIOUS
  <2>3. Added(d, win[u], m)
    BY <2>1, <2>2, SendAdds
  <2>4. PICK i \in DOMAIN d : d[i].id = k
    BY <2>2 DEF Ids
  <2>5. d[Len(d)] = m
    BY <2>3 DEF Added
  <2>6. PICK e : From(d, win[u], e) /\ \A j \in DOMAIN d : e[j] = 0 <=> j = Len(d)
    BY <2>3 DEF Added
  <2>7. i # Len(d)
    BY <2>1, <2>4, <2>5
  <2>8. e[i] \in DOMAIN win[u] /\ d[i] = win[u][e[i]]
    BY <2>6, <2>7 DEF From
  <2> QED BY <2>4, <2>8 DEF Ids
<1>3. CASE win'[u] = win[u]
  BY <1>3
<1>4. \A b \in Conns : OpenSocket(u, b) => win' = win
  BY DEF OpenSocket
<1>5. LoseSocket(u) => win' = win
  BY DEF LoseSocket
<1> QED BY <1>1, <1>2, <1>3, <1>4, <1>5, PageChanges DEF PageChange

\* A connection whose page lost nothing has been its page's, or has just been opened.
LEMMA KeptOrFresh ==
  ASSUME Types, SocketsKnown, Faithful, FeedNext, NEW c \in Conns, Attached(c)', Owner[c] \notin lossy'
  PROVE  /\ Owner[c] \notin lossy
         /\ \/ Attached(c)
            \/ /\ OpenSocket(Owner[c], c) /\ win'[Owner[c]] = <<>> /\ down'[c] = <<>> /\ job'[c] = Idle
               /\ c \notin used
<1>1. Owner[c] \notin lossy
  BY LossyGrows
<1>2. ASSUME OpenSocket(Owner[c], c)
      PROVE  /\ win'[Owner[c]] = <<>> /\ down'[c] = <<>> /\ job'[c] = Idle /\ c \notin used
  <2>1. /\ conn[Owner[c]] = None /\ c \notin used /\ win' = win /\ down' = down /\ job' = job
    BY <1>2, TypesAt, OpenDoes
  <2>2. ~Attached(c)
    BY <2>1, FeedConstants DEF Attached
  <2>3. win[Owner[c]] = <<>> /\ down[c] = <<>> /\ job[c] = Idle
    BY <1>1, <2>1, <2>2, TypesAt DEF SocketsKnown
  <2> QED BY <2>1, <2>3
<1> QED BY <1>1, <1>2, CurrentSteps

\* Messages that are told, and that are fanned, are of the store.
LEMMA ToldRow ==
  ASSUME Types, Faithful, NEW c \in Conns
  PROVE  /\ \A p \in At(c, "message") :
              /\ down[c][p].message.id \in DOMAIN rows /\ down[c][p].message.id > 0
              /\ down[c][p].message.user = rows[down[c][p].message.id].user
              /\ down[c][p].message.cid = rows[down[c][p].message.id].cid
         /\ Fans(c, "message") =>
              /\ job[c].frame.message.id \in DOMAIN rows /\ job[c].frame.message.id > 0
              /\ job[c].frame.message.user = rows[job[c].frame.message.id].user
              /\ job[c].frame.message.cid = rows[job[c].frame.message.id].cid
              /\ job[c].frame.message.user = Owner[c]
         /\ \A p \in At(c, "history") : Ids(down[c][p].messages) \subseteq had[c] /\ Ids(down[c][p].messages) \subseteq DOMAIN rows
<1>1. \A x \in DOMAIN rows : x > 0
  BY TypesAt
<1>2. \A p \in DOMAIN down[c] : Says(c, down[c][p])
  BY DEF Faithful, FaithFrames
<1>3. Fans(c, "message") => Says(c, job[c].frame) /\ job[c].frame.message.user = Owner[c]
  BY DEF Faithful, FaithJobs, Fans
<1> QED BY SMTT(40), <1>1, <1>2, <1>3 DEF Says, IsRow, At, Fans, Ids


-----------------------------------------------------------------------------
(***************************************************************************)
(* No message twice                                                        *)
(***************************************************************************)

\* A message arrives from the goroutine that fans it.
LEMMA MessageArrives ==
  ASSUME Types, Faithful, NEW c \in Conns, NEW f, Arrives(c, f), f.kind = "message"
  PROVE  \E d \in Conns : BroadcastToRoom(d) /\ f = job[d].frame /\ c \in room /\ Fans(d, "message")
<1>1. ~(Answer(c) /\ f = job[c].frame)
  <2> SUFFICES ASSUME Answer(c), f = job[c].frame
               PROVE  FALSE
    OBVIOUS
  <2>1. f.kind = "history"
    BY AnswerDoes
  <2> QED BY <2>1
<1>2. PICK d \in Conns : BroadcastToRoom(d) /\ f = job[d].frame /\ c \in room
  BY <1>1 DEF Arrives
<1>3. Fans(d, "message")
  BY <1>2 DEF BroadcastToRoom, Fans
<1> QED BY <1>2, <1>3

\* Where a frame was, if it did not arrive with the step.
LEMMA FrameWas ==
  ASSUME NEW c \in Conns, NEW s, NEW n, Moves(c, s, n), NEW kind, NEW p \in At(c, kind)', p # n
  PROVE  p + s \in At(c, kind) /\ down'[c][p] = down[c][p + s]
BY DEF Moves, At

\* A frame that arrived with the step.
LEMMA FrameNew ==
  ASSUME NEW c \in Conns, NEW s, NEW n, Moves(c, s, n), NEW kind, n \in At(c, kind)'
  PROVE  /\ Arrives(c, down'[c][n]) /\ down'[c][n].kind = kind /\ s = 0
         /\ \A u \in Users : Handle(u) => c # conn[u]
BY DEF Moves, At

\* No connection is told a message twice.
LEMMA OnceDownStep ==
  ASSUME Types, Faithful, FeedNext, OnceDown, OnceFan
  PROVE  OnceDown'
<1> SUFFICES ASSUME NEW c \in Conns, NEW p \in At(c, "message")', NEW q \in At(c, "message")',
                    down'[c][p].message.id = down'[c][q].message.id
             PROVE  p = q
  BY DEF OnceDown
<1>1. PICK s, n : Moves(c, s, n)
  BY FrameMoves
<1>2. /\ p \in Nat /\ q \in Nat /\ s \in {0, 1}
  BY <1>1 DEF Moves, At
<1>3. CASE p # n /\ q # n
  <2>1. p + s = q + s
    BY <1>1, <1>3, FrameWas DEF OnceDown
  <2> QED BY <1>2, <2>1
<1>4. ASSUME NEW x \in At(c, "message")', x # n, n \in At(c, "message")'
      PROVE  down'[c][x].message.id # down'[c][n].message.id
  <2>1. x + s \in At(c, "message") /\ down'[c][x] = down[c][x + s]
    BY <1>1, <1>4, FrameWas
  <2>2. Arrives(c, down'[c][n]) /\ down'[c][n].kind = "message"
    BY <1>1, <1>4, FrameNew
  <2>3. PICK d \in Conns : down'[c][n] = job[d].frame /\ Fans(d, "message")
    BY <2>2, MessageArrives
  <2> QED BY <2>1, <2>3 DEF OnceFan
<1> QED BY <1>3, <1>4

\* No message is fanned out twice.
LEMMA OnceFanStep ==
  ASSUME Types, Faithful, FeedNext, OnceDown, OnceFan
  PROVE  OnceFan'
<1> SUFFICES ASSUME NEW c \in Conns, Fans(c, "message")'
             PROVE  /\ \A d \in Conns : \A p \in At(d, "message")' : down'[d][p].message.id # job'[c].frame.message.id
                    /\ \A d \in Conns : Fans(d, "message")' /\ job'[d].frame.message.id = job'[c].frame.message.id => c = d
  BY DEF OnceFan
<1>1. PICK k : k = Len(rows) + 1
  OBVIOUS
<1>2. CASE Fans(c, "message") /\ job'[c] = job[c] /\ ~BroadcastToRoom(c)
  <2>1. ASSUME NEW d \in Conns, NEW p \in At(d, "message")'
        PROVE  down'[d][p].message.id # job'[c].frame.message.id
    <3>1. PICK s, n : Moves(d, s, n)
      BY FrameMoves
    <3>2. CASE p # n
      BY <1>2, <2>1, <3>1, <3>2, FrameWas DEF OnceFan
    <3>3. CASE p = n
      <4>1. Arrives(d, down'[d][p]) /\ down'[d][p].kind = "message"
        BY <2>1, <3>1, <3>3, FrameNew
      <4>2. PICK b \in Conns : BroadcastToRoom(b) /\ down'[d][p] = job[b].frame /\ Fans(b, "message")
        BY <4>1, MessageArrives
      <4> QED BY <1>2, <4>2 DEF OnceFan
    <3> QED BY <3>2, <3>3
  <2>2. ASSUME NEW d \in Conns, Fans(d, "message")', job'[d].frame.message.id = job'[c].frame.message.id
        PROVE  c = d
    <3>1. CASE Fans(d, "message") /\ job'[d] = job[d]
      BY <1>2, <2>2, <3>1 DEF OnceFan
    <3>2. CASE HandleChatMessage(d)
      <4>1. job'[d].frame.message.id = k /\ k \notin DOMAIN rows
        BY <1>1, <3>2, ChatFans
      <4>2. job[c].frame.message.id \in DOMAIN rows
        BY <1>2, ToldRow
      <4> QED BY <1>2, <2>2, <4>1, <4>2
    <3> QED BY <2>2, <3>1, <3>2, FansMessage
  <2> QED BY <2>1, <2>2
<1>3. CASE HandleChatMessage(c)
  <2>1. /\ job'[c].frame.message.id = k /\ k \notin DOMAIN rows
        /\ \A b \in Conns : b # c => job'[b] = job[b]
    BY <1>1, <1>3, ChatFans
  <2>2. down' = down
    BY <1>3, StoreKeeps
  <2>3. ASSUME NEW d \in Conns, NEW p \in At(d, "message")'
        PROVE  down'[d][p].message.id # job'[c].frame.message.id
    <3>1. p \in At(d, "message") /\ down'[d][p] = down[d][p]
      BY <2>2, <2>3 DEF At
    <3>2. down[d][p].message.id \in DOMAIN rows
      BY <3>1, ToldRow
    <3> QED BY <2>1, <3>1, <3>2
  <2>4. ASSUME NEW d \in Conns, Fans(d, "message")', job'[d].frame.message.id = job'[c].frame.message.id, c # d
        PROVE  FALSE
    <3>1. job'[d] = job[d]
      BY <2>1, <2>4
    <3>2. Fans(d, "message")
      BY <2>4, <3>1 DEF Fans
    <3>3. job[d].frame.message.id \in DOMAIN rows
      BY <3>2, ToldRow
    <3> QED BY <2>1, <2>4, <3>1, <3>3
  <2> QED BY <2>3, <2>4
<1> QED BY <1>2, <1>3, FansMessage

\* A row in the window was in it, or came with the first frame.
LEMMA ShownWas ==
  ASSUME Types, Types', Faithful, FeedNext, NEW c \in Conns, Attached(c),
         NEW s, NEW n, Moves(c, s, n), NEW k \in Ids(win'[Owner[c]]), k > 0, k \notin Ids(win[Owner[c]])
  PROVE  /\ s = 1 /\ n = 0 /\ 1 \in DOMAIN down[c]
         /\ \/ 1 \in At(c, "message") /\ down[c][1].message.id = k
            \/ 1 \in At(c, "history") /\ k \in Ids(down[c][1].messages)
<1>1. PICK u : u = Owner[c] /\ u \in Users /\ c = conn[u]
  BY FeedConstants DEF Attached
<1>2. Handle(u) /\ Brings(down[c][1], k)
  BY <1>1, WinNew
<1>3. 1 \in DOMAIN down[c]
  <2>1. PICK f : f = down[c][1]
    OBVIOUS
  <2> QED BY <1>1, <1>2, <2>1, HandleDoes
<1>4. s = 1 /\ n = 0
  BY <1>1, <1>2 DEF Moves
<1> QED BY <1>2, <1>3, <1>4 DEF Brings, At

\* What is told live stays unseen, if no history has it.
LEMMA OnceSeenStep ==
  ASSUME Types, Types', SocketsKnown, Faithful, FeedNext, OnceDown, OnceFan, NEW c \in Conns, Attached(c),
         OnceSeen(c)
  PROVE  OnceSeen(c)'
<1>1. PICK s, n : Moves(c, s, n)
  BY FrameMoves
<1>2. s \in {0, 1} /\ \A p \in At(c, "message")' : p \in Nat /\ p # 0
  BY <1>1 DEF Moves, At
<1>3. had[c] \subseteq had'[c]
  BY CountSteps
<1>4. ASSUME NEW p \in At(c, "message")', down'[c][p].message.id \in Ids(win'[Owner[c]])
      PROVE  down'[c][p].message.id \in had'[c]
  <2>1. PICK k : k = down'[c][p].message.id
    OBVIOUS
  <2>2. CASE p # n
    <3>1. p + s \in At(c, "message") /\ down'[c][p] = down[c][p + s]
      BY <1>1, <2>2, FrameWas
    <3>2. k > 0
      BY <2>1, <3>1, ToldRow
    <3>3. CASE k \in Ids(win[Owner[c]])
      BY <1>3, <2>1, <3>1, <3>3 DEF OnceSeen
    <3>4. CASE k \notin Ids(win[Owner[c]])
      <4>1. /\ s = 1
            /\ \/ 1 \in At(c, "message") /\ down[c][1].message.id = k
               \/ 1 \in At(c, "history") /\ k \in Ids(down[c][1].messages)
        BY <1>1, <1>4, <2>1, <3>2, <3>4, ShownWas
      <4>2. p + s # 1
        BY <1>2, <4>1
      <4>3. 1 \in At(c, "history") /\ k \in Ids(down[c][1].messages)
        BY <2>1, <3>1, <4>1, <4>2 DEF OnceDown
      <4> QED BY <1>3, <2>1, <4>3, ToldRow
    <3> QED BY <3>3, <3>4
  <2>3. CASE p = n
    <3>1. Arrives(c, down'[c][p]) /\ down'[c][p].kind = "message" /\ s = 0
      BY <1>1, <2>3, FrameNew
    <3>2. PICK d \in Conns : down'[c][p] = job[d].frame /\ Fans(d, "message")
      BY <3>1, MessageArrives
    <3>3. k > 0
      BY <2>1, <3>2, ToldRow
    <3>4. k \in Ids(win[Owner[c]])
      BY <1>1, <1>4, <2>1, <3>1, <3>3, ShownWas
    <3> QED BY <1>3, <2>1, <3>2, <3>4 DEF OnceSeen
  <2> QED BY <2>2, <2>3
<1>5. ASSUME NEW d \in Conns, Fans(d, "message")', job'[d].frame.message.id \in Ids(win'[Owner[c]])
      PROVE  job'[d].frame.message.id \in had'[c]
  <2>1. PICK k : k = job'[d].frame.message.id
    OBVIOUS
  <2>2. CASE Fans(d, "message") /\ job'[d] = job[d]
    <3>1. k > 0
      BY <2>1, <2>2, ToldRow
    <3>2. CASE k \in Ids(win[Owner[c]])
      BY <1>3, <2>1, <2>2, <3>2 DEF OnceSeen
    <3>3. CASE k \notin Ids(win[Owner[c]])
      <4>1. \/ 1 \in At(c, "message") /\ down[c][1].message.id = k
            \/ 1 \in At(c, "history") /\ k \in Ids(down[c][1].messages)
        BY <1>1, <1>5, <2>1, <3>1, <3>3, ShownWas
      <4>2. 1 \in At(c, "history") /\ k \in Ids(down[c][1].messages)
        BY <2>1, <2>2, <4>1 DEF OnceFan
      <4> QED BY <1>3, <2>1, <4>2, ToldRow
    <3> QED BY <3>2, <3>3
  <2>3. CASE HandleChatMessage(d)
    <3>1. PICK m : m = Len(rows) + 1
      OBVIOUS
    <3>2. k = m /\ m \notin DOMAIN rows /\ m \in Nat /\ m > 0
      <4>1. k = m /\ m \notin DOMAIN rows
        BY <2>1, <2>3, <3>1, ChatFans
      <4>2. Len(rows) \in Nat
        BY TypesAt
      <4> QED BY <3>1, <4>1, <4>2
    <3>3. k \notin Ids(win[Owner[c]])
      <4>1. Owner[c] \in Users
        BY FeedConstants
      <4>2. \A i \in DOMAIN win[Owner[c]] : win[Owner[c]][i].id >= 0 => win[Owner[c]][i].id \in DOMAIN rows
        BY <4>1 DEF Faithful, FaithWindows, Shows, IsRow
      <4> QED BY <3>2, <4>2 DEF Ids
    <3>4. \/ 1 \in At(c, "message") /\ down[c][1].message.id = k
          \/ 1 \in At(c, "history") /\ k \in Ids(down[c][1].messages)
      BY <1>1, <1>5, <2>1, <3>2, <3>3, ShownWas
    <3>5. k \in DOMAIN rows
      BY <3>4, ToldRow
    <3> QED BY <3>2, <3>5
  <2> QED BY <1>5, <2>2, <2>3, FansMessage
<1> QED BY <1>4, <1>5 DEF OnceSeen

\* The user's own comes before the histories that have it.
LEMMA OnceOwnStep ==
  ASSUME Types, Types', SocketsKnown, Faithful, FeedNext, OnceDown, OnceFan, NEW c \in Conns, Attached(c),
         Owner[c] \notin lossy, OnceSeen(c), OnceOwn(c)
  PROVE  OnceOwn(c)'
<1>1. PICK s, n : Moves(c, s, n)
  BY FrameMoves
<1>2. s \in {0, 1} /\ \A kind : \A p \in At(c, kind)' : p \in Nat /\ p # 0 /\ (p # n /\ n # 0 => p < n)
  BY <1>1 DEF Moves, At
<1>3. ASSUME Fans(c, "message")'
      PROVE  job'[c].frame.message.id \notin had'[c]
  <2>1. had'[c] = had[c]
    BY <1>3, HadSteps DEF Fans
  <2>2. CASE Fans(c, "message") /\ job'[c] = job[c]
    BY <2>1, <2>2 DEF OnceOwn
  <2>3. CASE HandleChatMessage(c)
    <3>1. PICK m : m = Len(rows) + 1
      OBVIOUS
    <3>2. job'[c].frame.message.id = m /\ m \notin DOMAIN rows
      BY <2>3, <3>1, ChatFans
    <3> QED BY <2>1, <3>2 DEF Faithful, FaithCounts
  <2> QED BY <1>3, <2>2, <2>3, FansMessage
<1>4. ASSUME NEW p \in At(c, "message")', down'[c][p].message.user = Owner[c]
      PROVE  /\ down'[c][p].message.id \notin Ids(win'[Owner[c]])
             /\ \A q \in At(c, "history")' : q < p => down'[c][p].message.id \notin Ids(down'[c][q].messages)
  <2>1. PICK k : k = down'[c][p].message.id
    OBVIOUS
  <2>2. CASE p # n
    <3>1. p + s \in At(c, "message") /\ down'[c][p] = down[c][p + s]
      BY <1>1, <2>2, FrameWas
    <3>2. k > 0
      BY <2>1, <3>1, ToldRow
    <3>3. k \notin Ids(win[Owner[c]]) /\ \A q \in At(c, "history") : q < p + s => k \notin Ids(down[c][q].messages)
      BY <1>4, <2>1, <3>1 DEF OnceOwn
    <3>4. k \notin Ids(win'[Owner[c]])
      <4> SUFFICES ASSUME k \in Ids(win'[Owner[c]])
                   PROVE  FALSE
        OBVIOUS
      <4>1. /\ s = 1
            /\ \/ 1 \in At(c, "message") /\ down[c][1].message.id = k
               \/ 1 \in At(c, "history") /\ k \in Ids(down[c][1].messages)
        BY <1>1, <3>2, <3>3, ShownWas
      <4>2. 1 < p + s
        BY <1>2, <4>1
      <4>3. ~(1 \in At(c, "message") /\ down[c][1].message.id = k)
        BY <2>1, <3>1, <4>2 DEF OnceDown
      <4> QED BY <3>3, <4>1, <4>2, <4>3
    <3>5. ASSUME NEW q \in At(c, "history")', q < p
          PROVE  k \notin Ids(down'[c][q].messages)
      <4>1. q # n
        BY <1>2, <2>2, <3>5
      <4>2. q + s \in At(c, "history") /\ down'[c][q] = down[c][q + s]
        BY <1>1, <4>1, FrameWas
      <4>3. q + s < p + s
        BY <1>2, <3>5
      <4> QED BY <3>3, <4>2, <4>3
    <3> QED BY <2>1, <3>4, <3>5
  <2>3. CASE p = n
    <3>1. Arrives(c, down'[c][p]) /\ down'[c][p].kind = "message" /\ s = 0
      BY <1>1, <2>3, FrameNew
    <3>2. PICK d \in Conns : down'[c][p] = job[d].frame /\ Fans(d, "message")
      BY <3>1, MessageArrives
    <3>3. k > 0 /\ Owner[d] = Owner[c]
      BY <1>4, <2>1, <3>2, ToldRow
    <3>4. d = c
      <4>1. job[d] # Idle
        BY <3>2, IdleFans
      <4>2. Attached(d)
        BY <3>3, <4>1, SocketUsed
      <4> QED BY <3>3, <4>2 DEF Attached
    <3>5. k \notin had[c]
      BY <2>1, <3>2, <3>4 DEF OnceOwn
    <3>6. k \notin Ids(win[Owner[c]])
      BY <2>1, <3>2, <3>5 DEF OnceSeen
    <3>7. k \notin Ids(win'[Owner[c]])
      BY <1>1, <3>1, <3>3, <3>6, ShownWas
    <3>8. ASSUME NEW q \in At(c, "history")', q < p
          PROVE  k \notin Ids(down'[c][q].messages)
      <4>1. q # n
        BY <1>2, <2>3, <3>8
      <4>2. q + s \in At(c, "history") /\ down'[c][q] = down[c][q + s]
        BY <1>1, <4>1, FrameWas
      <4> QED BY <3>5, <4>2, ToldRow
    <3> QED BY <2>1, <3>7, <3>8
  <2> QED BY <2>2, <2>3
<1> QED BY <1>3, <1>4 DEF OnceOwn

\* The window has no id twice.
Distinct(w) == \A i, j \in DOMAIN w : w[i].id = w[j].id => i = j

\* A window made of another's entries and of others' has none twice.
LEMMA AlikeDistinct ==
  ASSUME NEW w \in Seq(Told), NEW d \in Seq(Told), NEW e, Alike(d, w, e), Distinct(w),
         \A i \in DOMAIN d : e[i] = 0 => d[i].id \notin Ids(w),
         \A i, j \in DOMAIN d : e[i] = 0 /\ e[j] = 0 /\ d[i].id = d[j].id => i = j
  PROVE  Distinct(d)
<1> SUFFICES ASSUME NEW i \in DOMAIN d, NEW j \in DOMAIN d, d[i].id = d[j].id
             PROVE  i = j
  BY DEF Distinct
<1>1. \A k \in DOMAIN d : e[k] # 0 => e[k] \in DOMAIN w /\ d[k].id = w[e[k]].id /\ d[k].id \in Ids(w)
  BY DEF Alike, Ids
<1>2. CASE e[i] # 0 /\ e[j] # 0
  <2>1. e[i] = e[j]
    BY <1>1, <1>2 DEF Distinct
  <2> QED BY <1>2, <2>1, AlikeOnce
<1> QED BY <1>1, <1>2

\* A live message leaves the ids distinct, if the page does not have one it puts in
\* the place of an entry.
LEMMA LiveDistinct ==
  ASSUME NEW w \in Seq(Told), NEW m \in Told, NEW d \in Seq(Told), Distinct(w),
         Put(d, w, m) \/ Known(d, w, m) \/ Added(d, w, m),
         Put(d, w, m) => m.id \notin Ids(w)
  PROVE  Distinct(d)
<1>1. CASE Put(d, w, m)
  <2>1. PICK at \in DOMAIN w : d = [w EXCEPT ![at] = m]
    BY <1>1 DEF Put
  <2>2. DOMAIN d = DOMAIN w /\ d[at] = m /\ \A i \in DOMAIN w : i # at => d[i] = w[i]
    BY <2>1
  <2>3. \A i \in DOMAIN w : w[i].id # m.id
    BY <1>1 DEF Ids
  <2> QED BY <2>2, <2>3 DEF Distinct
<1>2. CASE Known(d, w, m)
  BY <1>2 DEF Known
<1>3. CASE Added(d, w, m)
  <2>1. m.id \notin Ids(w) /\ d[Len(d)] = m
    BY <1>3 DEF Added
  <2>2. PICK e : From(d, w, e) /\ \A i \in DOMAIN d : e[i] = 0 <=> i = Len(d)
    BY <1>3 DEF Added
  <2>3. Alike(d, w, e)
    BY <2>2, FromAlike
  <2> QED BY <2>1, <2>2, <2>3, AlikeDistinct
<1> QED BY <1>1, <1>2, <1>3

\* Every frame of a page that lost nothing and guessed nothing leaves them distinct.
LEMMA HandleDistinct ==
  ASSUME Types, Types', SocketsKnown, Cids, Faithful, OwnEntries, NEW u \in Users, Handle(u), u \notin lossy,
         u \notin guessed', Distinct(win[u]),
         NEW c \in Conns, c = conn[u], OnceOwn(c)
  PROVE  Distinct(win'[u])
<1>1. PICK d, w, f : d = win'[u] /\ w = win[u] /\ f = down[c][1]
  OBVIOUS
<1>2. f \in Frames /\ Treats(d, w, f, u) /\ 1 \in DOMAIN down[c]
  BY <1>1, HandleDoes
<1>3. w \in Seq(Told) /\ d \in Seq(Told) /\ Distinct(w)
  BY <1>1, TypesAt, WindowAfter
<1>4. Owner[c] = u /\ conn[u] # None
  BY FeedConstants, SocketOf
<1>5. CASE f.kind = "message"
  <2>1. PICK m : m = f.message
    OBVIOUS
  <2>2. /\ m \in Told /\ m.id \in DOMAIN rows /\ m.id > 0 /\ m.cid = rows[m.id].cid /\ m.cid # 0
        /\ m.user = rows[m.id].user
    BY <1>1, <1>2, <1>5, <2>1, ToldIds
  <2>3. Put(d, w, m) \/ Known(d, w, m) \/ Added(d, w, m)
    BY <1>2, <1>5, <2>1 DEF Treats
  <2>4. ASSUME Put(d, w, m)
        PROVE  m.id \notin Ids(w)
    <3>1. PICK i \in DOMAIN w : \/ m.cid # 0 /\ w[i].id = m.cid
                                \/ m.id >= 0 /\ w[i].id < 0 /\ w[i].user = m.user
      BY <2>4 DEF Put
    <3>2. m.cid < 0
      <4>1. rows[m.id].cid \in (-asked)..0 /\ asked \in Nat
        BY <2>2, TypesAt DEF Cids
      <4> QED BY <2>2, <4>1
    <3>3. m.user = u
      <4>1. CASE w[i].id = m.cid
        BY <1>1, <2>2, <3>2, <4>1 DEF OwnEntries, OwnRows
      <4>2. CASE w[i].id < 0 /\ w[i].user = m.user
        BY <1>1, <4>2 DEF Faithful, FaithWindows, Shows
      <4> QED BY <3>1, <4>1, <4>2
    <3>4. 1 \in At(c, "message") /\ down[c][1].message = m
      BY <1>1, <1>2, <1>5, <2>1 DEF At
    <3> QED BY <1>1, <1>4, <3>3, <3>4 DEF OnceOwn
  <2>5. Distinct(d)
    BY <1>3, <2>2, <2>3, <2>4, LiveDistinct
  <2> QED BY <1>1, <2>5
<1>6. CASE f.kind = "edit"
  <2>1. d = w \/ d = EditMessageInPlace(w, f.id, f.text)
    BY <1>2, <1>6 DEF Treats
  <2>2. f.text \in TextOrNone
    BY <1>2, <1>6, FrameKinds
  <2>3. PICK id, t : id = f.id /\ t = f.text
    OBVIOUS
  <2>4. d = EditMessageInPlace(w, id, t) => DOMAIN d = DOMAIN w /\ \A i \in DOMAIN w : d[i].id = w[i].id
    BY <1>3, <2>2, <2>3, EditWindow
  <2>5. Distinct(d)
    BY <1>3, <2>1, <2>3, <2>4 DEF Distinct
  <2> QED BY <1>1, <2>5
<1>7. CASE f.kind = "delete"
  <2>1. PICK e : From(d, w, e) /\ \A i \in DOMAIN d : e[i] # 0
    BY <1>2, <1>7 DEF Treats, Without
  <2>2. Alike(d, w, e)
    BY <2>1, FromAlike
  <2>3. Distinct(d)
    BY <1>3, <2>1, <2>2, AlikeDistinct
  <2> QED BY <1>1, <2>3
<1>8. CASE f.kind = "history"
  <2>1. \E cap \in Nat : PageMerged(d, w, f.messages, cap, {})
    BY <1>2, <1>8 DEF Treats
  <2>2. PICK e : /\ From(d, w, e)
                 /\ \A i \in DOMAIN d : e[i] = 0 => d[i].id \notin Ids(w)
                 /\ \A i, j \in DOMAIN d : e[i] = 0 /\ e[j] = 0 /\ d[i].id = d[j].id => i = j
    BY <2>1 DEF PageMerged
  <2>3. Alike(d, w, e)
    BY <2>2, FromAlike
  <2>4. Distinct(d)
    BY <1>3, <2>2, <2>3, AlikeDistinct
  <2> QED BY <1>1, <2>4
<1> QED BY <1>2, <1>5, <1>6, <1>7, <1>8, FrameKinds

\* So does a message the page shows before it is answered.
LEMMA SendDistinct ==
  ASSUME Types, Types', Faithful, NEW u \in Users, NEW t \in Texts, SendMessage(u, t), NEW v \in Users,
         Distinct(win[v])
  PROVE  Distinct(win'[v])
<1>1. PICK n, m : /\ m \in Told /\ n \in Int /\ n = -(asked + 1) /\ m.id = n /\ m.cid = n
                  /\ \A x \in Users : x # u => win'[x] = win[x]
                  /\ Put(win'[u], win[u], m) \/ Known(win'[u], win[u], m) \/ Added(win'[u], win[u], m)
  BY SendAll
<1>2. CASE v = u
  <2>1. PICK d, w : d = win'[u] /\ w = win[u]
    OBVIOUS
  <2>2. d \in Seq(Told) /\ w \in Seq(Told)
    BY <2>1, TypesAt, WindowAfter
  <2>3. /\ Added(d, win[u], m)
        /\ \A i \in DOMAIN win[u] : win[u][i].id # m.id
    BY <1>1, <2>1, <2>2, SendAdds
  <2>4. Added(d, w, m) /\ m.id \notin Ids(w)
    BY <2>1, <2>3 DEF Ids
  <2>5. Distinct(d)
    BY <1>1, <1>2, <2>1, <2>2, <2>4, LiveDistinct
  <2> QED BY <1>2, <2>1, <2>5
<1> QED BY <1>1, <1>2

\* A page that took a message of history for its own stays one that did.
LEMMA GuessedGrows ==
  ASSUME Types, Faithful, FeedNext
  PROVE  guessed \subseteq guessed'
<1>1. ASSUME NEW u \in Users, Handle(u)
      PROVE  guessed \subseteq guessed'
  <2>1. PICK c, f : c = conn[u] /\ f = down[c][1]
    OBVIOUS
  <2>2. guessed' = guessed \/ guessed' = guessed \cup {u}
    BY <1>1, <2>1, HandleDoes
  <2> QED BY <2>2
<1>2. ASSUME NEW u \in Users
      PROVE  /\ \A b \in Conns : OpenSocket(u, b) => guessed' = guessed
             /\ LoseSocket(u) => guessed' = guessed
             /\ \A t \in Texts : SendMessage(u, t) => guessed' = guessed
             /\ \A r \in Requests : AskAbout(u, r) => guessed' = guessed
  BY DEF OpenSocket, LoseSocket, SendMessage, AskAbout
<1>3. ASSUME NEW c \in Conns
      PROVE  HandleJoin(c) \/ ReadHistory(c) \/ HandleLoadHistory(c) \/ Answer(c) \/ HandleChatMessage(c)
             \/ Refuse(c) \/ HandleMessageEdit(c) \/ BroadcastToRoom(c) \/ HandleMessageDelete(c)
             \/ Publish(c) => guessed' = guessed
  BY DEF HandleJoin, ReadHistory, HandleLoadHistory, Answer, HandleChatMessage, Refuse, HandleMessageEdit,
         BroadcastToRoom, HandleMessageDelete, Publish, pages
<1>4. HubRegister \/ HubBroadcast => guessed' = guessed
  BY DEF HubRegister, HubBroadcast, pages
<1> QED BY <1>1, <1>2, <1>3, <1>4, FeedSteps

\* No page shows a message twice.
LEMMA NoTwiceStep ==
  ASSUME Types, Types', SocketsKnown, Cids, Faithful, OwnEntries, FeedNext, Once
  PROVE  NoTwice'
<1> SUFFICES ASSUME NEW u \in Users, u \notin lossy', u \notin guessed'
             PROVE  Distinct(win'[u])
  BY DEF NoTwice, Distinct
<1>1. u \notin lossy /\ u \notin guessed
  BY LossyGrows, GuessedGrows
<1>2. Distinct(win[u])
  BY <1>1 DEF Once, NoTwice, Distinct
<1>3. CASE Handle(u)
  <2>1. PICK c : c = conn[u]
    OBVIOUS
  <2>2. c \in Conns /\ Owner[c] = u /\ Attached(c)
    <3>1. conn[u] # None
      BY <1>3 DEF Handle
    <3> QED BY <2>1, <3>1, SocketOf
  <2>3. OnceOwn(c)
    BY <1>1, <2>2 DEF Once
  <2> QED BY <1>1, <1>2, <1>3, <2>1, <2>2, <2>3, HandleDistinct
<1>4. CASE \E t \in Texts : SendMessage(u, t)
  BY <1>2, <1>4, SendDistinct
<1>5. CASE win'[u] = win[u]
  BY <1>2, <1>5
<1>6. \A b \in Conns : OpenSocket(u, b) => win' = win
  BY DEF OpenSocket
<1>7. LoseSocket(u) => win' = win
  BY DEF LoseSocket
<1> QED BY <1>3, <1>4, <1>5, <1>6, <1>7, PageChanges DEF PageChange

\* Of a connection that was just opened, there is nothing.
LEMMA FreshOnce ==
  ASSUME Types, NEW c \in Conns, win'[Owner[c]] = <<>>, down'[c] = <<>>, job'[c] = Idle
  PROVE  OnceSeen(c)' /\ OnceOwn(c)'
<1>1. Ids(win'[Owner[c]]) = {}
  BY DEF Ids
<1>2. \A kind : At(c, kind)' = {}
  BY DEF At
<1>3. ~Fans(c, "message")'
  BY DEF Fans, Idle
<1> QED BY <1>1, <1>2, <1>3 DEF OnceSeen, OnceOwn

\* Once is inductive.
LEMMA OnceStep ==
  ASSUME Types, SocketsKnown, Cids, Faithful, OwnEntries, Once, FeedNext
  PROVE  Once'
<1>1. Types'
  BY TypesStep
<1>2. OnceDown /\ OnceFan
  BY DEF Once
<1>3. OnceDown' /\ OnceFan'
  BY <1>2, OnceDownStep, OnceFanStep
<1>4. NoTwice'
  BY <1>1, NoTwiceStep
<1>5. ASSUME NEW c \in Conns, Attached(c)', Owner[c] \notin lossy'
      PROVE  OnceSeen(c)' /\ OnceOwn(c)'
  <2>1. Owner[c] \notin lossy
    BY <1>5, KeptOrFresh
  <2>2. CASE Attached(c)
    <3>1. OnceSeen(c) /\ OnceOwn(c)
      BY <2>1, <2>2 DEF Once
    <3> QED BY <1>1, <1>2, <2>1, <2>2, <3>1, OnceSeenStep, OnceOwnStep
  <2>3. CASE win'[Owner[c]] = <<>> /\ down'[c] = <<>> /\ job'[c] = Idle
    BY <2>3, FreshOnce
  <2> QED BY <1>5, <2>2, <2>3, KeptOrFresh
<1> QED BY <1>3, <1>4, <1>5 DEF Once


-----------------------------------------------------------------------------
(***************************************************************************)
(* Order                                                                   *)
(***************************************************************************)

\* The ids of pages that rows have do not change, nor do their users.
LEMMA RowsKeep ==
  ASSUME Types, Faithful, FeedNext, NEW i \in DOMAIN rows
  PROVE  /\ i \in DOMAIN rows' /\ rows'[i].cid = rows[i].cid /\ rows'[i].user = rows[i].user
         /\ rows[i].cid \in Int /\ i \in Nat /\ i > 0
<1>1. i \in DOMAIN rows' /\ rows'[i].cid = rows[i].cid /\ rows'[i].user = rows[i].user
  BY StoreGrows DEF RowsGrow
<1>2. rows[i].cid \in Int /\ i \in Nat /\ i > 0
  BY TypesAt
<1> QED BY <1>1, <1>2

\* A user who kept the connection has one that does something.
LEMMA OneConnection ==
  ASSUME Types, SocketsKnown, NEW c \in Conns, NEW d \in Conns, Owner[c] = Owner[d], Owner[c] \notin lossy,
         job[c] # Idle \/ up[c] # <<>>, job[d] # Idle \/ up[d] # <<>>
  PROVE  c = d
<1>1. Attached(c) /\ Attached(d)
  BY SocketUsed
<1> QED BY <1>1 DEF Attached

\* The store takes the messages of a connection in turn.
LEMMA RowsInTurnStep ==
  ASSUME Types, SocketsKnown, Faithful, FeedNext, RowsInTurn, AsksInTurn
  PROVE  RowsInTurn'
<1> SUFFICES ASSUME NEW i \in DOMAIN rows', NEW j \in DOMAIN rows', rows'[i].user \notin lossy',
                    rows'[i].user = rows'[j].user, i < j, rows'[j].cid # 0
             PROVE  rows'[j].cid < rows'[i].cid
  BY DEF RowsInTurn
<1>1. rows'[i].user \notin lossy
  BY LossyGrows
<1>2. CASE i \in DOMAIN rows /\ j \in DOMAIN rows
  BY <1>1, <1>2, RowsKeep DEF RowsInTurn
<1>3. ASSUME i \notin DOMAIN rows \/ j \notin DOMAIN rows
      PROVE  rows'[j].cid < rows'[i].cid
  <2>1. PICK c \in Conns : HandleChatMessage(c)
    BY <1>3, NewestSteps
  <2>2. PICK n : n = Len(rows) + 1
    OBVIOUS
  <2>3. /\ n \notin DOMAIN rows /\ DOMAIN rows' = DOMAIN rows \cup {n} /\ n \in Nat
        /\ (\A x \in DOMAIN rows : rows'[x] = rows[x] /\ x < n) /\ rows'[n] = NewRow(c)
        /\ up[c][1].kind = "message" /\ 1 \in DOMAIN up[c]
    BY <2>1, <2>2, ChatFans
  <2>4. j = n /\ i \in DOMAIN rows
    <3>1. \A x \in DOMAIN rows : x \in Nat
      BY TypesAt
    <3>2. ~(i = n /\ j \in DOMAIN rows)
      BY <2>3, <3>1
    <3>3. ~(i = n /\ j = n)
      BY <2>3
    <3> QED BY <1>3, <2>3, <3>2, <3>3
  <2>5. rows'[n].cid = up[c][1].cid /\ rows'[n].user = Owner[c]
    BY <2>3 DEF NewRow
  <2>6. 1 \in Asks(c, "message")
    BY <2>3 DEF Asks
  <2> QED BY <1>1, <2>3, <2>4, <2>5, <2>6 DEF AsksInTurn
<1> QED BY <1>2, <1>3

\* What is fanned is the last of its user.
LEMMA FansInTurnStep ==
  ASSUME Types, SocketsKnown, Faithful, FeedNext, FansInTurn
  PROVE  FansInTurn'
<1> SUFFICES ASSUME NEW c \in Conns, Owner[c] \notin lossy', Fans(c, "message")',
                    NEW i \in DOMAIN rows', rows'[i].user = Owner[c]
             PROVE  i <= job'[c].frame.message.id
  BY DEF FansInTurn
<1>1. Owner[c] \notin lossy
  BY LossyGrows
<1>2. CASE Fans(c, "message") /\ job'[c] = job[c]
  <2>1. CASE i \in DOMAIN rows
    BY <1>1, <1>2, <2>1, RowsKeep DEF FansInTurn
  <2>2. CASE i \notin DOMAIN rows
    <3>1. PICK d \in Conns : HandleChatMessage(d) /\ i = Len(rows) + 1
      BY <2>2, NewestSteps
    <3>2. PICK n : n = Len(rows) + 1
      OBVIOUS
    <3>3. /\ rows'[n] = NewRow(d) /\ 1 \in DOMAIN up[d] /\ job[d] = Idle
      BY <3>1, <3>2, ChatFans
    <3>4. Owner[d] = Owner[c] /\ up[d] # <<>>
      BY <3>1, <3>2, <3>3 DEF NewRow
    <3>5. job[c] # Idle
      BY <1>2, IdleFans
    <3> QED BY <1>1, <3>3, <3>4, <3>5, OneConnection
  <2> QED BY <2>1, <2>2
<1>3. CASE HandleChatMessage(c)
  <2>1. PICK n : n = Len(rows) + 1
    OBVIOUS
  <2>2. /\ job'[c].frame.message.id = n /\ DOMAIN rows' = DOMAIN rows \cup {n} /\ n \in Nat
        /\ \A x \in DOMAIN rows : x < n
    BY <1>3, <2>1, ChatFans
  <2>3. \A x \in DOMAIN rows : x \in Nat
    BY TypesAt
  <2> QED BY <2>2, <2>3
<1> QED BY <1>2, <1>3, FansMessage

\* The frames of a user stay in turn.
LEMMA DownInTurnStep ==
  ASSUME Types, SocketsKnown, Faithful, FeedNext, OnceFan, FansInTurn, DownInTurn
  PROVE  DownInTurn'
<1> SUFFICES ASSUME NEW c \in Conns, NEW p \in At(c, "message")', NEW q \in At(c, "message")',
                    down'[c][p].message.user \notin lossy', p < q,
                    down'[c][p].message.user = down'[c][q].message.user
             PROVE  down'[c][p].message.id < down'[c][q].message.id
  BY DEF DownInTurn
<1>1. PICK s, n : Moves(c, s, n)
  BY FrameMoves
<1>2. down'[c][p].message.user \notin lossy
  BY LossyGrows
<1>3. p # n
  <2>1. p = n => p # 0 /\ q # n /\ q < n
    BY <1>1 DEF Moves, At
  <2>2. p \in Nat /\ q \in Nat
    BY <1>1 DEF Moves, At
  <2> QED BY <2>1, <2>2
<1>4. p + s \in At(c, "message") /\ down'[c][p] = down[c][p + s]
  BY <1>1, <1>3, FrameWas
<1>5. CASE q # n
  <2>1. q + s \in At(c, "message") /\ down'[c][q] = down[c][q + s]
    BY <1>1, <1>5, FrameWas
  <2>2. p + s < q + s
    BY <1>1 DEF Moves, At
  <2> QED BY <1>2, <1>4, <2>1, <2>2 DEF DownInTurn
<1>6. CASE q = n
  <2>1. Arrives(c, down'[c][q]) /\ down'[c][q].kind = "message"
    BY <1>1, <1>6, FrameNew
  <2>2. PICK d \in Conns : down'[c][q] = job[d].frame /\ Fans(d, "message")
    BY <2>1, MessageArrives
  <2>3. down'[c][q].message.user = Owner[d] /\ down'[c][q].message.id > 0 /\ down'[c][q].message.id \in DOMAIN rows
    BY <2>2, ToldRow
  <2>4. PICK x : x = down'[c][p].message.id
    OBVIOUS
  <2>5. x \in DOMAIN rows /\ rows[x].user = Owner[d]
    BY SMTT(40), <1>4, <2>3, <2>4, ToldRow
  <2>6. x <= down'[c][q].message.id
    BY <1>2, <2>2, <2>3, <2>5 DEF FansInTurn
  <2>7. x # down'[c][q].message.id
    BY <1>4, <2>2, <2>4 DEF OnceFan
  <2>8. x \in Nat /\ down'[c][q].message.id \in Nat
    BY <2>3, <2>5, TypesAt
  <2> QED BY <2>4, <2>6, <2>7, <2>8
<1> QED BY <1>5, <1>6

\* Messages that a page asks to be stored stay s places earlier, and one comes to place n.
AsksMove(c, s, n) ==
  /\ s \in {0, 1} /\ n \in Nat
  /\ \A p \in Asks(c, "message")' :
       /\ p \in Nat
       /\ p # n => /\ p + s \in Asks(c, "message") /\ up'[c][p] = up[c][p + s]
                   /\ n # 0 => p < n
  /\ n # 0 => /\ n \in Asks(c, "message")' /\ up'[c][n].cid = -(asked + 1) /\ s = 0
              /\ up'[c][n].cid \in Ids(win'[Owner[c]]) \/ Owner[c] \in full'
              /\ rows' = rows
  /\ HandleChatMessage(c) => s = 1

\* A new message is the last one that is asked for.
LEMMA AsksSend ==
  ASSUME Types, Types', SocketsKnown, Faithful, NEW u \in Users, NEW t \in Texts, SendMessage(u, t), NEW c \in Conns,
         ~HandleChatMessage(c)
  PROVE  \E s, n : AsksMove(c, s, n)
<1>1. PICK b \in Conns, k \in Int, m \in Told, r \in Requests :
        /\ b = conn[u] /\ conn[u] # None /\ k = -(asked + 1) /\ k < 0
        /\ m.id = k /\ m.cid = k /\ m.user = u
        /\ r.kind = "message" /\ r.cid = k
        /\ win'[u] \in Seq(Told)
        /\ Put(win'[u], win[u], m) \/ Known(win'[u], win[u], m) \/ Added(win'[u], win[u], m)
        /\ full' = Filled(u, win'[u])
        /\ up'[b] = Append(up[b], r) /\ \A x \in Conns : x # b => up'[x] = up[x]
        /\ UNCHANGED <<rows, room, registerQ, broadcastQ, job, read, entered, had>>
  BY SendAll
<1>2. \A p \in Asks(c, "message") : p \in Nat /\ p + 0 = p
  BY TypesAt DEF Asks
<1>3. CASE c # b
  <2>1. \A p \in Asks(c, "message")' : p \in Asks(c, "message") /\ up'[c][p] = up[c][p]
    BY <1>1, <1>3 DEF Asks
  <2>2. 0 \notin Asks(c, "message")'
    BY <1>2, <2>1, TypesAt, EmptyAt DEF Asks
  <2>3. AsksMove(c, 0, 0)
    BY <1>2, <2>1, <2>2 DEF AsksMove
  <2> QED BY <2>3
<1>4. CASE c = b
  <2> DEFINE n == Len(up[c]) + 1
  <2>1. up[c] \in Seq(Requests)
    BY TypesAt
  <2>2. /\ n \in Nat /\ n # 0 /\ n \in DOMAIN up'[c] /\ up'[c][n] = r
        /\ \A p \in DOMAIN up'[c] : p \in DOMAIN up[c] \/ p = n
        /\ \A p \in DOMAIN up[c] : up'[c][p] = up[c][p] /\ p \in Nat /\ p < n
    BY <1>1, <1>4, <2>1, AppendAt
  <2> HIDE DEF n
  <2>3. n \in Asks(c, "message")' /\ up'[c][n].cid = -(asked + 1)
    BY <1>1, <2>2 DEF Asks
  <2>4. Owner[c] = u
    BY <1>1, <1>4, SocketOf
  <2>5. k \in Ids(win'[u]) \/ u \in full'
    <3>1. PICK d : d = win'[u]
      OBVIOUS
    <3>2. Added(d, win[u], m) /\ d \in Seq(Told)
      BY <1>1, <3>1, SendAdds
    <3>3. Len(d) \in Nat /\ (d # <<>> => Len(d) \in DOMAIN d)
      BY <3>2, EntriesAre
    <3> QED BY <1>1, <3>1, <3>2, <3>3 DEF Added, Ids
  <2>6. \A p \in Asks(c, "message")' : p # n => p \in Asks(c, "message") /\ up'[c][p] = up[c][p] /\ p < n
    BY <2>2 DEF Asks
  <2>7. n \in Nat /\ n # 0 /\ rows' = rows /\ up'[c][n].cid = k
    BY <1>1, <2>2
  <2>8. \A p \in Asks(c, "message")' : p \in Nat
    BY <1>2, <2>6, <2>7
  <2>9. AsksMove(c, 0, n)
    BY <1>2, <2>3, <2>4, <2>5, <2>6, <2>7, <2>8 DEF AsksMove
  <2> QED BY <2>9
<1> QED BY <1>3, <1>4

\* How the requests move.
LEMMA AskMoves ==
  ASSUME Types, Types', SocketsKnown, Faithful, FeedNext, NEW c \in Conns
  PROVE  \E s, n : AsksMove(c, s, n)
<1>1. CASE HandleChatMessage(c)
  <2>1. PICK n : n = Len(rows) + 1
    OBVIOUS
  <2>2. \E next : Take(c, "message", next)
    BY <1>1, <2>1, ChatDoes
  <2>3. \A p \in Asks(c, "message")' : p \in Nat /\ p + 1 \in Asks(c, "message") /\ up'[c][p] = up[c][p + 1]
    BY <2>2, AsksShrink
  <2>4. AsksMove(c, 1, 0)
    BY <2>3 DEF AsksMove
  <2> QED BY <2>4
<1>2. ASSUME ~HandleChatMessage(c), NEW u \in Users, NEW t \in Texts, SendMessage(u, t)
      PROVE  \E s, n : AsksMove(c, s, n)
  BY <1>2, AsksSend
<1>3. ASSUME ~HandleChatMessage(c), NEW u \in Users, NEW r \in Requests, AskAbout(u, r), r.kind \in {"edit", "delete", "load"}
      PROVE  \E s, n : AsksMove(c, s, n)
  <2>1. PICK b : b = conn[u]
    OBVIOUS
  <2>2. b \in Conns /\ up'[b] = Append(up[b], r) /\ \A x \in Conns : x # b => up'[x] = up[x]
    BY <1>3, <2>1, AskDoes
  <2>3. r.kind # "message"
    BY <1>3
  <2>4. /\ Asks(c, "message")' = Asks(c, "message")
        /\ \A p \in Asks(c, "message") : up'[c][p] = up[c][p]
    BY <2>2, <2>3, AsksNoMessage
  <2>5. \A p \in Asks(c, "message") : p \in Nat /\ p # 0 /\ p + 0 = p
    BY TypesAt, EmptyAt DEF Asks
  <2>6. AsksMove(c, 0, 0)
    BY <1>3, <2>4, <2>5 DEF AsksMove
  <2> QED BY <2>6
<1>4. ASSUME ~HandleChatMessage(c), NEW sh, Fewer(sh)
      PROVE  \E s, n : AsksMove(c, s, n)
  <2>1. \A p \in Asks(c, "message")' : p \in Nat /\ p + sh[c] \in Asks(c, "message") /\ up'[c][p] = up[c][p + sh[c]]
    BY <1>4 DEF Asks, Fewer
  <2>2. sh[c] \in {0, 1}
    BY <1>4 DEF Fewer
  <2>3. AsksMove(c, sh[c], 0)
    BY <1>4, <2>1, <2>2 DEF AsksMove
  <2> QED BY <2>3
<1> QED BY <1>1, <1>2, <1>3, <1>4, UpSteps

\* The requests of a connection stay in turn.
LEMMA AsksInTurnStep ==
  ASSUME Types, Types', SocketsKnown, Cids, Faithful, FeedNext, AsksInTurn
  PROVE  AsksInTurn'
<1> SUFFICES ASSUME NEW c \in Conns, Owner[c] \notin lossy', NEW p \in Asks(c, "message")'
             PROVE  /\ \A q \in Asks(c, "message")' : p < q => up'[c][q].cid < up'[c][p].cid
                    /\ \A i \in DOMAIN rows' : rows'[i].user = Owner[c] => up'[c][p].cid < rows'[i].cid
  BY DEF AsksInTurn
<1>1. Owner[c] \notin lossy
  BY LossyGrows
<1>2. PICK s, n : AsksMove(c, s, n)
  BY AskMoves
<1>3. asked \in Nat /\ (\A q \in Asks(c, "message") : up[c][q].cid \in (-asked)..(-1))
      /\ \A i \in DOMAIN rows : rows[i].cid \in (-asked)..0
  BY TypesAt DEF Cids
<1>4. \A q \in Asks(c, "message")' : q \in Nat /\ q # 0
  <2>1. up'[c] \in Seq(Requests)
    BY DEF Types
  <2> QED BY <2>1, EmptyAt DEF Asks
<1>5. \A q \in Asks(c, "message")' : q # n => q + s \in Asks(c, "message") /\ up'[c][q] = up[c][q + s]
  BY <1>2 DEF AsksMove
<1>6. ASSUME NEW q \in Asks(c, "message")', p < q
      PROVE  up'[c][q].cid < up'[c][p].cid
  <2>1. p # n
    BY <1>2, <1>4, <1>6 DEF AsksMove
  <2>2. p + s \in Asks(c, "message") /\ up'[c][p] = up[c][p + s]
    BY <1>5, <2>1
  <2>3. CASE q # n
    <3>1. p + s < q + s
      BY <1>2, <1>4, <1>6 DEF AsksMove
    <3> QED BY <1>1, <1>5, <2>2, <2>3, <3>1 DEF AsksInTurn
  <2>4. CASE q = n
    <3>1. n # 0
      BY <1>4, <1>6, <2>4
    <3>2. up'[c][q].cid = -(asked + 1)
      BY <1>2, <2>4, <3>1 DEF AsksMove
    <3>3. up[c][p + s].cid \in (-asked)..(-1)
      BY <1>3, <2>2
    <3> QED BY <1>3, <2>2, <3>2, <3>3
  <2> QED BY <2>3, <2>4
<1>7. ASSUME NEW i \in DOMAIN rows', rows'[i].user = Owner[c]
      PROVE  up'[c][p].cid < rows'[i].cid
  <2>1. CASE i \in DOMAIN rows
    <3>1. rows'[i].cid = rows[i].cid /\ rows[i].user = Owner[c]
      BY <1>7, <2>1, RowsKeep
    <3>2. CASE p # n
      BY <1>1, <1>5, <2>1, <3>1, <3>2 DEF AsksInTurn
    <3>3. CASE p = n
      <4>2. up'[c][p].cid = -(asked + 1)
        BY <1>2, <1>4, <3>3 DEF AsksMove
      <4>3. rows[i].cid \in (-asked)..0
        BY <1>3, <2>1
      <4> QED BY <1>3, <3>1, <4>2, <4>3
    <3> QED BY <3>2, <3>3
  <2>2. CASE i \notin DOMAIN rows
    <3>1. PICK d \in Conns : HandleChatMessage(d) /\ i = Len(rows) + 1
      BY <2>2, NewestSteps
    <3>2. PICK k : k = Len(rows) + 1
      OBVIOUS
    <3>3. /\ rows'[k] = NewRow(d) /\ 1 \in DOMAIN up[d] /\ up[d][1].kind = "message"
          /\ k \notin DOMAIN rows /\ DOMAIN rows' = DOMAIN rows \cup {k}
      BY <3>1, <3>2, ChatFans
    <3>4. Owner[d] = Owner[c] /\ up[d] # <<>> /\ rows'[i].cid = up[d][1].cid
      BY <1>7, <3>1, <3>2, <3>3 DEF NewRow
    <3>5. p # n
      <4>2. rows' # rows
        BY <3>3
      <4> QED BY <1>2, <1>4, <4>2 DEF AsksMove
    <3>6. p + s \in Asks(c, "message") /\ up'[c][p] = up[c][p + s]
      BY <1>5, <3>5
    <3>7. c = d
      <4>1. up[c] # <<>>
        BY <3>6 DEF Asks
      <4> QED BY <1>1, <3>4, <4>1, OneConnection
    <3>8. s = 1
      BY <1>2, <3>1, <3>7 DEF AsksMove
    <3>9. 1 \in Asks(c, "message") /\ 1 < p + s
      <4>2. 1 < p + s
        BY <1>4, <3>8
      <4> QED BY <3>3, <3>7, <4>2 DEF Asks
    <3> QED BY <1>1, <3>4, <3>6, <3>7, <3>9 DEF AsksInTurn
  <2> QED BY <2>1, <2>2
<1> QED BY <1>6, <1>7

\* InTurn is inductive.
LEMMA InTurnStep ==
  ASSUME Types, SocketsKnown, Cids, Faithful, OnceFan, InTurn, FeedNext
  PROVE  InTurn'
<1>1. Types'
  BY TypesStep
<1> QED BY <1>1, RowsInTurnStep, AsksInTurnStep, FansInTurnStep, DownInTurnStep DEF InTurn


-----------------------------------------------------------------------------
(***************************************************************************)
(* Order in the windows                                                    *)
(***************************************************************************)

\* A live message takes the place of an entry only if it is the user's.
LEMMA PutMine ==
  ASSUME Types, Cids, Faithful, OwnEntries, NEW u \in Users, NEW m, m.id \in DOMAIN rows, m.id > 0,
         m.cid = rows[m.id].cid, m.user = rows[m.id].user, NEW d, Put(d, win[u], m)
  PROVE  m.user = u
<1>1. PICK i \in DOMAIN win[u] : \/ m.cid # 0 /\ win[u][i].id = m.cid
                                 \/ win[u][i].id < 0 /\ win[u][i].user = m.user
  BY DEF Put
<1>2. CASE m.cid # 0 /\ win[u][i].id = m.cid
  <2>1. m.cid < 0
    <3>1. rows[m.id].cid \in (-asked)..0 /\ asked \in Nat
      BY TypesAt DEF Cids
    <3> QED BY <1>2, <3>1
  <2> QED BY <1>2, <2>1 DEF OwnEntries, OwnRows
<1>3. CASE win[u][i].id < 0 /\ win[u][i].user = m.user
  BY <1>3 DEF Faithful, FaithWindows, Shows
<1> QED BY <1>1, <1>2, <1>3

\* Where entries were: new ones are the user's, or history brought them, or it is the
\* first message, now the last entry.
WinMove(c, s, e) ==
  /\ Alike(win'[Owner[c]], win[Owner[c]], e)
  /\ \A i \in DOMAIN win'[Owner[c]] : e[i] = 0 =>
       \/ win'[Owner[c]][i].user = Owner[c]
       \/ win'[Owner[c]][i].id \in had[c]
       \/ /\ s = 1 /\ 1 \in At(c, "message") /\ win'[Owner[c]][i] = down[c][1].message
          /\ \A j \in DOMAIN win'[Owner[c]] : ~(i < j)

\* A window that does not change.
LEMMA SameWin ==
  ASSUME Types, Types', NEW c \in Conns, NEW s, win'[Owner[c]] = win[Owner[c]]
  PROVE  \E e : WinMove(c, s, e)
<1>1. PICK w : w = win[Owner[c]]
  OBVIOUS
<1>2. w \in Seq(Told)
  BY <1>1, TypesAt
<1>3. PICK e : Alike(w, w, e) /\ \A i \in DOMAIN w : e[i] # 0
  BY <1>2, SelfAlike
<1>4. WinMove(c, s, e)
  BY <1>1, <1>3 DEF WinMove
<1> QED BY <1>4

\* How the window changes with a frame.
LEMMA HandleWin ==
  ASSUME Types, Types', SocketsKnown, Cids, Faithful, OwnEntries, NEW u \in Users, Handle(u),
         NEW c \in Conns, c = conn[u], NEW s, s = 1
  PROVE  \E e : WinMove(c, s, e)
<1>1. PICK d, w, f : d = win'[u] /\ w = win[u] /\ f = down[c][1]
  OBVIOUS
<1>2. f \in Frames /\ Treats(d, w, f, u) /\ 1 \in DOMAIN down[c]
  BY <1>1, HandleDoes
<1>3. w \in Seq(Told) /\ d \in Seq(Told)
  BY <1>1, TypesAt, WindowAfter
<1>4. Owner[c] = u
  BY FeedConstants, SocketOf
<1>5. CASE f.kind = "message"
  <2>1. PICK m : m = f.message
    OBVIOUS
  <2>2. /\ m \in Told /\ m.id \in DOMAIN rows /\ m.id > 0 /\ m.cid = rows[m.id].cid /\ m.user = rows[m.id].user
    BY <1>1, <1>2, <1>5, <2>1, ToldIds
  <2>3. Put(d, w, m) \/ Known(d, w, m) \/ Added(d, w, m)
    BY <1>2, <1>5, <2>1 DEF Treats
  <2>4. 1 \in At(c, "message") /\ down[c][1].message = m
    BY <1>1, <1>2, <1>5, <2>1 DEF At
  <2>5. CASE Put(d, w, m)
    <3>1. m.user = u
      BY <1>1, <2>2, <2>5, PutMine
    <3>2. PICK e : Alike(d, w, e) /\ \A i \in DOMAIN d : e[i] = 0 => d[i] = m
      BY <1>3, <2>2, <2>3, LiveOrigin
    <3>3. WinMove(c, s, e)
      BY <1>1, <1>4, <3>1, <3>2 DEF WinMove
    <3> QED BY <3>3
  <2>6. CASE Known(d, w, m)
    <3>1. win'[Owner[c]] = win[Owner[c]]
      BY <1>1, <1>4, <2>6 DEF Known
    <3> QED BY <3>1, SameWin
  <2>7. CASE Added(d, w, m)
    <3>1. d[Len(d)] = m
      BY <2>7 DEF Added
    <3>2. PICK e : From(d, w, e) /\ \A i \in DOMAIN d : e[i] = 0 <=> i = Len(d)
      BY <2>7 DEF Added
    <3>3. Alike(d, w, e)
      BY <3>2, FromAlike
    <3>4. DOMAIN d = 1..Len(d) /\ Len(d) \in Nat
      BY <1>3, EntriesAre
    <3>5. \A j \in DOMAIN d : ~(Len(d) < j)
      BY <3>4
    <3>6. \A i \in DOMAIN d : e[i] = 0 => d[i] = m /\ \A j \in DOMAIN d : ~(i < j)
      BY <3>1, <3>2, <3>5
    <3>7. WinMove(c, s, e)
      BY <1>1, <1>4, <2>4, <3>3, <3>6 DEF WinMove
    <3> QED BY <3>7
  <2> QED BY <2>3, <2>5, <2>6, <2>7
<1>6. CASE f.kind # "message"
  <2>1. PICK e : /\ Alike(d, w, e)
                 /\ \A i \in DOMAIN d : e[i] = 0 =>
                      \/ f.kind = "message" /\ d[i] = f.message
                      \/ f.kind = "history" /\ \E q \in DOMAIN f.messages : d[i] = f.messages[q]
    BY <1>2, <1>3, TreatsOrigin
  <2>2. f.kind = "history" => 1 \in At(c, "history") /\ Ids(f.messages) \subseteq had[c]
    BY <1>1, <1>2, ToldRow DEF At
  <2>3. \A i \in DOMAIN d : e[i] = 0 => d[i].id \in had[c]
    BY <1>6, <2>1, <2>2 DEF Ids
  <2>4. WinMove(c, s, e)
    BY <1>1, <1>4, <2>1, <2>3 DEF WinMove
  <2> QED BY <2>4
<1> QED BY <1>5, <1>6

\* How it changes with a message of the user's own.
LEMMA SendWin ==
  ASSUME Types, Types', Faithful, NEW c \in Conns, NEW t \in Texts, SendMessage(Owner[c], t), NEW s
  PROVE  \E e : WinMove(c, s, e)
<1>0. PICK u \in Users : u = Owner[c]
  BY FeedConstants
<1>1. PICK n, m : /\ m \in Told /\ n \in Int /\ n = -(asked + 1) /\ m.id = n /\ m.cid = n /\ m.user = u
                  /\ Put(win'[u], win[u], m) \/ Known(win'[u], win[u], m) \/ Added(win'[u], win[u], m)
  BY <1>0, SendAll
<1>2. PICK d, w : d = win'[u] /\ w = win[u]
  OBVIOUS
<1>3. d \in Seq(Told) /\ w \in Seq(Told)
  BY <1>2, TypesAt, WindowAfter
<1>4. PICK e : Alike(d, w, e) /\ \A i \in DOMAIN d : e[i] = 0 => d[i] = m
  BY <1>1, <1>2, <1>3, LiveOrigin
<1>5. WinMove(c, s, e)
  BY <1>0, <1>1, <1>2, <1>4 DEF WinMove
<1> QED BY <1>5

\* How it changes with any step.
LEMMA WinMoves ==
  ASSUME Types, Types', SocketsKnown, Cids, Faithful, OwnEntries, FeedNext, NEW c \in Conns, Attached(c),
         NEW s, NEW n, Moves(c, s, n)
  PROVE  \E e : WinMove(c, s, e)
<1>1. PICK u \in Users : u = Owner[c] /\ c = conn[u]
  BY FeedConstants DEF Attached
<1>2. CASE Handle(u)
  <2>1. s = 1
    BY <1>1, <1>2 DEF Moves
  <2> QED BY <1>1, <1>2, <2>1, HandleWin
<1>3. CASE \E t \in Texts : SendMessage(u, t)
  BY <1>1, <1>3, SendWin
<1>4. CASE win'[u] = win[u]
  BY <1>1, <1>4, SameWin
<1>5. \A b \in Conns : OpenSocket(u, b) => win' = win
  BY DEF OpenSocket
<1>6. LoseSocket(u) => win' = win
  BY DEF LoseSocket
<1> QED BY <1>2, <1>3, <1>4, <1>5, <1>6, PageChanges DEF PageChange

\* An entry of another user was one, or is the first message.
OtherWas(c, s, e, i) ==
  \/ /\ e[i] # 0 /\ e[i] \in Others(c)
     /\ win[Owner[c]][e[i]].id = win'[Owner[c]][i].id /\ win[Owner[c]][e[i]].user = win'[Owner[c]][i].user
  \/ /\ e[i] = 0 /\ s = 1 /\ 1 \in At(c, "message") /\ win'[Owner[c]][i] = down[c][1].message
     /\ \A j \in DOMAIN win'[Owner[c]] : ~(i < j)

\* Entries of other users are old, or come from the first frame.
LEMMA OthersWere ==
  ASSUME Types, Faithful, FeedNext, NEW c \in Conns, NEW s, NEW e, WinMove(c, s, e), NEW i \in Others(c)'
  PROVE  OtherWas(c, s, e, i)
<1>1. lossy \subseteq lossy' /\ had[c] \subseteq had'[c]
  BY LossyGrows, CountSteps
<1>2. /\ i \in DOMAIN win'[Owner[c]] /\ win'[Owner[c]][i].id \notin had'[c]
      /\ win'[Owner[c]][i].user \notin lossy' /\ win'[Owner[c]][i].user # Owner[c]
  BY DEF Others, Live1
<1>3. CASE e[i] = 0
  BY <1>1, <1>2, <1>3 DEF WinMove, OtherWas
<1>4. CASE e[i] # 0
  <2>1. /\ e[i] \in DOMAIN win[Owner[c]] /\ win'[Owner[c]][i].id = win[Owner[c]][e[i]].id
        /\ win'[Owner[c]][i].user = win[Owner[c]][e[i]].user
    BY <1>2, <1>4 DEF WinMove, Alike
  <2>2. e[i] \in Others(c)
    BY <1>1, <1>2, <2>1 DEF Others, Live1
  <2> QED BY <1>4, <2>1, <2>2 DEF OtherWas
<1> QED BY <1>3, <1>4

\* Entries of other users stay in order.
LEMMA OthersInTurnStep ==
  ASSUME Types, Types', SocketsKnown, Cids, Faithful, OwnEntries, FeedNext, NEW c \in Conns, Attached(c),
         OnceFan, OnceSeen(c), FansInTurn, DownInTurn, OthersInTurn(c)
  PROVE  OthersInTurn(c)'
<1>0. PICK u, d, w : u = Owner[c] /\ u \in Users /\ d = win'[u] /\ w = win[u]
  BY FeedConstants
<1> SUFFICES ASSUME NEW i \in Others(c)'
             PROVE  /\ \A j \in Others(c)' : i < j /\ d[i].user = d[j].user => d[i].id < d[j].id
                    /\ \A p \in At(c, "message")' :
                         d[i].user = down'[c][p].message.user => d[i].id < down'[c][p].message.id
  BY <1>0 DEF OthersInTurn
<1>1. PICK s, n : Moves(c, s, n)
  BY FrameMoves
<1>2. PICK e : WinMove(c, s, e)
  BY <1>1, WinMoves
<1>3. \A j \in Others(c)' : OtherWas(c, s, e, j) /\ j \in DOMAIN d
  BY <1>0, <1>2, OthersWere DEF Others
<1>4. \A j, k \in DOMAIN d : j < k /\ e[j] # 0 /\ e[k] # 0 => e[j] < e[k]
  BY <1>0, <1>2 DEF WinMove, Alike
<1>5. lossy \subseteq lossy'
  BY LossyGrows
<1>6. d[i].user \notin lossy /\ d[i].user # u
  BY <1>0, <1>5 DEF Others
<1>7. ASSUME NEW j \in Others(c)', i < j, d[i].user = d[j].user
      PROVE  d[i].id < d[j].id
  <2>1. e[i] # 0 /\ e[i] \in Others(c) /\ w[e[i]].id = d[i].id /\ w[e[i]].user = d[i].user
    BY <1>0, <1>3, <1>7 DEF OtherWas
  <2>2. CASE e[j] # 0
    <3>1. e[j] \in Others(c) /\ w[e[j]].id = d[j].id /\ w[e[j]].user = d[j].user
      BY <1>0, <1>3, <2>2 DEF OtherWas
    <3>2. e[i] < e[j]
      BY <1>3, <1>4, <1>7, <2>1, <2>2
    <3> QED BY <1>0, <1>7, <2>1, <3>1, <3>2 DEF OthersInTurn
  <2>3. CASE e[j] = 0
    <3>1. 1 \in At(c, "message") /\ d[j] = down[c][1].message
      BY <1>0, <1>3, <2>3 DEF OtherWas
    <3> QED BY <1>0, <1>7, <2>1, <3>1 DEF OthersInTurn
  <2> QED BY <2>2, <2>3
<1>8. ASSUME NEW p \in At(c, "message")', d[i].user = down'[c][p].message.user
      PROVE  d[i].id < down'[c][p].message.id
  <2>1. p # n => p + s \in At(c, "message") /\ down'[c][p] = down[c][p + s]
    BY <1>1, FrameWas
  <2>2. p \in Nat /\ p # 0 /\ s \in {0, 1}
    BY <1>1 DEF Moves, At
  <2>3. CASE e[i] # 0
    <3>1. e[i] \in Others(c) /\ w[e[i]].id = d[i].id /\ w[e[i]].user = d[i].user
      BY <1>0, <1>3, <2>3 DEF OtherWas
    <3>2. CASE p # n
      BY <1>0, <1>8, <2>1, <3>1, <3>2 DEF OthersInTurn
    <3>3. CASE p = n
      <4>1. Arrives(c, down'[c][p]) /\ down'[c][p].kind = "message"
        BY <1>1, <3>3, FrameNew
      <4>2. PICK b \in Conns : down'[c][p] = job[b].frame /\ Fans(b, "message")
        BY <4>1, MessageArrives
      <4>3. PICK x, y : x = d[i].id /\ y = down'[c][p].message.id
        OBVIOUS
      <4>4. down'[c][p].message.user = Owner[b] /\ y \in DOMAIN rows
        BY <4>2, <4>3, ToldRow
      <4>5. x \in DOMAIN rows /\ rows[x].user = Owner[b]
        <5>1. Shows(u, w[e[i]]) /\ w[e[i]].id \in Int
          BY <1>0, <3>1, TypesAt DEF Faithful, FaithWindows, Others
        <5> QED BY <1>6, <1>8, <3>1, <4>3, <4>4, <5>1 DEF Shows, IsRow
      <4>6. x <= y
        BY <1>6, <1>8, <4>2, <4>3, <4>4, <4>5 DEF FansInTurn
      <4>7. x # y
        <5> SUFFICES ASSUME x = y
                     PROVE  FALSE
          OBVIOUS
        <5>1. x \in Ids(win[Owner[c]])
          BY <1>0, <3>1, <4>3 DEF Ids, Others
        <5>2. x \in had[c]
          BY <4>2, <4>3, <5>1 DEF OnceSeen
        <5> QED BY <1>0, <3>1, <4>3, <5>2 DEF Others, Live1
      <4>8. x \in Nat /\ y \in Nat
        BY <4>4, <4>5, TypesAt
      <4> QED BY <4>3, <4>6, <4>7, <4>8
    <3> QED BY <3>2, <3>3
  <2>4. CASE e[i] = 0
    <3>1. s = 1 /\ 1 \in At(c, "message") /\ d[i] = down[c][1].message
      BY <1>0, <1>3, <2>4 DEF OtherWas
    <3>2. p # n
      BY <1>1, <2>2, <3>1 DEF Moves
    <3>3. 1 < p + s
      BY <2>2, <3>1
    <3> QED BY <1>6, <1>8, <2>1, <3>1, <3>2, <3>3 DEF DownInTurn
  <2> QED BY <2>3, <2>4
<1> QED BY <1>7, <1>8

\* Cid after the step.
CidNew(m) == IF m.id < 0 THEN m.id ELSE rows'[m.id].cid

\* What an entry of the user's was: it kept the id the page gave it, or is new and last.
MineWas(c, e) ==
  /\ \A i, j \in DOMAIN win'[Owner[c]] : i < j /\ e[i] # 0 /\ e[j] # 0 => e[i] < e[j]
  /\ \A i \in Mine(c)' :
       \/ /\ e[i] # 0 /\ e[i] \in Mine(c)
          /\ CidNew(win'[Owner[c]][i]) = Cid(win[Owner[c]][e[i]])
          /\ win'[Owner[c]][i].id > 0 => Cid(win[Owner[c]][e[i]]) # 0
       \/ /\ e[i] = 0 /\ win'[Owner[c]][i].id = -(asked + 1)
          /\ \A j \in DOMAIN win'[Owner[c]] : ~(i < j)

\* The id the page gave is that of an optimistic entry, or that of its row.
LEMMA CidRange ==
  ASSUME Types, Cids, Faithful, NEW u \in Users, NEW i \in DOMAIN win[u]
  PROVE  /\ Cid(win[u][i]) \in Int /\ Cid(win[u][i]) >= -asked
         /\ win[u][i].id < 0 => Cid(win[u][i]) = win[u][i].id
         /\ win[u][i].id >= 0 => win[u][i].id \in DOMAIN rows /\ Cid(win[u][i]) = rows[win[u][i].id].cid
<1>1. Shows(u, win[u][i]) /\ win[u][i].id \in Int /\ asked \in Nat
  BY TypesAt DEF Faithful, FaithWindows
<1>2. CASE win[u][i].id < 0
  BY <1>1, <1>2 DEF Shows, Cid
<1>3. CASE win[u][i].id >= 0
  <2>1. win[u][i].id \in DOMAIN rows
    BY <1>1, <1>3 DEF Shows, IsRow
  <2>2. rows[win[u][i].id].cid \in (-asked)..0
    BY <2>1 DEF Cids
  <2>3. Cid(win[u][i]) = rows[win[u][i].id].cid
    BY <1>1, <1>3 DEF Cid
  <2> QED BY <1>1, <1>3, <2>1, <2>2, <2>3
<1> QED BY <1>1, <1>2, <1>3

\* An entry with the same id has the same.
LEMMA CidSame ==
  ASSUME Types, Cids, Faithful, FeedNext, NEW u \in Users, NEW i \in DOMAIN win[u], NEW m, m.id = win[u][i].id
  PROVE  CidNew(m) = Cid(win[u][i])
<1>1. win[u][i].id \in Int
  BY TypesAt
<1>2. CASE m.id < 0
  BY <1>2, CidRange DEF CidNew
<1>3. CASE ~(m.id < 0)
  <2>1. m.id \in DOMAIN rows /\ Cid(win[u][i]) = rows[m.id].cid
    BY <1>1, <1>3, CidRange
  <2>2. rows'[m.id].cid = rows[m.id].cid
    BY <2>1, RowsKeep
  <2> QED BY <1>3, <2>1, <2>2 DEF CidNew
<1> QED BY <1>2, <1>3

\* Entries that are as they were, and new ones that are not the user's or are sent.
LEMMA MineAlike ==
  ASSUME Types, Types', Cids, Faithful, FeedNext, NEW c \in Conns, MineInTurn(c), NEW e,
         Alike(win'[Owner[c]], win[Owner[c]], e),
         \A i \in DOMAIN win'[Owner[c]] : e[i] = 0 =>
           \/ win'[Owner[c]][i].user # Owner[c] \/ win'[Owner[c]][i].id \in had[c]
           \/ win'[Owner[c]][i].id = -(asked + 1) /\ \A j \in DOMAIN win'[Owner[c]] : ~(i < j)
  PROVE  MineWas(c, e)
<1>0. PICK u, d, w : u = Owner[c] /\ u \in Users /\ d = win'[u] /\ w = win[u]
  BY FeedConstants
<1>1. had[c] \subseteq had'[c]
  BY CountSteps
<1>2. ASSUME NEW i \in Mine(c)'
      PROVE  \/ /\ e[i] # 0 /\ e[i] \in Mine(c)
                /\ CidNew(d[i]) = Cid(w[e[i]])
                /\ d[i].id > 0 => Cid(w[e[i]]) # 0
             \/ /\ e[i] = 0 /\ d[i].id = -(asked + 1)
                /\ \A j \in DOMAIN d : ~(i < j)
  <2>1. i \in DOMAIN d /\ d[i].id \notin had'[c] /\ d[i].user = u
    BY <1>0 DEF Mine, Live1
  <2>2. CASE e[i] = 0
    BY <1>0, <1>1, <2>1, <2>2
  <2>3. CASE e[i] # 0
    <3>1. e[i] \in DOMAIN w /\ d[i].id = w[e[i]].id /\ d[i].user = w[e[i]].user
      BY <1>0, <2>1, <2>3 DEF Alike
    <3>2. e[i] \in Mine(c)
      BY <1>0, <1>1, <2>1, <3>1 DEF Mine, Live1
    <3>3. PICK m : m = d[i]
      OBVIOUS
    <3>4. CidNew(m) = Cid(w[e[i]])
      BY <1>0, <3>1, <3>3, CidSame
    <3>5. d[i].id > 0 => Cid(w[e[i]]) # 0
      BY <1>0, <3>1, <3>2 DEF MineInTurn
    <3> QED BY <1>0, <2>3, <3>2, <3>3, <3>4, <3>5
  <2> QED BY <2>2, <2>3
<1>3. \A i, j \in DOMAIN d : i < j /\ e[i] # 0 /\ e[j] # 0 => e[i] < e[j]
  BY <1>0 DEF Alike
<1> QED BY <1>0, <1>2, <1>3 DEF MineWas

\* The user's own entries when the window does not change.
LEMMA MineSame ==
  ASSUME Types, Types', Cids, Faithful, FeedNext, NEW c \in Conns, MineInTurn(c), win'[Owner[c]] = win[Owner[c]]
  PROVE  \E e : MineWas(c, e)
<1>1. PICK w : w = win[Owner[c]]
  OBVIOUS
<1>2. w \in Seq(Told)
  BY <1>1, TypesAt
<1>3. PICK e : Alike(w, w, e) /\ \A i \in DOMAIN w : e[i] # 0
  BY <1>2, SelfAlike
<1>4. MineWas(c, e)
  BY <1>1, <1>3, MineAlike
<1> QED BY <1>4

\* The user's own entries when the page sends.
LEMMA MineSend ==
  ASSUME Types, Types', Cids, Faithful, FeedNext, NEW c \in Conns, MineInTurn(c), NEW t \in Texts, SendMessage(Owner[c], t)
  PROVE  \E e : MineWas(c, e)
<1>0. PICK u \in Users : u = Owner[c]
  BY FeedConstants
<1>1. PICK n, m : /\ m \in Told /\ n \in Int /\ n = -(asked + 1) /\ m.id = n /\ m.cid = n /\ m.user = u
                  /\ Put(win'[u], win[u], m) \/ Known(win'[u], win[u], m) \/ Added(win'[u], win[u], m)
  BY <1>0, SendAll
<1>2. PICK d, w : d = win'[u] /\ w = win[u]
  OBVIOUS
<1>3. d \in Seq(Told) /\ w \in Seq(Told)
  BY <1>2, TypesAt, WindowAfter
<1>4. Added(d, win[u], m)
  BY <1>1, <1>2, <1>3, SendAdds
<1>5. PICK e : From(d, w, e) /\ \A i \in DOMAIN d : e[i] = 0 <=> i = Len(d)
  BY <1>2, <1>4 DEF Added
<1>6. Alike(d, w, e)
  BY <1>5, FromAlike
<1>7. d[Len(d)] = m
  BY <1>4 DEF Added
<1>8. \A j \in DOMAIN d : ~(Len(d) < j)
  <2>1. DOMAIN d = 1..Len(d) /\ Len(d) \in Nat
    BY <1>3, EntriesAre
  <2> QED BY <2>1
<1>9. \A i \in DOMAIN d : e[i] = 0 => d[i].id = -(asked + 1) /\ \A j \in DOMAIN d : ~(i < j)
  BY <1>1, <1>5, <1>7, <1>8
<1>10. MineWas(c, e)
  BY <1>0, <1>2, <1>6, <1>9, MineAlike
<1> QED BY <1>10

\* The echo of a message takes the place of the entry that waits for it.
LEMMA MineEcho ==
  ASSUME Types, Types', Cids, Faithful, FeedNext, NEW c \in Conns, MineInTurn(c),
         NEW m, m.id \in DOMAIN rows, m.id > 0, m.cid = rows[m.id].cid, m.cid # 0, m.user = Owner[c],
         NEW at \in DOMAIN win[Owner[c]], win[Owner[c]][at].id = m.cid,
         win'[Owner[c]] = [win[Owner[c]] EXCEPT ![at] = m]
  PROVE  \E e : MineWas(c, e)
<1>0. PICK u, d, w : u = Owner[c] /\ u \in Users /\ d = win'[u] /\ w = win[u]
  BY FeedConstants
<1>1. w \in Seq(Told) /\ DOMAIN d = DOMAIN w /\ d[at] = m /\ \A i \in DOMAIN w : i # at => d[i] = w[i]
  BY <1>0, TypesAt
<1>2. m.cid < 0 /\ m.cid \in Int
  <2>1. rows[m.id].cid \in (-asked)..0 /\ asked \in Nat
    BY TypesAt DEF Cids
  <2> QED BY <2>1
<1>3. at \in Mine(c) /\ Cid(w[at]) = m.cid
  <2>1. Shows(u, w[at])
    BY <1>0 DEF Faithful, FaithWindows
  <2>2. w[at].user = u
    BY <1>0, <1>2, <2>1 DEF Shows
  <2>3. \A k \in had[c] : k > 0
    BY TypesAt DEF Faithful, FaithCounts
  <2>4. w[at].id \notin had[c]
    BY <1>0, <1>2, <2>3
  <2> QED BY <1>0, <1>2, <2>2, <2>4 DEF Mine, Live1, Cid
<1>4. CidNew(m) = m.cid
  BY RowsKeep DEF CidNew
<1>5. had[c] \subseteq had'[c]
  BY CountSteps
<1> DEFINE e == [i \in DOMAIN w |-> i]
<1>6. \A i \in DOMAIN w : e[i] = i /\ i \in Nat /\ i # 0
  BY <1>1, EmptyAt
<1> HIDE DEF e
<1>7. \A i, j \in DOMAIN d : i < j /\ e[i] # 0 /\ e[j] # 0 => e[i] < e[j]
  BY <1>1, <1>6
<1>8. ASSUME NEW i \in Mine(c)'
      PROVE  /\ e[i] # 0 /\ e[i] \in Mine(c)
             /\ CidNew(d[i]) = Cid(w[e[i]])
             /\ d[i].id > 0 => Cid(w[e[i]]) # 0
  <2>1. i \in DOMAIN w /\ d[i].id \notin had'[c] /\ d[i].user = u
    BY <1>0, <1>1 DEF Mine, Live1
  <2>2. CASE i = at
    BY <1>1, <1>3, <1>4, <1>6, <2>1, <2>2
  <2>3. CASE i # at
    <3>1. d[i] = w[i]
      BY <1>1, <2>1, <2>3
    <3>2. i \in Mine(c)
      BY <1>0, <1>5, <2>1, <3>1 DEF Mine, Live1
    <3>3. PICK x : x = d[i]
      OBVIOUS
    <3>4. CidNew(x) = Cid(w[i])
      BY <1>0, <2>1, <3>1, <3>3, CidSame
    <3>5. d[i].id > 0 => Cid(w[i]) # 0
      BY <1>0, <3>1, <3>2 DEF MineInTurn
    <3> QED BY <1>6, <2>1, <3>2, <3>3, <3>4, <3>5
  <2> QED BY <2>2, <2>3
<1>9. MineWas(c, e)
  BY <1>0, <1>7, <1>8 DEF MineWas
<1> QED BY <1>9

\* The user's own entries when the page handles a frame.
LEMMA MineHandle ==
  ASSUME Types, Types', SocketsKnown, Cids, Faithful, OwnEntries, FeedNext, NEW u \in Users, Handle(u),
         NEW c \in Conns, c = conn[u], MineInTurn(c), MineMeet(c)
  PROVE  \E e : MineWas(c, e)
<1>1. PICK d, w, f : d = win'[u] /\ w = win[u] /\ f = down[c][1]
  OBVIOUS
<1>2. f \in Frames /\ Treats(d, w, f, u) /\ 1 \in DOMAIN down[c]
  BY <1>1, HandleDoes
<1>3. w \in Seq(Told) /\ d \in Seq(Told)
  BY <1>1, TypesAt, WindowAfter
<1>4. Owner[c] = u
  BY FeedConstants, SocketOf
<1>5. CASE f.kind = "message"
  <2>1. PICK m : m = f.message
    OBVIOUS
  <2>2. /\ m \in Told /\ m.id \in DOMAIN rows /\ m.id > 0 /\ m.cid = rows[m.id].cid /\ m.user = rows[m.id].user
        /\ m.cid # 0
    BY <1>1, <1>2, <1>5, <2>1, ToldIds
  <2>3. Put(d, w, m) \/ Known(d, w, m) \/ Added(d, w, m)
    BY <1>2, <1>5, <2>1 DEF Treats
  <2>4. 1 \in At(c, "message") /\ down[c][1].message = m
    BY <1>1, <1>2, <1>5, <2>1 DEF At
  <2>5. CASE m.user = u
    <3>1. m.cid \in Ids(w)
      BY <1>1, <1>4, <2>4, <2>5 DEF MineMeet
    <3>2. ~Unasked(w, m)
      BY <2>2, <3>1 DEF Unasked, Ids
    <3>3. Put(d, w, m)
      BY <2>3, <3>2 DEF Known, Added
    <3>4. PICK b \in DOMAIN w : /\ \/ m.cid # 0 /\ w[b].id = m.cid
                                   \/ Unasked(w, m) /\ m.id >= 0 /\ w[b].id < 0 /\ w[b].user = m.user
                                /\ d = [w EXCEPT ![b] = m]
      BY <3>3 DEF Put
    <3>5. w[b].id = m.cid
      BY <3>2, <3>4
    <3>6. /\ b \in DOMAIN win[Owner[c]] /\ win[Owner[c]][b].id = m.cid /\ m.user = Owner[c]
          /\ win'[Owner[c]] = [win[Owner[c]] EXCEPT ![b] = m]
      BY <1>1, <1>4, <2>5, <3>4, <3>5
    <3> QED BY <2>2, <3>6, MineEcho
  <2>6. CASE m.user # u
    <3>1. ~Put(d, w, m)
      BY <1>1, <2>2, <2>6, PutMine
    <3>2. PICK e : Alike(d, w, e) /\ \A i \in DOMAIN d : e[i] = 0 => d[i] = m
      BY <1>3, <2>2, <2>3, LiveOrigin
    <3>3. MineWas(c, e)
      BY <1>1, <1>4, <2>6, <3>2, MineAlike
    <3> QED BY <3>3
  <2> QED BY <2>5, <2>6
<1>6. CASE f.kind # "message"
  <2>1. PICK e : /\ Alike(d, w, e)
                 /\ \A i \in DOMAIN d : e[i] = 0 =>
                      \/ f.kind = "message" /\ d[i] = f.message
                      \/ f.kind = "history" /\ \E q \in DOMAIN f.messages : d[i] = f.messages[q]
    BY <1>2, <1>3, TreatsOrigin
  <2>2. f.kind = "history" => 1 \in At(c, "history") /\ Ids(f.messages) \subseteq had[c]
    BY <1>1, <1>2, ToldRow DEF At
  <2>3. \A i \in DOMAIN d : e[i] = 0 => d[i].id \in had[c]
    BY <1>6, <2>1, <2>2 DEF Ids
  <2>4. MineWas(c, e)
    BY <1>1, <1>4, <2>1, <2>3, MineAlike
  <2> QED BY <2>4
<1> QED BY <1>5, <1>6

\* The user's own entries with any step.
LEMMA MineMoves ==
  ASSUME Types, Types', SocketsKnown, Cids, Faithful, OwnEntries, FeedNext, NEW c \in Conns, Attached(c),
         MineInTurn(c), MineMeet(c)
  PROVE  \E e : MineWas(c, e)
<1>1. PICK u \in Users : u = Owner[c] /\ c = conn[u]
  BY FeedConstants DEF Attached
<1>2. CASE Handle(u)
  BY <1>1, <1>2, MineHandle
<1>3. CASE \E t \in Texts : SendMessage(u, t)
  BY <1>1, <1>3, MineSend
<1>4. CASE win'[u] = win[u]
  BY <1>1, <1>4, MineSame
<1>5. \A b \in Conns : OpenSocket(u, b) => win' = win
  BY DEF OpenSocket
<1>6. LoseSocket(u) => win' = win
  BY DEF LoseSocket
<1> QED BY <1>2, <1>3, <1>4, <1>5, <1>6, PageChanges DEF PageChange

\* The user's own entries stay in order.
LEMMA MineInTurnStep ==
  ASSUME Types, Types', SocketsKnown, Cids, Faithful, OwnEntries, FeedNext, NEW c \in Conns, Attached(c),
         MineInTurn(c), MineMeet(c)
  PROVE  MineInTurn(c)'
<1>0. PICK u, d, w : u = Owner[c] /\ u \in Users /\ d = win'[u] /\ w = win[u]
  BY FeedConstants
<1>1. PICK e : MineWas(c, e)
  BY MineMoves
<1>2. asked \in Nat
  BY TypesAt
<1> SUFFICES ASSUME NEW i \in Mine(c)'
             PROVE  /\ d[i].id > 0 => CidNew(d[i]) # 0
                    /\ \A j \in Mine(c)' : i < j => CidNew(d[j]) < CidNew(d[i])
  BY <1>0 DEF MineInTurn, Cid, CidNew
<1>3. \A j \in Mine(c)' :
        \/ /\ e[j] # 0 /\ e[j] \in Mine(c) /\ CidNew(d[j]) = Cid(w[e[j]])
           /\ d[j].id > 0 => Cid(w[e[j]]) # 0
        \/ e[j] = 0 /\ d[j].id = -(asked + 1) /\ \A k \in DOMAIN d : ~(j < k)
  BY <1>0, <1>1 DEF MineWas
<1>4. \A j \in Mine(c)' : j \in DOMAIN d
  BY <1>0 DEF Mine
<1>5. d[i].id > 0 => CidNew(d[i]) # 0
  BY <1>2, <1>3
<1>6. ASSUME NEW j \in Mine(c)', i < j
      PROVE  CidNew(d[j]) < CidNew(d[i])
  <2>1. e[i] # 0 /\ e[i] \in Mine(c) /\ CidNew(d[i]) = Cid(w[e[i]])
    BY <1>3, <1>4, <1>6
  <2>2. CASE e[j] # 0
    <3>1. e[j] \in Mine(c) /\ CidNew(d[j]) = Cid(w[e[j]])
      BY <1>3, <2>2
    <3>2. e[i] < e[j]
      BY <1>0, <1>1, <1>4, <1>6, <2>1, <2>2 DEF MineWas
    <3> QED BY <1>0, <2>1, <3>1, <3>2 DEF MineInTurn
  <2>3. CASE e[j] = 0
    <3>1. CidNew(d[j]) = -(asked + 1)
      BY <1>2, <1>3, <2>3 DEF CidNew
    <3>2. e[i] \in DOMAIN win[u]
      BY <1>0, <2>1 DEF Mine
    <3>3. Cid(w[e[i]]) \in Int /\ Cid(w[e[i]]) >= -asked
      BY <1>0, <3>2, CidRange
    <3> QED BY <1>2, <2>1, <3>1, <3>3
  <2> QED BY <2>2, <2>3
<1> QED BY <1>5, <1>6

\* A window that is not full was not cut.
LEMMA NotCut ==
  ASSUME NEW u, NEW d \in Seq(Told), full' = Filled(u, d), u \notin full'
  PROVE  Len(d) < MessageCap
<1>1. ~(Len(d) >= MessageCap)
  BY DEF Filled
<1>2. Len(d) \in Nat /\ MessageCap \in Nat
  BY MessageWindowAssumption
<1> QED BY <1>1, <1>2

\* An entry that waits stays, unless the message that is handled is its own.
LEMMA HandleStays ==
  ASSUME Types, Types', SocketsKnown, Cids, Faithful, OwnEntries, FeedNext, NEW u \in Users, Handle(u),
         NEW c \in Conns, c = conn[u], MineMeet(c), u \notin guessed', u \notin full',
         NEW k \in Ids(win[u]), k < 0,
         ~(1 \in At(c, "message") /\ down[c][1].message.cid = k)
  PROVE  k \in Ids(win'[u])
<1>1. PICK d, w, f : d = win'[u] /\ w = win[u] /\ f = down[c][1]
  OBVIOUS
<1>2. f \in Frames /\ Treats(d, w, f, u) /\ 1 \in DOMAIN down[c] /\ full' = Filled(u, win'[u])
  BY <1>1, HandleDoes
<1>3. w \in Seq(Told) /\ d \in Seq(Told) /\ k \in Ids(w) /\ k \in Int
  BY <1>1, TypesAt, WindowAfter DEF Ids
<1>4. Owner[c] = u
  BY FeedConstants, SocketOf
<1>5. Len(d) < MessageCap
  BY <1>1, <1>2, <1>3, NotCut
<1>6. CASE f.kind = "message"
  <2>1. PICK m : m = f.message
    OBVIOUS
  <2>2. /\ m \in Told /\ m.id \in DOMAIN rows /\ m.id > 0 /\ m.cid = rows[m.id].cid /\ m.user = rows[m.id].user
        /\ m.cid # 0
    BY <1>1, <1>2, <1>6, <2>1, ToldIds
  <2>3. Put(d, w, m) \/ Known(d, w, m) \/ Added(d, w, m)
    BY <1>2, <1>6, <2>1 DEF Treats
  <2>4. 1 \in At(c, "message") /\ down[c][1].message = m /\ m.cid # k
    BY <1>1, <1>2, <1>6, <2>1 DEF At
  <2>5. CASE Put(d, w, m)
    <3>1. m.user = u
      BY <1>1, <2>2, <2>5, PutMine
    <3>2. m.cid \in Ids(w)
      BY <1>1, <1>4, <2>4, <3>1 DEF MineMeet
    <3>3. ~Unasked(w, m)
      BY <2>2, <3>2 DEF Unasked, Ids
    <3>4. PICK b \in DOMAIN w : /\ \/ m.cid # 0 /\ w[b].id = m.cid
                                   \/ Unasked(w, m) /\ m.id >= 0 /\ w[b].id < 0 /\ w[b].user = m.user
                                /\ d = [w EXCEPT ![b] = m]
      BY <2>5 DEF Put
    <3>5. w[b].id = m.cid /\ DOMAIN d = DOMAIN w /\ \A i \in DOMAIN w : i # b => d[i] = w[i]
      BY <1>3, <3>3, <3>4
    <3>6. PICK i \in DOMAIN w : w[i].id = k
      BY <1>3 DEF Ids
    <3>7. i # b
      BY <2>4, <3>5, <3>6
    <3>8. k \in Ids(d)
      BY <3>5, <3>6, <3>7 DEF Ids
    <3> QED BY <1>1, <3>8
  <2>6. CASE Known(d, w, m)
    BY <1>1, <1>3, <2>6 DEF Known
  <2>7. CASE Added(d, w, m)
    BY <1>1, <1>3, <1>5, <2>7 DEF Added
  <2> QED BY <2>3, <2>5, <2>6, <2>7
<1>7. CASE f.kind = "edit"
  <2>1. d = w \/ d = EditMessageInPlace(w, f.id, f.text)
    BY <1>2, <1>7 DEF Treats
  <2>2. f.text \in TextOrNone
    BY <1>2, <1>7, FrameKinds
  <2>3. PICK id, t : id = f.id /\ t = f.text
    OBVIOUS
  <2>4. d = EditMessageInPlace(w, id, t) => Ids(d) = Ids(w)
    BY <1>3, <2>2, <2>3, EditWindow
  <2> QED BY <1>1, <1>3, <2>1, <2>3, <2>4
<1>8. CASE f.kind = "delete"
  <2>1. Ids(d) = Ids(w) \ {f.id}
    BY <1>2, <1>8 DEF Treats, Without
  <2>2. Says(c, f)
    BY <1>1, <1>2 DEF Faithful, FaithFrames
  <2>3. f.id \in Nat
    BY <1>8, <2>2, TypesAt DEF Says
  <2> QED BY <1>1, <1>3, <2>1, <2>3
<1>9. CASE f.kind = "history"
  <2>1. PICK cap \in Nat : cap >= MessageCap /\ PageMerged(d, w, f.messages, cap, {})
    BY <1>2, <1>9 DEF Treats
  <2>2. Len(d) < cap
    <3>1. Len(d) \in Nat /\ MessageCap \in Nat
      BY <1>3, MessageWindowAssumption
    <3> QED BY <1>5, <2>1, <3>1
  <2> QED BY <1>1, <1>3, <2>1, <2>2 DEF PageMerged
<1> QED BY <1>2, <1>6, <1>7, <1>8, <1>9, FrameKinds

\* The entry that an echo is to meet stays.
LEMMA EntryStays ==
  ASSUME Types, Types', SocketsKnown, Cids, Faithful, OwnEntries, FeedNext, NEW c \in Conns, Attached(c), MineMeet(c),
         Owner[c] \notin guessed', Owner[c] \notin full', NEW s, NEW n, Moves(c, s, n),
         NEW k \in Ids(win[Owner[c]]), k < 0,
         ~(s = 1 /\ 1 \in At(c, "message") /\ down[c][1].message.cid = k)
  PROVE  k \in Ids(win'[Owner[c]])
<1>1. PICK u \in Users : u = Owner[c] /\ c = conn[u]
  BY FeedConstants DEF Attached
<1>2. CASE Handle(u)
  <2>1. s = 1
    BY <1>1, <1>2 DEF Moves
  <2> QED BY <1>1, <1>2, <2>1, HandleStays
<1>3. ASSUME NEW t \in Texts, SendMessage(u, t)
      PROVE  k \in Ids(win'[Owner[c]])
  <2>1. PICK x, m : /\ m \in Told /\ x \in Int /\ x = -(asked + 1) /\ m.id = x /\ m.cid = x
                    /\ full' = Filled(u, win'[u])
                    /\ Put(win'[u], win[u], m) \/ Known(win'[u], win[u], m) \/ Added(win'[u], win[u], m)
    BY <1>3, SendAll
  <2>2. PICK d : d = win'[u]
    OBVIOUS
  <2>3. d \in Seq(Told)
    BY <2>2, WindowAfter
  <2>4. Added(d, win[u], m)
    BY <2>1, <2>2, <2>3, SendAdds
  <2>5. Len(d) < MessageCap
    BY <1>1, <2>1, <2>2, <2>3, NotCut
  <2> QED BY <1>1, <2>2, <2>4, <2>5 DEF Added
<1>4. CASE win'[u] = win[u]
  BY <1>1, <1>4
<1>5. \A b \in Conns : OpenSocket(u, b) => win' = win
  BY DEF OpenSocket
<1>6. LoseSocket(u) => win' = win
  BY DEF LoseSocket
<1> QED BY <1>2, <1>3, <1>4, <1>5, <1>6, PageChanges DEF PageChange

\* Echoes meet their entries.
LEMMA MineMeetStep ==
  ASSUME Types, Types', SocketsKnown, Cids, Faithful, OwnEntries, FeedNext, NEW c \in Conns, Attached(c),
         OnceDown, OnceFan, MineMeet(c), Owner[c] \notin lossy, Owner[c] \notin guessed', Owner[c] \notin full'
  PROVE  MineMeet(c)'
<1>0. PICK s, n : Moves(c, s, n)
  BY FrameMoves
<1>1. asked \in Nat /\ \A r \in DOMAIN rows : rows[r].cid \in (-asked)..0
  BY TypesAt DEF Cids
<1>2. ASSUME NEW p \in Asks(c, "message")'
      PROVE  up'[c][p].cid \in Ids(win'[Owner[c]])
  <2>1. PICK x, y : AsksMove(c, x, y)
    BY AskMoves
  <2>2. p # 0
    <3>1. up'[c] \in Seq(Requests)
      BY DEF Types
    <3> QED BY <3>1, EmptyAt DEF Asks
  <2>3. CASE p = y
    BY <2>1, <2>2, <2>3 DEF AsksMove
  <2>4. CASE p # y
    <3>1. p + x \in Asks(c, "message") /\ up'[c][p] = up[c][p + x]
      BY <2>1, <2>4 DEF AsksMove
    <3>2. PICK k : k = up[c][p + x].cid
      OBVIOUS
    <3>3. k \in Ids(win[Owner[c]]) /\ k \in (-asked)..(-1) /\ \A i \in DOMAIN rows : rows[i].cid # k
      BY <3>1, <3>2 DEF MineMeet, Cids
    <3>4. ~(1 \in At(c, "message") /\ down[c][1].message.cid = k)
      BY <3>3, ToldRow
    <3>5. k < 0
      BY <1>1, <3>3
    <3>6. k \in Ids(win'[Owner[c]])
      BY <1>0, <3>3, <3>4, <3>5, EntryStays
    <3> QED BY <3>1, <3>2, <3>6
  <2> QED BY <2>3, <2>4
<1>3. ASSUME NEW k \in Ids(win[Owner[c]]), NEW r \in DOMAIN rows, rows[r].cid = k, k # 0,
             s = 1 => \A q \in At(c, "message") : q = 1 => down[c][q].message.id # r
      PROVE  k \in Ids(win'[Owner[c]])
  <2>1. k < 0
    BY <1>1, <1>3
  <2>2. ~(s = 1 /\ 1 \in At(c, "message") /\ down[c][1].message.cid = k)
    <3> SUFFICES ASSUME s = 1, 1 \in At(c, "message"), down[c][1].message.cid = k
                 PROVE  FALSE
      OBVIOUS
    <3>1. PICK x : x = down[c][1].message.id
      OBVIOUS
    <3>2. x \in DOMAIN rows /\ rows[x].cid = k
      BY <3>1, ToldRow
    <3>3. x = r
      BY <1>3, <3>2 DEF Cids
    <3> QED BY <1>3, <3>1, <3>3
  <2> QED BY <1>0, <1>3, <2>1, <2>2, EntryStays
<1>4. \A d \in Conns : Fans(d, "message") => job[d].frame.message.cid # 0
  BY DEF Faithful, FaithJobs, Says, Fans
<1>5. ASSUME Fans(c, "message")'
      PROVE  job'[c].frame.message.cid \in Ids(win'[Owner[c]])
  <2>1. CASE Fans(c, "message") /\ job'[c] = job[c]
    <3>1. PICK k, r : k = job[c].frame.message.cid /\ r = job[c].frame.message.id
      OBVIOUS
    <3>2. r \in DOMAIN rows /\ rows[r].cid = k /\ k # 0
      BY <1>4, <2>1, <3>1, ToldRow
    <3>3. k \in Ids(win[Owner[c]])
      BY <2>1, <3>1 DEF MineMeet
    <3>4. \A q \in At(c, "message") : down[c][q].message.id # r
      BY <2>1, <3>1 DEF OnceFan
    <3>5. k \in Ids(win'[Owner[c]])
      BY <1>3, <3>2, <3>3, <3>4
    <3> QED BY <2>1, <3>1, <3>5
  <2>2. CASE HandleChatMessage(c)
    <3>1. PICK x : x = Len(rows) + 1
      OBVIOUS
    <3>2. job'[c].frame.message.cid = up[c][1].cid /\ up[c][1].kind = "message" /\ 1 \in DOMAIN up[c]
      BY <2>2, <3>1, ChatFans
    <3>3. win' = win
      BY <2>2, StoreKeeps
    <3>4. 1 \in Asks(c, "message")
      BY <3>2 DEF Asks
    <3> QED BY <3>2, <3>3, <3>4 DEF MineMeet
  <2> QED BY <1>5, <2>1, <2>2, FansMessage
<1>6. ASSUME NEW p \in At(c, "message")', down'[c][p].message.user = Owner[c]
      PROVE  down'[c][p].message.cid \in Ids(win'[Owner[c]])
  <2>1. PICK k, r : k = down'[c][p].message.cid /\ r = down'[c][p].message.id
    OBVIOUS
  <2>2. p \in Nat /\ p # 0 /\ s \in {0, 1}
    BY <1>0 DEF Moves, At
  <2>3. CASE p # n
    <3>1. p + s \in At(c, "message") /\ down'[c][p] = down[c][p + s]
      BY <1>0, <2>3, FrameWas
    <3>2. r \in DOMAIN rows /\ rows[r].cid = k
      BY <2>1, <3>1, ToldRow
    <3>3. k # 0
      BY <2>1, <3>1 DEF Faithful, FaithFrames, Says, At
    <3>4. k \in Ids(win[Owner[c]])
      BY <1>6, <2>1, <3>1 DEF MineMeet
    <3>5. ASSUME s = 1, NEW q \in At(c, "message"), q = 1
          PROVE  down[c][q].message.id # r
      <4>1. p + s # 1
        BY <2>2, <3>5
      <4> QED BY <2>1, <3>1, <3>5, <4>1 DEF OnceDown
    <3>6. k \in Ids(win'[Owner[c]])
      BY <1>3, <3>2, <3>3, <3>4, <3>5
    <3> QED BY <2>1, <3>6
  <2>4. CASE p = n
    <3>1. Arrives(c, down'[c][p]) /\ down'[c][p].kind = "message" /\ s = 0
      BY <1>0, <2>4, FrameNew
    <3>2. PICK d \in Conns : down'[c][p] = job[d].frame /\ Fans(d, "message")
      BY <3>1, MessageArrives
    <3>3. Owner[d] = Owner[c] /\ r \in DOMAIN rows /\ rows[r].cid = k /\ k # 0
      BY <1>4, <1>6, <2>1, <3>2, ToldRow
    <3>4. d = c
      <4>1. job[d] # Idle
        BY <3>2, IdleFans
      <4>2. Attached(d)
        BY <3>3, <4>1, SocketUsed
      <4> QED BY <3>3, <4>2 DEF Attached
    <3>5. k \in Ids(win[Owner[c]])
      BY <2>1, <3>2, <3>4 DEF MineMeet
    <3>6. k \in Ids(win'[Owner[c]])
      BY <1>3, <3>1, <3>3, <3>5
    <3> QED BY <2>1, <3>6
  <2> QED BY <2>3, <2>4
<1> QED BY <1>2, <1>5, <1>6 DEF MineMeet

\* Of a connection that was just opened, there is nothing.
LEMMA FreshOrder ==
  ASSUME Types, NEW c \in Conns, OpenSocket(Owner[c], c), win'[Owner[c]] = <<>>, down'[c] = <<>>, job'[c] = Idle
  PROVE  OthersInTurn(c)' /\ MineInTurn(c)' /\ MineMeet(c)'
<1>1. Others(c)' = {} /\ Mine(c)' = {}
  BY DEF Others, Mine
<1>2. \A kind : At(c, kind)' = {}
  BY DEF At
<1>3. ~Fans(c, "message")'
  BY DEF Fans, Idle
<1>4. Asks(c, "message")' = {}
  <2>1. up'[c] = <<[kind |-> "join"]>>
    BY FeedConstants, OpenDoes
  <2>2. \A p \in DOMAIN up'[c] : up'[c][p].kind # "message"
    BY <2>1
  <2> QED BY <2>2 DEF Asks
<1>5. OthersInTurn(c)'
  BY <1>1 DEF OthersInTurn
<1>6. MineInTurn(c)'
  BY <1>1 DEF MineInTurn
<1>7. MineMeet(c)'
  BY <1>2, <1>3, <1>4 DEF MineMeet
<1> QED BY <1>5, <1>6, <1>7

\* WindowOrder is inductive.
LEMMA OrderStep ==
  ASSUME Types, SocketsKnown, Cids, Faithful, OwnEntries, Once, InTurn, WindowOrder, FeedNext
  PROVE  WindowOrder'
<1> SUFFICES ASSUME NEW c \in Conns, Attached(c)', Owner[c] \notin lossy'
             PROVE  /\ OthersInTurn(c)'
                    /\ Owner[c] \notin guessed' \cup full' => MineInTurn(c)' /\ MineMeet(c)'
  BY DEF WindowOrder
<1>1. Types'
  BY TypesStep
<1>2. CASE Attached(c)
  <2>1. Owner[c] \notin lossy
    BY LossyGrows
  <2>2. OthersInTurn(c) /\ OnceSeen(c) /\ OnceDown /\ OnceFan /\ FansInTurn /\ DownInTurn
    BY <1>2, <2>1 DEF WindowOrder, Once, InTurn
  <2>3. OthersInTurn(c)'
    BY <1>1, <1>2, <2>2, OthersInTurnStep
  <2>4. ASSUME Owner[c] \notin guessed', Owner[c] \notin full'
        PROVE  MineInTurn(c)' /\ MineMeet(c)'
    <3>1. Owner[c] \notin guessed /\ Owner[c] \notin full
      BY <1>2, <2>4, GuessedGrows, FullSteps
    <3>2. MineInTurn(c) /\ MineMeet(c)
      BY <1>2, <2>1, <3>1 DEF WindowOrder
    <3> QED BY <1>1, <1>2, <2>1, <2>2, <2>4, <3>2, MineInTurnStep, MineMeetStep
  <2> QED BY <2>3, <2>4
<1>3. CASE OpenSocket(Owner[c], c) /\ win'[Owner[c]] = <<>> /\ down'[c] = <<>> /\ job'[c] = Idle
  BY <1>3, FreshOrder
<1> QED BY <1>2, <1>3, KeptOrFresh

\* The order of the entries is that of the rows.
LEMMA AuthorOrderHolds ==
  ASSUME Types, SocketsKnown, Cids, Faithful, InTurn, WindowOrder
  PROVE  AuthorOrder
<1> SUFFICES ASSUME NEW u \in Users, u \notin lossy, u \notin guessed, u \notin full, Settled(u),
                    NEW i \in DOMAIN win[u], NEW j \in DOMAIN win[u],
                    win[u][i].id \in Live(u), win[u][j].id \in Live(u),
                    win[u][i].user = win[u][j].user, win[u][i].user \notin lossy, i < j
             PROVE  win[u][i].id < win[u][j].id
  BY DEF AuthorOrder
<1>1. PICK c : c = conn[u]
  OBVIOUS
<1>2. c \in Conns /\ Owner[c] = u /\ Attached(c)
  BY <1>1, SocketOf DEF Settled
<1>3. PICK x, y : x = win[u][i].id /\ y = win[u][j].id
  OBVIOUS
<1>4. x \in DOMAIN rows /\ y \in DOMAIN rows /\ x \notin had[c] /\ y \notin had[c]
  BY <1>1, <1>3 DEF Live
<1>5. x \in Nat /\ y \in Nat /\ x > 0 /\ y > 0
  BY SMTT(40), <1>4, TypesAt
<1>6. CASE win[u][i].user # u
  <2>1. i \in Others(c) /\ j \in Others(c)
    BY <1>2, <1>3, <1>4, <1>6 DEF Others, Live1
  <2>2. OthersInTurn(c)
    BY <1>2 DEF WindowOrder
  <2> QED BY <1>2, <2>1, <2>2 DEF OthersInTurn
<1>7. CASE win[u][i].user = u
  <2>1. i \in Mine(c) /\ j \in Mine(c)
    BY <1>2, <1>3, <1>4, <1>7 DEF Mine, Live1
  <2>2. MineInTurn(c)
    BY <1>2 DEF WindowOrder
  <2>3. Cid(win[u][i]) # 0 /\ Cid(win[u][j]) < Cid(win[u][i])
    BY <1>2, <1>3, <1>5, <2>1, <2>2 DEF MineInTurn
  <2>4. Cid(win[u][i]) = rows[x].cid /\ Cid(win[u][j]) = rows[y].cid /\ rows[x].cid \in Int /\ rows[y].cid \in Int
    BY <1>3, <1>4, <1>5, TypesAt DEF Cid
  <2>5. rows[x].user = u /\ rows[y].user = u
    <3>1. Shows(u, win[u][i]) /\ Shows(u, win[u][j])
      BY DEF Faithful, FaithWindows
    <3>2. x >= 0 /\ y >= 0
      BY <1>5
    <3> QED BY <1>3, <1>7, <3>1, <3>2 DEF Shows, IsRow
  <2>6. y < x => rows[x].cid < rows[y].cid
    BY <1>4, <2>3, <2>4, <2>5 DEF InTurn, RowsInTurn
  <2>7. x # y
    BY <2>3, <2>4
  <2> QED BY <1>3, <1>5, <2>3, <2>4, <2>6, <2>7
<1> QED BY <1>6, <1>7


-----------------------------------------------------------------------------
(***************************************************************************)
(* The start                                                               *)
(***************************************************************************)

\* What is true at the start, when there is nothing but the rows that were stored.
LEMMA StartIs ==
  ASSUME FeedInit
  PROVE  /\ DOMAIN rows = DOMAIN Stored /\ \A i \in DOMAIN rows : rows[i].cid = 0
         /\ Len(rows) = Len(Stored) /\ Len(Stored) \in Nat /\ DOMAIN Stored = 1..Len(Stored)
         /\ room = {} /\ registerQ = <<>> /\ broadcastQ = <<>>
         /\ \A c \in Conns : /\ job[c] = Idle /\ up[c] = <<>> /\ down[c] = <<>> /\ had[c] = {}
                             /\ read[c] = 0 /\ entered[c] = 0 /\ ~Attached(c)
                             /\ \A kind : Asks(c, kind) = {} /\ At(c, kind) = {} /\ ~Fans(c, kind)
         /\ \A u \in Users : conn[u] = None /\ win[u] = <<>> /\ ~joined[u]
         /\ used = {} /\ lossy = {} /\ full = {} /\ asked = 0
         /\ job = [c \in Conns |-> Idle]
<1>1. /\ DOMAIN rows = DOMAIN Stored /\ \A i \in DOMAIN rows : rows[i].cid = 0
  BY DEF FeedInit
<1>2. /\ room = {} /\ registerQ = <<>> /\ broadcastQ = <<>>
      /\ used = {} /\ lossy = {} /\ full = {} /\ asked = 0
  BY DEF FeedInit
<1>3. ASSUME NEW c \in Conns
      PROVE  /\ job[c] = Idle /\ up[c] = <<>> /\ down[c] = <<>> /\ had[c] = {} /\ read[c] = 0 /\ entered[c] = 0
             /\ conn[Owner[c]] = None
  BY FeedConstants DEF FeedInit
<1>4. ASSUME NEW u \in Users
      PROVE  conn[u] = None /\ win[u] = <<>> /\ ~joined[u]
  BY DEF FeedInit
<1>5. ASSUME NEW c \in Conns
      PROVE  /\ ~Attached(c)
             /\ \A kind : Asks(c, kind) = {} /\ At(c, kind) = {} /\ ~Fans(c, kind)
  <2>1. ~Attached(c)
    BY <1>3, FeedConstants DEF Attached
  <2>2. \A kind : Asks(c, kind) = {} /\ At(c, kind) = {} /\ ~Fans(c, kind)
    BY <1>3 DEF Asks, At, Fans, Idle
  <2> QED BY <2>1, <2>2
<1>6. rows \in Seq(RowType) /\ Len(Stored) \in Nat /\ DOMAIN Stored = 1..Len(Stored)
  BY TypesInit, FeedConstants DEF Types
<1>7. Len(rows) = Len(Stored)
  <2>1. Len(rows) \in Nat /\ DOMAIN rows = 1..Len(rows)
    BY <1>6
  <2> QED BY <1>1, <1>6, <2>1
<1>8. job = [c \in Conns |-> Idle]
  BY DEF FeedInit
<1> QED BY <1>1, <1>2, <1>3, <1>4, <1>5, <1>6, <1>7, <1>8

\* There are no sockets at the start.
LEMMA SocketsInit ==
  ASSUME FeedInit
  PROVE  SocketsKnown /\ Joins
<1>1. \A c : c \notin ToSet(registerQ)
  BY StartIs DEF ToSet
<1>2. DOMAIN registerQ = {}
  BY StartIs
<1>3. SocketsKnown
  BY <1>1, StartIs, FeedConstants DEF SocketsKnown
<1>4. Joins
  BY <1>1, <1>2, StartIs DEF Joins, Joining
<1> QED BY <1>3, <1>4

\* Nothing has been said at the start.
LEMMA FaithInit ==
  ASSUME FeedInit
  PROVE  Cids /\ Faithful
<1>1. \A c \in Conns : \A p \in DOMAIN down[c] : FALSE
  BY StartIs
<1>2. \A u \in Users : \A i \in DOMAIN win[u] : FALSE
  BY StartIs
<1>3. \A c \in Conns : job[c].at = "idle"
  BY StartIs DEF Idle
<1>4. Cids
  <2>1. \A i \in DOMAIN rows : rows[i].cid \in (-asked)..0 /\ (rows[i].cid = 0 <=> i <= Len(Stored))
    BY StartIs
  <2>2. Len(Stored) <= Len(rows)
    BY StartIs
  <2>3. \A i, j \in DOMAIN rows : rows[i].cid # 0 /\ rows[i].cid = rows[j].cid => i = j
    BY StartIs
  <2>4. \A c \in Conns : Asks(c, "message") = {}
    BY StartIs
  <2> QED BY <2>1, <2>2, <2>3, <2>4 DEF Cids
<1>5. FaithCounts
  BY StartIs DEF FaithCounts
<1>6. FaithWindows /\ FaithFrames
  BY <1>1, <1>2 DEF FaithWindows, FaithFrames
<1>7. FaithJobs
  BY <1>3, StartIs DEF FaithJobs
<1>8. FaithQueue
  <2>1. DOMAIN broadcastQ = {}
    BY StartIs
  <2> QED BY <2>1 DEF FaithQueue
<1>9. FaithRequests
  BY StartIs DEF FaithRequests
<1> QED BY <1>4, <1>5, <1>6, <1>7, <1>8, <1>9 DEF Faithful

\* Nothing is on its way at the start.
LEMMA OrderInit ==
  ASSUME FeedInit
  PROVE  OwnEntries /\ Optimists /\ Once /\ InTurn /\ WindowOrder /\ Coming
<1>1. \A u \in Users : DOMAIN win[u] = {}
  BY StartIs
<1>2. OwnEntries
  BY <1>1 DEF OwnEntries, OwnOnce, OwnRows, OwnAsks
<1>3. Optimists /\ Coming
  BY StartIs DEF Optimists, Coming
<1>4. OnceDown /\ OnceFan
  BY StartIs DEF OnceDown, OnceFan
<1>5. NoTwice
  BY <1>1 DEF NoTwice
<1>6. Once
  BY <1>4, <1>5, StartIs DEF Once
<1>7. RowsInTurn
  BY StartIs DEF RowsInTurn
<1>8. AsksInTurn
  BY StartIs DEF AsksInTurn
<1>9. FansInTurn
  BY StartIs DEF FansInTurn
<1>10. DownInTurn
  BY StartIs DEF DownInTurn
<1>11. WindowOrder
  BY StartIs DEF WindowOrder
<1> QED BY <1>2, <1>3, <1>6, <1>7, <1>8, <1>9, <1>10, <1>11 DEF InTurn

-----------------------------------------------------------------------------

\* The ids of the rows are in the bounds of the model.
LEMMA RowsTyped ==
  ASSUME Types, Cids
  PROVE  /\ rows \in Seq([cid : (-MaxAsked)..0, user : Users, text : Texts \cup Edits, gone : BOOLEAN])
         /\ Len(rows) \in 0..MaxId /\ DOMAIN rows \subseteq 1..MaxId
<1>1. asked \in Nat /\ asked <= MaxAsked /\ MaxAsked \in Nat /\ Len(rows) \in Nat /\ Len(rows) <= MaxId /\ MaxId \in Nat
      /\ DOMAIN rows = 1..Len(rows)
  BY TypesAt, RowsBound, FeedConstants
<1>2. ASSUME NEW i \in DOMAIN rows
      PROVE  rows[i] \in [cid : (-MaxAsked)..0, user : Users, text : Texts \cup Edits, gone : BOOLEAN]
  <2>1. rows[i] \in RowType
    BY TypesAt
  <2>2. rows[i].cid \in (-asked)..0
    BY DEF Cids
  <2>3. rows[i].cid \in (-MaxAsked)..0
    BY <1>1, <2>2
  <2> QED BY <2>1, <2>3 DEF RowType
<1> DEFINE R == [cid : (-MaxAsked)..0, user : Users, text : Texts \cup Edits, gone : BOOLEAN]
<1>3. rows \in Seq(RowType) /\ \A i \in DOMAIN rows : rows[i] \in R
  BY <1>2, TypesAt
<1> HIDE DEF R
<1>4. rows \in Seq(R)
  <2>1. PICK n \in Nat : rows \in [1..n -> RowType]
    BY <1>3
  <2>2. rows \in [1..n -> R]
    BY <1>3, <2>1
  <2> QED BY <2>2
<1>5. DOMAIN rows \subseteq 1..MaxId /\ Len(rows) \in 0..MaxId
  BY <1>1
<1> QED BY <1>4, <1>5 DEF R

\* So are the entries of the windows.
LEMMA WinTyped ==
  ASSUME Types, Cids, Faithful, NEW u \in Users
  PROVE  win[u] \in Seq(Messages)
<1>1. asked \in Nat /\ asked <= MaxAsked /\ MaxAsked \in Nat /\ Len(rows) \in Nat /\ Len(rows) <= MaxId /\ MaxId \in Nat
      /\ DOMAIN rows = 1..Len(rows)
  BY TypesAt, RowsBound, FeedConstants
<1>2. ASSUME NEW i \in DOMAIN win[u]
      PROVE  win[u][i] \in Messages
  <2>1. PICK m : m = win[u][i]
    OBVIOUS
  <2>2. m \in Told /\ m.id \in Int
    BY <2>1, TypesAt
  <2>3. Shows(u, m)
    BY <2>1 DEF Faithful, FaithWindows
  <2>4. m.cid \in (-MaxAsked)..0
    <3>1. m.cid \in (-asked)..0
      BY <2>3 DEF Shows
    <3> QED BY <1>1, <3>1
  <2>5. m.id \in (-MaxAsked)..MaxId
    <3>1. m.id < 0 => m.id >= -asked
      BY <2>3 DEF Shows
    <3>2. m.id >= 0 => m.id \in 1..Len(rows)
      BY <1>1, <2>3 DEF Shows, IsRow
    <3> QED BY <1>1, <2>2, <3>1, <3>2
  <2>6. m.user \in Users /\ m.text \in TextOrNone /\ m = [id |-> m.id, cid |-> m.cid, user |-> m.user, text |-> m.text]
    BY <2>2 DEF Told
  <2> QED BY <2>1, <2>4, <2>5, <2>6 DEF Messages, TextOrNone
<1>3. win[u] \in Seq(Told)
  BY TypesAt
<1>4. \E n \in Nat : win[u] \in [1..n -> Messages]
  BY <1>2, <1>3
<1> QED BY <1>3, <1>4

\* The invariant implies the types.
LEMMA TypeOKHolds ==
  ASSUME Types, Cids, Faithful
  PROVE  FeedTypeOK
<1>1. rows \in Seq([cid : (-MaxAsked)..0, user : Users, text : Texts \cup Edits, gone : BOOLEAN])
  BY RowsTyped
<1>2. \A c \in Conns : job[c].at \in {"idle", "greeting", "answering", "fanning", "publishing"}
  BY TypesAt, JobKinds
<1>3. win \in [Users -> Seq(Messages)]
  <2>1. win \in [Users -> Seq(Told)]
    BY DEF Types
  <2> QED BY <2>1, WinTyped
<1>4. read \in [Conns -> 0..MaxId] /\ entered \in [Conns -> 0..MaxId]
  <2>1. Len(rows) \in 0..MaxId /\ MaxId \in Nat
    BY RowsTyped, FeedConstants
  <2>2. \A c \in Conns : read[c] <= Len(rows) /\ entered[c] <= Len(rows)
    BY DEF Faithful, FaithCounts
  <2>3. read \in [Conns -> Nat] /\ entered \in [Conns -> Nat]
    BY DEF Types
  <2> QED BY <2>1, <2>2, <2>3
<1>5. had \in [Conns -> SUBSET (1..MaxId)]
  <2>1. \A c \in Conns : had[c] \subseteq 1..MaxId
    BY RowsTyped DEF Faithful, FaithCounts
  <2>2. had \in [Conns -> SUBSET Int]
    BY DEF Types
  <2> QED BY <2>1, <2>2
<1>6. /\ room \subseteq Conns /\ registerQ \in Seq(Conns) /\ Len(broadcastQ) <= ChanCap
      /\ conn \in [Users -> Conns \cup {None}] /\ used \subseteq Conns
      /\ joined \in [Users -> BOOLEAN] /\ loaded \in [Users -> BOOLEAN]
      /\ asked \in 0..MaxAsked
      /\ full \subseteq Users /\ guessed \subseteq Users /\ lossy \subseteq Users
  BY DEF Types
<1> QED BY <1>1, <1>2, <1>3, <1>4, <1>5, <1>6 DEF FeedTypeOK

\* A window has no message twice, nor an author's in another order.
LEMMA WindowHolds ==
  ASSUME Types, SocketsKnown, Cids, Faithful, Once, InTurn, WindowOrder
  PROVE  WindowInv
<1>1. NoTwice
  BY DEF Once
<1> QED BY <1>1, TypeOKHolds, AuthorOrderHolds DEF WindowInv


-----------------------------------------------------------------------------
(***************************************************************************)
(* Texts                                                                   *)
(***************************************************************************)

\* Only its author's goroutine tells the text of a row.
LEMMA TellsOwn ==
  ASSUME Types, Faithful, NEW d \in Conns, job[d].at = "fanning", NEW id, Tells(job[d].frame, id)
  PROVE  id \in DOMAIN rows /\ rows[id].user = Owner[d] /\ job[d] # Idle
<1>1. job[d] # Idle
  BY DEF Idle
<1>2. CASE Fans(d, "message") /\ job[d].frame.message.id = id
  BY <1>1, <1>2, ToldRow
<1>3. CASE Fans(d, "edit") /\ job[d].frame.id = id
  BY <1>1, <1>3 DEF Faithful, FaithJobs
<1> QED BY <1>2, <1>3 DEF Tells, Fans

\* A row that is heard was heard, or was just stored.
LEMMA HeardSteps ==
  ASSUME Types, SocketsKnown, Faithful, FeedNext, NEW c \in Conns, NEW id, Heard(c, id)'
  PROVE  \/ Heard(c, id)
         \/ id \notin DOMAIN rows /\ \E d \in Conns : HandleChatMessage(d) /\ id = Len(rows) + 1
<1>1. /\ c \in room' /\ Owner[c] \notin lossy' /\ id \in DOMAIN rows' /\ entered'[c] < id
      /\ id \notin had'[c] /\ rows'[id].user \notin lossy'
  BY DEF Heard
<1>2. CASE id \notin DOMAIN rows
  BY <1>1, <1>2, NewestSteps
<1>3. CASE id \in DOMAIN rows
  <2>1. Owner[c] \notin lossy /\ id \notin had[c] /\ rows[id].user \notin lossy
    BY <1>1, <1>3, LossyGrows, CountSteps, RowsKeep
  <2>2. c \in room /\ entered'[c] = entered[c]
    <3>1. ASSUME HubRegister
          PROVE  c \in room /\ entered'[c] = entered[c]
      <4>1. PICK b : b = Head(registerQ)
        OBVIOUS
      <4>2. /\ b \in Conns
            /\ \A d : d \in room' <=> (d \in room /\ Owner[d] # Owner[b]) \/ (d = b /\ Attached(b))
            /\ entered'[b] = Len(rows) /\ \A d \in Conns : d # b => entered'[d] = entered[d]
        BY <3>1, <4>1, RegisterDoes
      <4>3. c # b
        <5>1. id <= Len(rows) /\ id \in Nat /\ Len(rows) \in Nat
          BY <1>3, TypesAt
        <5> QED BY <1>1, <4>2, <5>1
      <4> QED BY <1>1, <4>2, <4>3
    <3>2. ASSUME room' \subseteq room, entered' = entered
          PROVE  c \in room /\ entered'[c] = entered[c]
      BY <1>1, <3>2
    <3> QED BY <3>1, <3>2, RoomSteps
  <2> QED BY <1>1, <1>3, <2>1, <2>2 DEF Heard
<1> QED BY <1>2, <1>3

\* Only an edit changes a text, and only its author's goroutine edits a row.
LEMMA TextSteps ==
  ASSUME Types, Faithful, FeedNext, NEW id \in DOMAIN rows
  PROVE  \/ rows'[id].text = rows[id].text
         \/ \E b \in Conns : HandleMessageEdit(b) /\ up[b][1].id = id
<1>1. CASE rows' = rows
  BY <1>1
<1>2. ASSUME NEW b \in Conns, HandleChatMessage(b)
      PROVE  rows'[id].text = rows[id].text
  <2>1. PICK n : n = Len(rows) + 1
    OBVIOUS
  <2> QED BY <1>2, <2>1, ChatFans
<1>3. ASSUME NEW b \in Conns, HandleMessageEdit(b)
      PROVE  rows'[id].text = rows[id].text \/ up[b][1].id = id
  BY <1>3, EditDoes
<1>4. ASSUME NEW b \in Conns, HandleMessageDelete(b)
      PROVE  rows'[id].text = rows[id].text
  BY <1>4, DeletionDoes
<1>5. ASSUME NEW u \in Users
      PROVE  /\ \A b \in Conns : OpenSocket(u, b) => rows' = rows
             /\ LoseSocket(u) => rows' = rows
             /\ \A t \in Texts : SendMessage(u, t) => rows' = rows
             /\ \A r \in Requests : AskAbout(u, r) => rows' = rows
             /\ Handle(u) => rows' = rows
  BY DEF OpenSocket, LoseSocket, SendMessage, AskAbout, Handle, server
<1>6. ASSUME NEW b \in Conns
      PROVE  HandleJoin(b) \/ ReadHistory(b) \/ HandleLoadHistory(b) \/ Answer(b)
             \/ Refuse(b) \/ BroadcastToRoom(b) \/ Publish(b) => rows' = rows
  BY DEF HandleJoin, ReadHistory, HandleLoadHistory, Answer, Refuse, BroadcastToRoom, Publish
<1>7. HubRegister \/ HubBroadcast => rows' = rows
  BY DEF HubRegister, HubBroadcast
<1> QED BY <1>1, <1>2, <1>3, <1>4, <1>5, <1>6, <1>7, FeedSteps

\* Only a deletion deletes.
LEMMA GoneSteps ==
  ASSUME Types, Faithful, FeedNext, NEW id \in DOMAIN rows
  PROVE  \/ rows'[id].gone = rows[id].gone
         \/ \E b \in Conns : HandleMessageDelete(b) /\ up[b][1].id = id
<1>1. CASE rows' = rows
  BY <1>1
<1>2. ASSUME NEW b \in Conns, HandleChatMessage(b)
      PROVE  rows'[id].gone = rows[id].gone
  <2>1. PICK n : n = Len(rows) + 1
    OBVIOUS
  <2>2. rows'[id] = rows[id]
    BY <1>2, <2>1, ChatFans
  <2> QED BY <2>2
<1>3. ASSUME NEW b \in Conns, HandleMessageEdit(b)
      PROVE  rows'[id].gone = rows[id].gone
  BY <1>3, EditDoes
<1>4. ASSUME NEW b \in Conns, HandleMessageDelete(b)
      PROVE  rows'[id].gone = rows[id].gone \/ up[b][1].id = id
  BY <1>4, DeletionDoes
<1>5. ASSUME NEW u \in Users
      PROVE  /\ \A b \in Conns : OpenSocket(u, b) => rows' = rows
             /\ LoseSocket(u) => rows' = rows
             /\ \A t \in Texts : SendMessage(u, t) => rows' = rows
             /\ \A r \in Requests : AskAbout(u, r) => rows' = rows
             /\ Handle(u) => rows' = rows
  BY DEF OpenSocket, LoseSocket, SendMessage, AskAbout, Handle, server
<1>6. ASSUME NEW b \in Conns
      PROVE  HandleJoin(b) \/ ReadHistory(b) \/ HandleLoadHistory(b) \/ Answer(b)
             \/ Refuse(b) \/ BroadcastToRoom(b) \/ Publish(b) => rows' = rows
  BY DEF HandleJoin, ReadHistory, HandleLoadHistory, Answer, Refuse, BroadcastToRoom, Publish
<1>7. HubRegister \/ HubBroadcast => rows' = rows
  BY DEF HubRegister, HubBroadcast
<1> QED BY <1>1, <1>2, <1>3, <1>4, <1>5, <1>6, <1>7, FeedSteps

\* Frames of a page that keeps its connection stay, but the one it handles.
LEMMA FrameStays ==
  ASSUME Types, SocketsKnown, Faithful, FeedNext, NEW c \in Conns, Attached(c), Attached(c)', NEW s, NEW n, Moves(c, s, n),
         NEW p \in DOMAIN down[c], p # s
  PROVE  p - s \in DOMAIN down'[c] /\ down'[c][p - s] = down[c][p] /\ p \in Nat /\ p - s \in Nat
<1>1. p \in Nat /\ s \in {0, 1} /\ p # 0
  <2>1. down[c] \in Seq(Frames)
    BY TypesAt
  <2> QED BY <2>1, EmptyAt DEF Moves
<1>2. CASE s = 1
  <2>1. PICK u \in Users : Handle(u) /\ c = conn[u]
    BY <1>2 DEF Moves
  <2>2. PICK f : f = down[c][1]
    OBVIOUS
  <2>3. down[c] # <<>> /\ down'[c] = Tail(down[c])
    BY <2>1, <2>2, HandleDoes
  <2>4. p - 1 \in DOMAIN down'[c] /\ down'[c][p - 1] = down[c][p]
    BY <1>2, <2>3, DownShrinks
  <2> QED BY <1>1, <1>2, <2>4
<1>3. CASE s = 0
  <2>1. ~\E u \in Users : Handle(u) /\ c = conn[u]
    BY <1>3 DEF Moves
  <2>2. ~\E u \in Users : LoseSocket(u) /\ c = conn[u]
    <3> SUFFICES ASSUME NEW u \in Users, LoseSocket(u), c = conn[u]
                 PROVE  FALSE
      OBVIOUS
    <3>1. conn'[u] = None
      BY LoseDoes
    <3>2. conn[u] # None
      BY DEF LoseSocket
    <3>3. Owner[c] = u
      BY <3>2 DEF SocketsKnown
    <3> QED BY <3>1, <3>3, FeedConstants DEF Attached
  <2>3. down'[c] = down[c] \/ \E f \in Frames : down'[c] = Append(down[c], f)
    BY <2>1, <2>2, DownChanges DEF DownChange
  <2>4. p \in DOMAIN down'[c] /\ down'[c][p] = down[c][p]
    <3>1. CASE down'[c] = down[c]
      BY <3>1
    <3>2. ASSUME NEW f \in Frames, down'[c] = Append(down[c], f)
          PROVE  p \in DOMAIN down'[c] /\ down'[c][p] = down[c][p]
      <4>1. down[c] \in Seq(Frames)
        BY TypesAt
      <4> QED BY <3>2, <4>1, AppendAt
    <3> QED BY <2>3, <3>1, <3>2
  <2> QED BY <1>1, <1>3, <2>4
<1> QED BY <1>1, <1>2, <1>3

\* Where the text of an entry is from once the page has handled a frame.
LEMMA TreatsText ==
  ASSUME NEW w \in Seq(Told), NEW f \in Frames, NEW u, NEW d, Treats(d, w, f, u), NEW i \in DOMAIN d
  PROVE  \/ \E j \in DOMAIN w :
              /\ d[i].id = w[j].id /\ d[i].text = w[j].text
              /\ f.kind = "edit" => ~Tells(f, w[j].id)
              /\ f.kind = "delete" => f.id # w[j].id
         \/ Tells(f, d[i].id) /\ d[i].text = TextOf(f)
         \/ f.kind = "history" /\ \E q \in DOMAIN f.messages : d[i] = f.messages[q]
<1> DEFINE Old == \E j \in DOMAIN w :
              /\ d[i].id = w[j].id /\ d[i].text = w[j].text
              /\ f.kind = "edit" => ~Tells(f, w[j].id)
              /\ f.kind = "delete" => f.id # w[j].id
<1>0. d \in Seq(Told)
  BY DEF Treats
<1>1. CASE f.kind = "message"
  <2>1. PICK e : Alike(d, w, e) /\ \A k \in DOMAIN d : e[k] = 0 => d[k] = f.message
    <3>1. f.message \in Told
      BY <1>1, FrameKinds
    <3> QED BY <1>0, <1>1, <3>1, LiveOrigin DEF Treats
  <2>2. CASE d[i] = f.message
    BY <1>1, <2>2 DEF Tells, TextOf
  <2>3. CASE d[i] # f.message
    <3>1. \E j \in DOMAIN w : d[i] = w[j]
      <4>1. CASE \E k \in DOMAIN w : d = [w EXCEPT ![k] = f.message]
        BY <2>3, <4>1
      <4>2. CASE d = w
        BY <4>2
      <4>3. CASE Added(d, w, f.message)
        <5>1. PICK g : From(d, w, g) /\ \A k \in DOMAIN d : g[k] = 0 <=> k = Len(d)
          BY <4>3 DEF Added
        <5>2. d[Len(d)] = f.message
          BY <4>3 DEF Added
        <5> QED BY <2>3, <5>1, <5>2 DEF From
      <4> QED BY <1>1, <4>1, <4>2, <4>3 DEF Treats, Put, Known
    <3> QED BY <1>1, <3>1
  <2> QED BY <2>2, <2>3
<1>2. CASE f.kind = "edit"
  <2>0. f.text \in TextOrNone
    BY <1>2, FrameKinds
  <2>1. \/ d = w /\ \A x : ~Tells(f, x)
        \/ d = EditMessageInPlace(w, f.id, f.text) /\ Tells(f, f.id)
    BY <1>2 DEF Treats, Tells
  <2>2. CASE d = w /\ (\A x : ~Tells(f, x))
    BY <1>2, <2>2
  <2>3. CASE d = EditMessageInPlace(w, f.id, f.text) /\ Tells(f, f.id)
    <3>1. /\ DOMAIN d = DOMAIN w
          /\ \A k \in DOMAIN w : /\ d[k].id = w[k].id
                                 /\ w[k].id # f.id => d[k] = w[k]
                                 /\ w[k].id = f.id => d[k].text = f.text
      BY <2>0, <2>3, EditWindow
    <3>2. CASE w[i].id = f.id
      <4>1. d[i].id = f.id /\ d[i].text = TextOf(f)
        BY <1>2, <3>1, <3>2 DEF TextOf
      <4> QED BY <2>3, <4>1
    <3>3. CASE w[i].id # f.id
      <4>1. ~Tells(f, w[i].id)
        BY <1>2, <3>3 DEF Tells
      <4>2. d[i] = w[i] /\ i \in DOMAIN w
        BY <3>1, <3>3
      <4> QED BY <1>2, <4>1, <4>2
    <3> QED BY <3>2, <3>3
  <2> QED BY <2>1, <2>2, <2>3
<1>3. CASE f.kind = "delete"
  <2>1. Without(d, w, f.id)
    BY <1>3 DEF Treats
  <2>2. PICK g : From(d, w, g) /\ \A k \in DOMAIN d : g[k] # 0
    BY <2>1 DEF Without
  <2>3. g[i] \in DOMAIN w /\ d[i] = w[g[i]]
    BY <2>2 DEF From
  <2>4. d[i].id # f.id
    BY <2>1 DEF Without, Ids
  <2> QED BY <1>3, <2>3, <2>4
<1>4. CASE f.kind = "history"
  <2>1. PICK cap \in Nat : \E close : PageMerged(d, w, f.messages, cap, close)
    BY <1>4 DEF Treats
  <2>2. PICK g : From(d, w, g) /\ \A k \in DOMAIN d : g[k] = 0 => d[k] \in ToSet(f.messages)
    BY <2>1 DEF PageMerged
  <2>3. CASE g[i] = 0
    <3>1. f.messages \in Seq(Told)
      BY <1>4, FrameKinds
    <3> QED BY <1>4, <2>2, <2>3, <3>1 DEF ToSet
  <2>4. CASE g[i] # 0
    <3>1. g[i] \in DOMAIN w /\ d[i] = w[g[i]]
      BY <2>2, <2>4 DEF From
    <3> QED BY <1>4, <3>1
  <2> QED BY <2>3, <2>4
<1> QED BY <1>1, <1>2, <1>3, <1>4, FrameKinds

\* The first frame of the connection leaves the entry of the message as it is.
Leaves(c, s, id) ==
  s = 1 => /\ 1 \in DOMAIN down[c] /\ ~Tells(down[c][1], id)
           /\ down[c][1].kind = "delete" => down[c][1].id # id

\* Where the text of an entry that came live is from.
LEMMA EntryText ==
  ASSUME Types, Types', SocketsKnown, Faithful, FeedNext, NEW c \in Conns, Attached(c), OnceSeen(c),
         NEW s, NEW n, Moves(c, s, n), NEW id \in DOMAIN rows, id \notin had[c],
         NEW i \in Entries(Owner[c], id)'
  PROVE  \/ Leaves(c, s, id) /\ \E j \in Entries(Owner[c], id) : win'[Owner[c]][i].text = win[Owner[c]][j].text
         \/ /\ s = 1 /\ 1 \in DOMAIN down[c] /\ Tells(down[c][1], id)
            /\ win'[Owner[c]][i].text = TextOf(down[c][1])
<1>0. PICK u, d, w : u = Owner[c] /\ u \in Users /\ d = win'[u] /\ w = win[u]
  BY FeedConstants
<1>1. i \in DOMAIN d /\ d[i].id = id /\ id > 0
  <2>1. id > 0
    BY TypesAt
  <2> QED BY <1>0, <2>1 DEF Entries
<1>2. conn[u] = c
  BY <1>0 DEF Attached
<1>3. CASE Handle(u)
  <2>1. PICK f : f = down[c][1]
    OBVIOUS
  <2>2. 1 \in DOMAIN down[c] /\ f \in Frames /\ Treats(d, w, f, u)
    BY <1>0, <1>2, <1>3, <2>1, HandleDoes
  <2>3. s = 1
    BY <1>0, <1>2, <1>3 DEF Moves
  <2>4. w \in Seq(Told)
    BY <1>0, TypesAt
  <2>5. \/ \E j \in DOMAIN w :
              /\ d[i].id = w[j].id /\ d[i].text = w[j].text
              /\ f.kind = "edit" => ~Tells(f, w[j].id)
              /\ f.kind = "delete" => f.id # w[j].id
        \/ Tells(f, d[i].id) /\ d[i].text = TextOf(f)
        \/ f.kind = "history" /\ \E q \in DOMAIN f.messages : d[i] = f.messages[q]
    BY <1>1, <2>2, <2>4, TreatsText
  <2>6. ASSUME f.kind = "history", NEW q \in DOMAIN f.messages, d[i] = f.messages[q]
        PROVE  FALSE
    <3>1. f.messages[q].id \in had[c]
      BY <2>1, <2>2, <2>6, ToldIds
    <3> QED BY <1>1, <2>6, <3>1
  <2>7. ASSUME NEW j \in DOMAIN w, d[i].id = w[j].id, d[i].text = w[j].text,
               f.kind = "edit" => ~Tells(f, w[j].id), f.kind = "delete" => f.id # w[j].id
        PROVE  Leaves(c, s, id) /\ j \in Entries(Owner[c], id)
    <3>1. j \in Entries(Owner[c], id)
      BY <1>0, <1>1, <2>7 DEF Entries
    <3>2. ~(f.kind = "message" /\ f.message.id = id)
      <4>1. id \in Ids(win[Owner[c]])
        BY <1>0, <1>1, <2>7 DEF Ids
      <4> QED BY <2>1, <2>2, <4>1 DEF OnceSeen, At
    <3>3. ~Tells(f, id)
      BY <1>1, <2>7, <3>2 DEF Tells
    <3> QED BY <1>1, <2>1, <2>2, <2>7, <3>1, <3>3 DEF Leaves
  <2> QED BY <1>0, <1>1, <2>1, <2>2, <2>3, <2>5, <2>6, <2>7
<1>4. CASE ~Handle(u)
  <2>1. s # 1
    <3> SUFFICES ASSUME NEW v \in Users, Handle(v), c = conn[v]
                 PROVE  FALSE
      BY DEF Moves
    <3>1. Owner[c] = v
      BY FeedConstants DEF SocketsKnown
    <3> QED BY <1>0, <1>4, <3>1
  <2>2. Leaves(c, s, id)
    BY <2>1 DEF Leaves
  <2>3. CASE d = w
    <3>1. i \in Entries(Owner[c], id)
      BY <1>0, <1>1, <2>3 DEF Entries
    <3> QED BY <1>0, <2>2, <2>3, <3>1
  <2>4. ASSUME NEW t \in Texts, SendMessage(u, t)
        PROVE  \E j \in Entries(Owner[c], id) : d[i].text = w[j].text
    <3>1. PICK m \in Told :
            /\ m.id = -(asked + 1) /\ m.cid = m.id /\ m.id < 0
            /\ Put(d, w, m) \/ Known(d, w, m) \/ Added(d, w, m)
      <4>1. PICK b \in Conns, k \in Int, m \in Told, r \in Requests :
              /\ k = -(asked + 1) /\ k < 0
              /\ m.id = k /\ m.cid = k
              /\ Put(win'[u], win[u], m) \/ Known(win'[u], win[u], m) \/ Added(win'[u], win[u], m)
        BY <1>0, <2>4, SendAll
      <4> QED BY <1>0, <4>1
    <3>2. Added(d, w, m)
      <4>1. d \in Seq(Told)
        BY <1>0, WindowAfter
      <4> QED BY <1>0, <3>1, <4>1, SendAdds
    <3>3. PICK g : From(d, w, g) /\ \A k \in DOMAIN d : g[k] = 0 <=> k = Len(d)
      BY <3>2 DEF Added
    <3>4. g[i] # 0
      <4>1. d[Len(d)] = m
        BY <3>2 DEF Added
      <4>2. m.id # id
        BY <1>1, <3>1, TypesAt
      <4> QED BY <1>1, <3>3, <4>1, <4>2
    <3>5. g[i] \in DOMAIN w /\ d[i] = w[g[i]]
      BY <1>1, <3>3, <3>4 DEF From
    <3>6. g[i] \in Entries(Owner[c], id)
      BY <1>0, <1>1, <3>5 DEF Entries
    <3> QED BY <3>5, <3>6
  <2>5. ASSUME NEW b \in Conns, OpenSocket(u, b)
        PROVE  d = w
    BY <1>0, <2>5 DEF OpenSocket
  <2>6. LoseSocket(u) => d = w
    BY <1>0 DEF LoseSocket
  <2> QED BY <1>0, <1>4, <2>2, <2>3, <2>4, <2>5, <2>6, PageChanges DEF PageChange
<1> QED BY <1>3, <1>4

\* What an edit makes of its goroutine and of the row.
LEMMA EditFans ==
  ASSUME Types, Faithful, NEW c \in Conns, HandleMessageEdit(c), NEW id, id = up[c][1].id
  PROVE  /\ job[c] = Idle /\ up[c] # <<>> /\ id \in DOMAIN rows /\ rows[id].user = Owner[c]
         /\ job'[c].at = "fanning" /\ job'[c].frame.kind = "edit" /\ job'[c].frame.id = id
         /\ ~rows'[id].gone => job'[c].frame.text = rows'[id].text /\ Tells(job'[c].frame, id)
<1>1. PICK t : t = (IF rows[id].gone THEN "" ELSE up[c][1].text)
  OBVIOUS
<1>2. PICK f : f = [kind |-> "edit", id |-> id, text |-> t]
  OBVIOUS
<1>3. /\ Take(c, "edit", [at |-> "fanning", frame |-> f])
      /\ id \in DOMAIN rows /\ rows[id].user = Owner[c]
      /\ rows'[id].text = up[c][1].text /\ rows'[id].gone = rows[id].gone /\ up[c][1].text # ""
  BY <1>1, <1>2, EditDoes
<1>4. job[c] = Idle /\ up[c] # <<>> /\ job'[c] = [at |-> "fanning", frame |-> f]
  <2>1. job \in [Conns -> Jobs]
    BY DEF Types
  <2> QED BY <1>3, <2>1 DEF Take
<1>5. ~rows'[id].gone => t = up[c][1].text /\ t # ""
  BY <1>1, <1>3
<1>6. f.kind = "edit" /\ f.id = id /\ f.text = t
  BY <1>2
<1>7. job'[c].at = "fanning" /\ job'[c].frame = f
  BY <1>4
<1>8. ~rows'[id].gone => Tells(f, id)
  BY <1>5, <1>6 DEF Tells
<1> HIDE DEF Tells
<1> QED BY <1>3, <1>4, <1>5, <1>6, <1>7, <1>8

\* What a deletion makes of its goroutine.
LEMMA DeletePublishes ==
  ASSUME Types, Faithful, NEW c \in Conns, HandleMessageDelete(c), NEW id, id = up[c][1].id
  PROVE  /\ job[c] = Idle /\ up[c] # <<>> /\ id \in DOMAIN rows /\ rows[id].user = Owner[c]
         /\ job'[c].at = "publishing" /\ job'[c].frame.id = id
<1>1. PICK f : f = [kind |-> "delete", id |-> id]
  OBVIOUS
<1>2. /\ Take(c, "delete", [at |-> "publishing", frame |-> f])
      /\ id \in DOMAIN rows /\ rows[id].user = Owner[c]
  BY <1>1, DeletionDoes
<1>3. job[c] = Idle /\ up[c] # <<>> /\ job'[c] = [at |-> "publishing", frame |-> f]
  <2>1. job \in [Conns -> Jobs]
    BY DEF Types
  <2> QED BY <1>2, <2>1 DEF Take
<1> QED BY <1>1, <1>2, <1>3

\* A row keeps its text while its author's goroutine is fanning it.
LEMMA TextKept ==
  ASSUME Types, SocketsKnown, Faithful, FeedNext, NEW d \in Conns, job[d].at = "fanning",
         NEW id, Tells(job[d].frame, id), Owner[d] \notin lossy
  PROVE  id \in DOMAIN rows /\ rows'[id].text = rows[id].text
<1>1. id \in DOMAIN rows /\ rows[id].user = Owner[d] /\ job[d] # Idle
  BY TellsOwn
<1>2. ASSUME NEW b \in Conns, HandleMessageEdit(b), up[b][1].id = id
      PROVE  FALSE
  <2>1. job[b] = Idle /\ up[b] # <<>> /\ rows[id].user = Owner[b]
    <3>1. PICK k : k = up[b][1].id
      OBVIOUS
    <3>2. job[b] = Idle /\ up[b] # <<>> /\ rows[k].user = Owner[b]
      BY <1>2, <3>1, EditFans
    <3> QED BY <1>2, <3>1, <3>2
  <2>2. Owner[b] = Owner[d] /\ Owner[b] \notin lossy
    BY <1>1, <2>1
  <2>3. b = d
    BY <1>1, <2>1, <2>2, OneConnection
  <2> QED BY <1>1, <2>1, <2>3
<1> QED BY <1>1, <1>2, TextSteps

\* What is fanned of a row stays its text.
LEMMA TextsFannedStep ==
  ASSUME Types, SocketsKnown, Faithful, FeedNext, TextsFanned
  PROVE  TextsFanned'
<1> SUFFICES ASSUME NEW d \in Conns, NEW id \in DOMAIN rows', job'[d].at = "fanning",
                    Tells(job'[d].frame, id), Owner[d] \notin lossy', ~rows'[id].gone
             PROVE  TextOf(job'[d].frame) = rows'[id].text
  BY DEF TextsFanned
<1>1. Owner[d] \notin lossy
  BY LossyGrows
<1>2. CASE job'[d] = job[d] /\ job[d].at = "fanning"
  <2>1. id \in DOMAIN rows /\ rows'[id].text = rows[id].text
    BY <1>1, <1>2, TextKept
  <2>2. ~rows[id].gone
    BY <2>1, GoneStays
  <2> QED BY <1>1, <1>2, <2>1, <2>2 DEF TextsFanned
<1>3. CASE HandleChatMessage(d)
  <2>1. PICK n : n = Len(rows) + 1
    OBVIOUS
  <2>2. /\ Fans(d, "message")' /\ job'[d].frame.message.id = n /\ rows'[n] = NewRow(d)
        /\ job'[d].frame.message.text = up[d][1].text
    BY <1>3, <2>1, ChatFans
  <2>3. id = n
    BY <2>2 DEF Tells, Fans
  <2>4. TextOf(job'[d].frame) = up[d][1].text
    BY <2>2 DEF TextOf, Fans
  <2> QED BY <2>2, <2>3, <2>4 DEF NewRow
<1>4. CASE HandleMessageEdit(d)
  <2>1. PICK k : k = up[d][1].id
    OBVIOUS
  <2>2. /\ job'[d].frame.kind = "edit" /\ job'[d].frame.id = k
        /\ ~rows'[k].gone => job'[d].frame.text = rows'[k].text
    BY <1>4, <2>1, EditFans
  <2>3. id = k
    BY <2>2 DEF Tells
  <2> QED BY <2>2, <2>3 DEF TextOf
<1> QED BY <1>2, <1>3, <1>4, FansNew

\* Who is heard is in the room with its page's connection.
LEMMA HeardCurrent ==
  ASSUME Types, SocketsKnown, NEW c \in Conns, NEW id, Heard(c, id)
  PROVE  Attached(c)
BY SocketUsed DEF Heard

\* What comes that tells the text tells the last one.
LEMMA TextArrives ==
  ASSUME Types, SocketsKnown, Faithful, FeedNext, TextsFanned, NEW c \in Conns, NEW s, NEW n, Moves(c, s, n),
         NEW id, Heard(c, id), ~rows'[id].gone, n # 0, Tells(down'[c][n], id)
  PROVE  TextComes(c, id)'
<1>1. n \in DOMAIN down'[c] /\ Arrives(c, down'[c][n])
  BY DEF Moves
<1>2. PICK d \in Conns : BroadcastToRoom(d) /\ down'[c][n] = job[d].frame
  <2>1. ASSUME Answer(c), down'[c][n] = job[c].frame
        PROVE  FALSE
    <3>1. PICK f : f = job[c].frame
      OBVIOUS
    <3>2. f.kind = "history"
      BY <2>1, <3>1, AnswerDoes
    <3> QED BY <2>1, <3>1, <3>2 DEF Tells
  <2> QED BY <1>1, <2>1 DEF Arrives, Tells
<1>3. job[d].at = "fanning" /\ rows' = rows
  BY <1>2 DEF BroadcastToRoom
<1>4. id \in DOMAIN rows /\ rows[id].user = Owner[d] /\ rows[id].user \notin lossy
  BY <1>2, <1>3, TellsOwn DEF Heard
<1>5. TextOf(down'[c][n]) = rows'[id].text
  BY <1>2, <1>3, <1>4 DEF TextsFanned
<1>6. n \in Tellers(c, id)'
  BY <1>1 DEF Tellers
<1>7. \A q \in Tellers(c, id)' : q <= n
  <2> SUFFICES ASSUME NEW q \in DOMAIN down'[c]
               PROVE  q <= n
    BY DEF Tellers
  <2>1. q \in Nat /\ n \in Nat /\ (q # n => q < n)
    BY DEF Moves
  <2> QED BY <2>1
<1> QED BY <1>5, <1>6, <1>7 DEF TextComes

\* Tellers that are left were there.
LEMMA TellersWere ==
  ASSUME NEW c \in Conns, NEW s, NEW n, Moves(c, s, n), NEW id,
         ~(n # 0 /\ Tells(down'[c][n], id)), NEW q \in Tellers(c, id)'
  PROVE  q + s \in Tellers(c, id) /\ q \in Nat /\ q # 0
<1>1. q \in DOMAIN down'[c] /\ Tells(down'[c][q], id)
  BY DEF Tellers
<1>2. q # n /\ q \in Nat /\ q # 0
  BY <1>1 DEF Moves
<1>3. q + s \in DOMAIN down[c] /\ down'[c][q] = down[c][q + s]
  BY <1>1, <1>2 DEF Moves
<1> QED BY <1>1, <1>2, <1>3 DEF Tellers

\* What a connection of the room is told comes to it.
LEMMA FanArrives ==
  ASSUME Types, NEW c \in Conns, Attached(c), c \in room, NEW d \in Conns, BroadcastToRoom(d),
         NEW s, NEW n, Moves(c, s, n)
  PROVE  n # 0 /\ down'[c][n] = job[d].frame
<1>1. PICK f : f = job[d].frame
  OBVIOUS
<1>2. f \in Frames /\ down'[c] = Append(down[c], f)
  BY <1>1, FanDoes
<1>3. PICK k \in Nat : k \notin DOMAIN down[c] /\ k \in DOMAIN down'[c] /\ down'[c][k] = f
  BY <1>2, DownGrows
<1>4. ~\E u \in Users : Handle(u) /\ c = conn[u]
  <2>1. down[c] \in Seq(Frames)
    BY TypesAt
  <2>2. ASSUME NEW u \in Users, Handle(u), c = conn[u]
        PROVE  FALSE
    <3>2. down'[c] = Tail(down[c]) /\ down[c] # <<>>
      BY <2>2 DEF Handle, Types
    <3>3. Len(down'[c]) = Len(down[c]) - 1 /\ Len(down[c]) \in Nat
      BY <2>1, <3>2, TailAt
    <3>4. Len(down'[c]) = Len(down[c]) + 1
      BY <1>2, <2>1, AppendAt
    <3> QED BY <3>3, <3>4
  <2> QED BY <2>2
<1>5. s = 0
  BY <1>4 DEF Moves
<1>6. k = n
  <2> SUFFICES ASSUME k # n
               PROVE  FALSE
    OBVIOUS
  <2>1. k + s \in DOMAIN down[c]
    BY <1>3 DEF Moves
  <2> QED BY <1>3, <1>5, <2>1
<1>7. n # 0
  BY <1>3, <1>6 DEF Moves
<1> QED BY <1>1, <1>3, <1>6, <1>7

\* A row keeps its text: what there is of it goes on.
LEMMA TextStays ==
  ASSUME Types, Types', SocketsKnown, Faithful, FeedNext, NEW c \in Conns, Attached(c), Attached(c)', OnceSeen(c),
         NEW s, NEW n, Moves(c, s, n), NEW id, Heard(c, id), TextComes(c, id),
         rows'[id].text = rows[id].text, ~(n # 0 /\ Tells(down'[c][n], id))
  PROVE  TextComes(c, id)'
<1>0. id \in DOMAIN rows /\ id \notin had[c] /\ c \in room /\ s \in {0, 1}
  BY DEF Heard, Moves
<1>1. ASSUME NEW d \in Conns, job[d].at = "fanning", Tells(job[d].frame, id)
      PROVE  TextComes(c, id)'
  <2>1. ~BroadcastToRoom(d)
    <3> SUFFICES ASSUME BroadcastToRoom(d)
                 PROVE  FALSE
      OBVIOUS
    <3>1. n # 0 /\ down'[c][n] = job[d].frame
      BY <1>0, FanArrives
    <3> QED BY <1>1, <3>1
  <2>2. job'[d] = job[d]
    <3>1. PICK kind : Fans(d, kind)
      BY <1>1 DEF Fans
    <3> QED BY <2>1, <3>1, FanSteps
  <2> QED BY <1>1, <2>2 DEF TextComes
<1>2. ASSUME NEW p \in Tellers(c, id), TextOf(down[c][p]) = rows[id].text, \A q \in Tellers(c, id) : q <= p
      PROVE  TextComes(c, id)'
  <2>1. p \in DOMAIN down[c] /\ p \in Nat /\ p # 0 /\ Tells(down[c][p], id)
    <3>1. down[c] \in Seq(Frames)
      BY TypesAt
    <3> QED BY <1>2, <3>1, EmptyAt DEF Tellers
  <2>2. CASE p # s
    <3>1. p - s \in DOMAIN down'[c] /\ down'[c][p - s] = down[c][p] /\ p - s \in Nat
      BY <2>1, <2>2, FrameStays
    <3>2. p - s \in Tellers(c, id)'
      BY <2>1, <3>1 DEF Tellers
    <3>3. \A q \in Tellers(c, id)' : q <= p - s
      <4> SUFFICES ASSUME NEW q \in Tellers(c, id)'
                   PROVE  q <= p - s
        OBVIOUS
      <4>1. q + s \in Tellers(c, id) /\ q \in Nat
        BY TellersWere
      <4>2. q + s <= p
        BY <1>2, <4>1
      <4> QED BY <1>0, <2>1, <4>1, <4>2
    <3> QED BY <1>2, <3>1, <3>2, <3>3 DEF TextComes
  <2>3. CASE p = s
    <3>1. s = 1 /\ Tells(down[c][1], id) /\ TextOf(down[c][1]) = rows[id].text
      BY <1>0, <1>2, <2>1, <2>3
    <3>2. Tellers(c, id)' = {}
      <4> SUFFICES ASSUME NEW q \in Tellers(c, id)'
                   PROVE  FALSE
        OBVIOUS
      <4>1. q + s \in Tellers(c, id) /\ q \in Nat /\ q # 0
        BY TellersWere
      <4>2. q + 1 <= 1
        BY <1>2, <2>3, <3>1, <4>1
      <4> QED BY <4>1, <4>2
    <3>3. ASSUME NEW i \in Entries(Owner[c], id)'
          PROVE  win'[Owner[c]][i].text = rows'[id].text
      <4>1. ~Leaves(c, s, id)
        BY <3>1 DEF Leaves
      <4>2. win'[Owner[c]][i].text = TextOf(down[c][1])
        BY <1>0, <4>1, EntryText
      <4> QED BY <3>1, <4>2
    <3> QED BY <3>2, <3>3 DEF TextComes
  <2> QED BY <2>2, <2>3
<1>3. ASSUME Tellers(c, id) = {}, \A i \in Entries(Owner[c], id) : win[Owner[c]][i].text = rows[id].text
      PROVE  TextComes(c, id)'
  <2>1. Tellers(c, id)' = {}
    BY <1>3, TellersWere
  <2>2. ASSUME NEW i \in Entries(Owner[c], id)'
        PROVE  win'[Owner[c]][i].text = rows'[id].text
    <3>1. ~(1 \in DOMAIN down[c] /\ Tells(down[c][1], id))
      BY <1>3 DEF Tellers
    <3>2. PICK j \in Entries(Owner[c], id) : win'[Owner[c]][i].text = win[Owner[c]][j].text
      BY <1>0, <3>1, EntryText
    <3> QED BY <1>3, <3>2
  <2> QED BY <2>1, <2>2 DEF TextComes
<1> QED BY <1>1, <1>2, <1>3 DEF TextComes

\* The text of a row still comes, or is there.
LEMMA TextComesStep ==
  ASSUME Types, Types', SocketsKnown, SocketsKnown', Faithful, FeedNext, Once, Texting,
         NEW c \in Conns, NEW id, Heard(c, id)', ~rows'[id].gone
  PROVE  TextComes(c, id)'
<1>0. Attached(c)'
  <2>1. c \in room'
    BY DEF Heard
  <2> QED BY <2>1 DEF SocketsKnown
<1>1. ASSUME NEW d \in Conns, HandleChatMessage(d), id = Len(rows) + 1
      PROVE  TextComes(c, id)'
  <2>1. PICK n : n = Len(rows) + 1
    OBVIOUS
  <2>2. Fans(d, "message")' /\ job'[d].frame.message.id = n
    BY <1>1, <2>1, ChatFans
  <2>3. job'[d].at = "fanning" /\ Tells(job'[d].frame, id)
    BY <1>1, <2>1, <2>2 DEF Fans, Tells
  <2> QED BY <2>3 DEF TextComes
<1>2. CASE Heard(c, id)
  <2>1. Attached(c) /\ id \in DOMAIN rows /\ Owner[c] \notin lossy
    BY <1>2, HeardCurrent DEF Heard
  <2>2. ~rows[id].gone
    BY <2>1, GoneStays
  <2>3. TextComes(c, id) /\ OnceSeen(c) /\ TextsFanned
    BY <1>2, <2>1, <2>2 DEF Texting, Once
  <2>4. PICK s, n : Moves(c, s, n)
    BY FrameMoves
  <2>5. ASSUME NEW b \in Conns, HandleMessageEdit(b), up[b][1].id = id
        PROVE  TextComes(c, id)'
    <3>1. PICK k : k = up[b][1].id
      OBVIOUS
    <3>2. job'[b].at = "fanning" /\ (~rows'[k].gone => Tells(job'[b].frame, k))
      BY <2>5, <3>1, EditFans
    <3> QED BY <2>5, <3>1, <3>2 DEF TextComes
  <2>6. CASE n # 0 /\ Tells(down'[c][n], id)
    BY <1>2, <2>3, <2>4, <2>6, TextArrives
  <2>7. CASE rows'[id].text = rows[id].text /\ ~(n # 0 /\ Tells(down'[c][n], id))
    BY <1>0, <1>2, <2>1, <2>3, <2>4, <2>7, TextStays
  <2> QED BY <2>1, <2>5, <2>6, <2>7, TextSteps
<1> QED BY <1>1, <1>2, HeardSteps

\* Texting is inductive.
LEMMA TextingStep ==
  ASSUME Types, Types', SocketsKnown, SocketsKnown', Faithful, FeedNext, Once, Texting
  PROVE  Texting'
BY TextsFannedStep, TextComesStep DEF Texting


-----------------------------------------------------------------------------
(***************************************************************************)
(* Deletions                                                               *)
(***************************************************************************)

\* No message is fanned that is deleted.
LEMMA NoneFannedStep ==
  ASSUME Types, SocketsKnown, Faithful, FeedNext, NoneFanned
  PROVE  NoneFanned'
<1> SUFFICES ASSUME NEW d \in Conns, Fans(d, "message")', Owner[d] \notin lossy'
             PROVE  ~rows'[job'[d].frame.message.id].gone
  BY DEF NoneFanned
<1>1. Owner[d] \notin lossy
  BY LossyGrows
<1>2. CASE Fans(d, "message") /\ job'[d] = job[d]
  <2>1. PICK k : k = job[d].frame.message.id
    OBVIOUS
  <2>2. k \in DOMAIN rows /\ rows[k].user = Owner[d] /\ ~rows[k].gone
    BY <1>1, <1>2, <2>1, ToldRow DEF NoneFanned
  <2>3. ASSUME NEW b \in Conns, HandleMessageDelete(b), up[b][1].id = k
        PROVE  FALSE
    <3>1. job[b] = Idle /\ up[b] # <<>> /\ rows[k].user = Owner[b]
      <4>1. PICK j : j = up[b][1].id
        OBVIOUS
      <4>2. job[b] = Idle /\ up[b] # <<>> /\ rows[j].user = Owner[b]
        BY <2>3, <4>1, DeletePublishes
      <4> QED BY <2>3, <4>1, <4>2
    <3>2. Owner[b] = Owner[d] /\ Owner[b] \notin lossy
      BY <1>1, <2>2, <3>1
    <3>3. job[d] # Idle
      BY <1>2 DEF Fans, Idle
    <3>4. b = d
      BY <3>1, <3>2, <3>3, OneConnection
    <3> QED BY <3>1, <3>3, <3>4
  <2> QED BY <1>2, <2>1, <2>2, <2>3, GoneSteps
<1>3. CASE HandleChatMessage(d)
  <2>1. PICK n : n = Len(rows) + 1
    OBVIOUS
  <2>2. job'[d].frame.message.id = n /\ rows'[n] = NewRow(d)
    BY <1>3, <2>1, ChatFans
  <2> QED BY <2>2 DEF NewRow
<1> QED BY <1>2, <1>3, FansMessage

\* Deletions wait in the queue for their turn.
LEMMA QueueSteps ==
  ASSUME Types, FeedNext
  PROVE  broadcastQ' = broadcastQ \/ HubBroadcast \/ \E d \in Conns : Publish(d)
<1>1. ASSUME NEW u \in Users
      PROVE  /\ \A c \in Conns : OpenSocket(u, c) => broadcastQ' = broadcastQ
             /\ LoseSocket(u) => broadcastQ' = broadcastQ
             /\ \A t \in Texts : SendMessage(u, t) => broadcastQ' = broadcastQ
             /\ \A r \in Requests : AskAbout(u, r) => broadcastQ' = broadcastQ
             /\ Handle(u) => broadcastQ' = broadcastQ
  BY DEF OpenSocket, LoseSocket, SendMessage, AskAbout, Handle, server
<1>2. ASSUME NEW c \in Conns
      PROVE  HandleJoin(c) \/ ReadHistory(c) \/ HandleLoadHistory(c) \/ Answer(c) \/ Refuse(c)
             \/ BroadcastToRoom(c) => broadcastQ' = broadcastQ
  BY DEF HandleJoin, ReadHistory, HandleLoadHistory, Answer, Refuse, BroadcastToRoom
<1>3. ASSUME NEW c \in Conns
      PROVE  HandleChatMessage(c) \/ HandleMessageEdit(c) \/ HandleMessageDelete(c) => broadcastQ' = broadcastQ
  BY DEF HandleChatMessage, HandleMessageEdit, HandleMessageDelete
<1>4. HubRegister => broadcastQ' = broadcastQ
  BY DEF HubRegister
<1> QED BY <1>1, <1>2, <1>3, <1>4, FeedSteps

\* A deletion that leaves the queue comes to the connections of the room.
LEMMA DeletionArrives ==
  ASSUME Types, NEW c \in Conns, Attached(c), c \in room, HubBroadcast,
         NEW s, NEW n, Moves(c, s, n)
  PROVE  n # 0 /\ down'[c][n] = broadcastQ[1] /\ n \in At(c, "delete")'
<1>1. PICK f : f = Head(broadcastQ)
  OBVIOUS
<1>2. f \in Frames /\ down'[c] = Append(down[c], f) /\ f = broadcastQ[1] /\ f.kind = "delete"
  BY <1>1, HubDoes
<1>3. PICK k \in Nat : k \notin DOMAIN down[c] /\ k \in DOMAIN down'[c] /\ down'[c][k] = f
  BY <1>2, DownGrows
<1>4. ~\E u \in Users : Handle(u) /\ c = conn[u]
  <2>1. down[c] \in Seq(Frames)
    BY TypesAt
  <2>2. ASSUME NEW u \in Users, Handle(u), c = conn[u]
        PROVE  FALSE
    <3>1. down'[c] = Tail(down[c]) /\ down[c] # <<>>
      BY <2>2 DEF Handle, Types
    <3>2. Len(down'[c]) = Len(down[c]) - 1 /\ Len(down[c]) \in Nat
      BY <2>1, <3>1, TailAt
    <3>3. Len(down'[c]) = Len(down[c]) + 1
      BY <1>2, <2>1, AppendAt
    <3> QED BY <3>2, <3>3
  <2> QED BY <2>2
<1>5. s = 0
  BY <1>4 DEF Moves
<1>6. k = n
  <2> SUFFICES ASSUME k # n
               PROVE  FALSE
    OBVIOUS
  <2>1. k + s \in DOMAIN down[c]
    BY <1>3 DEF Moves
  <2> QED BY <1>3, <1>5, <2>1
<1>7. n # 0
  BY <1>3, <1>6 DEF Moves
<1> QED BY <1>2, <1>3, <1>6, <1>7 DEF At

\* A deleted message is not told again.
LEMMA GoneArrives ==
  ASSUME Types, SocketsKnown, Faithful, FeedNext, NoneFanned, NEW c \in Conns, NEW s, NEW n, Moves(c, s, n),
         NEW id, Heard(c, id), rows[id].gone, NEW q \in At(c, "message")', down'[c][q].message.id = id
  PROVE  q + s \in At(c, "message") /\ down[c][q + s].message.id = id /\ q \in Nat /\ q # 0 /\ q # n
<1>1. q # n
  <2> SUFFICES ASSUME q = n
               PROVE  FALSE
    OBVIOUS
  <2>1. Arrives(c, down'[c][q]) /\ down'[c][q].kind = "message"
    BY FrameNew
  <2>2. PICK d \in Conns : down'[c][q] = job[d].frame /\ Fans(d, "message")
    BY <2>1, MessageArrives
  <2>3. rows[id].user = Owner[d]
    BY <2>2, ToldRow
  <2> QED BY <2>2, <2>3 DEF NoneFanned, Heard
<1>2. q \in Nat /\ q # 0
  BY DEF Moves, At
<1> QED BY <1>1, <1>2, FrameWas

\* A deletion that is being published, or queued, goes on.
LEMMA QueueGoesOn ==
  ASSUME Types, Faithful, FeedNext, NEW c \in Conns, Attached(c), c \in room, Owner[c] \notin lossy',
         NEW s, NEW n, Moves(c, s, n), NEW id,
         \/ \E d \in Conns : job[d].at = "publishing" /\ job[d].frame.id = id
         \/ \E i \in DOMAIN broadcastQ : broadcastQ[i].id = id
  PROVE  DeletionComes(c, id)'
<1>0. broadcastQ \in Seq(Deletions)
  BY TypesAt
<1>1. ASSUME NEW d \in Conns, job[d].at = "publishing", job[d].frame.id = id
      PROVE  DeletionComes(c, id)'
  <2>1. CASE job'[d] = job[d]
    BY <1>1, <2>1 DEF DeletionComes
  <2>2. CASE Publish(d)
    <3>1. PICK f : f = job[d].frame
      OBVIOUS
    <3>2. f \in Deletions /\ broadcastQ' = Append(broadcastQ, f)
      <4>1. /\ f \in Deletions
            /\ \/ broadcastQ' = Append(broadcastQ, f) /\ lossy' = lossy
               \/ broadcastQ' = broadcastQ /\ lossy' = Users
        BY <2>2, <3>1, PublishDoes
      <4>2. Owner[c] \in Users
        BY TypesAt
      <4> QED BY <4>1, <4>2
    <3>3. PICK i : i = Len(broadcastQ) + 1
      OBVIOUS
    <3>4. i \in DOMAIN broadcastQ' /\ broadcastQ'[i] = f
      BY <1>0, <3>2, <3>3, AppendAt
    <3> QED BY <1>1, <3>1, <3>4 DEF DeletionComes
  <2>3. CASE job[d] = Idle
    BY <1>1, <2>3 DEF Idle
  <2>4. ~(ReadHistory(d) \/ Answer(d) \/ BroadcastToRoom(d))
    BY <1>1 DEF ReadHistory, Answer, BroadcastToRoom
  <2> QED BY <2>1, <2>2, <2>3, <2>4, JobChanges DEF JobChange
<1>2. ASSUME NEW i \in DOMAIN broadcastQ, broadcastQ[i].id = id
      PROVE  DeletionComes(c, id)'
  <2>1. CASE broadcastQ' = broadcastQ
    BY <1>2, <2>1 DEF DeletionComes
  <2>2. ASSUME NEW d \in Conns, Publish(d)
        PROVE  DeletionComes(c, id)'
    <3>1. PICK f : f = job[d].frame
      OBVIOUS
    <3>2. f \in Deletions /\ (broadcastQ' = broadcastQ \/ broadcastQ' = Append(broadcastQ, f))
      BY <2>2, <3>1, PublishDoes
    <3>3. i \in DOMAIN broadcastQ' /\ broadcastQ'[i] = broadcastQ[i]
      <4>1. CASE broadcastQ' = broadcastQ
        BY <4>1
      <4>2. CASE broadcastQ' = Append(broadcastQ, f)
        BY <1>0, <3>2, <4>2, AppendAt
      <4> QED BY <3>2, <4>1, <4>2
    <3> QED BY <1>2, <3>3 DEF DeletionComes
  <2>3. CASE HubBroadcast
    <3>1. CASE i = 1
      <4>1. n # 0 /\ down'[c][n] = broadcastQ[1] /\ n \in At(c, "delete")'
        BY <2>3, DeletionArrives
      <4>2. \A q \in At(c, "message")' : q < n
        <5> SUFFICES ASSUME NEW q \in At(c, "message")'
                     PROVE  q < n
          OBVIOUS
        <5>1. q \in DOMAIN down'[c] /\ q # n
          BY <4>1 DEF At
        <5> QED BY <4>1, <5>1 DEF Moves
      <4> QED BY <1>2, <3>1, <4>1, <4>2 DEF DeletionComes
    <3>2. CASE i # 1
      <4>1. broadcastQ' = Tail(broadcastQ) /\ broadcastQ # <<>>
        BY <2>3 DEF HubBroadcast
      <4>2. i - 1 \in DOMAIN broadcastQ' /\ broadcastQ'[i - 1] = broadcastQ[i]
        BY <1>0, <3>2, <4>1, TailAt
      <4> QED BY <1>2, <4>2 DEF DeletionComes
    <3> QED BY <3>1, <3>2
  <2> QED BY <2>1, <2>2, <2>3, QueueSteps
<1> QED BY <1>1, <1>2

\* A deletion that is on its way to the page goes on.
LEMMA DeletionGoesOn ==
  ASSUME Types, Types', SocketsKnown, Faithful, FeedNext, NoneFanned, NEW c \in Conns, Attached(c), Attached(c)',
         OnceSeen(c), NEW s, NEW n, Moves(c, s, n), NEW id, Heard(c, id), rows[id].gone,
         NEW p \in At(c, "delete"), down[c][p].id = id,
         \A q \in At(c, "message") : down[c][q].message.id = id => q < p
  PROVE  DeletionComes(c, id)'
<1>0. id \in DOMAIN rows /\ id \notin had[c] /\ s \in {0, 1}
  BY DEF Heard, Moves
<1>1. p \in DOMAIN down[c] /\ p \in Nat /\ p # 0 /\ down[c][p].kind = "delete"
  <2>1. down[c] \in Seq(Frames)
    BY TypesAt
  <2> QED BY <2>1, EmptyAt DEF At
<1>2. \A q \in At(c, "message")' : down'[c][q].message.id = id => q \in Nat /\ q # 0 /\ q + s \in Nat /\ q + s < p
  <2> SUFFICES ASSUME NEW q \in At(c, "message")', down'[c][q].message.id = id
               PROVE  q \in Nat /\ q # 0 /\ q + s \in Nat /\ q + s < p
    OBVIOUS
  <2>1. q + s \in At(c, "message") /\ down[c][q + s].message.id = id /\ q \in Nat /\ q # 0
    BY GoneArrives
  <2>2. q + s < p
    BY <2>1
  <2> QED BY <1>0, <2>1, <2>2
<1>3. CASE p # s
  <2>1. p - s \in DOMAIN down'[c] /\ down'[c][p - s] = down[c][p] /\ p - s \in Nat
    BY <1>1, <1>3, FrameStays
  <2>2. p - s \in At(c, "delete")'
    BY <1>1, <2>1 DEF At
  <2>3. \A q \in At(c, "message")' : down'[c][q].message.id = id => q < p - s
    BY <1>0, <1>1, <1>2
  <2> QED BY <2>1, <2>2, <2>3 DEF DeletionComes
<1>4. CASE p = s
  <2>1. s = 1 /\ down[c][1].kind = "delete" /\ down[c][1].id = id
    BY <1>0, <1>1, <1>4
  <2>2. id \notin Ids(win'[Owner[c]])
    <3> SUFFICES ASSUME NEW i \in Entries(Owner[c], id)'
                 PROVE  FALSE
      BY DEF Ids, Entries
    <3>1. ~Leaves(c, s, id)
      BY <2>1 DEF Leaves
    <3>2. ~Tells(down[c][1], id)
      BY <2>1 DEF Tells
    <3> QED BY <1>0, <3>1, <3>2, EntryText
  <2>3. \A q \in At(c, "message")' : down'[c][q].message.id # id
    BY <1>2, <1>4, <2>1
  <2> QED BY <2>2, <2>3 DEF DeletionComes
<1> QED BY <1>3, <1>4

\* The page does not have the message and will not.
LEMMA GoneStaysAway ==
  ASSUME Types, Types', SocketsKnown, Faithful, FeedNext, NoneFanned, NEW c \in Conns, Attached(c),
         NEW s, NEW n, Moves(c, s, n), NEW id, Heard(c, id), rows[id].gone,
         id \notin Ids(win[Owner[c]]), \A q \in At(c, "message") : down[c][q].message.id # id
  PROVE  DeletionComes(c, id)'
<1>1. \A q \in At(c, "message")' : down'[c][q].message.id # id
  BY GoneArrives
<1>2. id \notin Ids(win'[Owner[c]])
  <2> SUFFICES ASSUME id \in Ids(win'[Owner[c]])
               PROVE  FALSE
    OBVIOUS
  <2>1. id > 0 /\ id \notin had[c]
    BY TypesAt DEF Heard
  <2>2. 1 \in At(c, "history") /\ id \in Ids(down[c][1].messages)
    BY <2>1, ShownWas
  <2> QED BY <2>1, <2>2, ToldRow
<1> QED BY <1>1, <1>2 DEF DeletionComes

\* A deletion still comes, or has come.
LEMMA DeletionComesStep ==
  ASSUME Types, Types', SocketsKnown, SocketsKnown', Faithful, FeedNext, Once, Deleting,
         NEW c \in Conns, NEW id, Heard(c, id)', rows'[id].gone
  PROVE  DeletionComes(c, id)'
<1>0. Attached(c)' /\ Owner[c] \notin lossy'
  <2>1. c \in room' /\ Owner[c] \notin lossy'
    BY DEF Heard
  <2> QED BY <2>1 DEF SocketsKnown
<1>1. ASSUME NEW d \in Conns, HandleChatMessage(d), id = Len(rows) + 1
      PROVE  FALSE
  <2>1. PICK n : n = Len(rows) + 1
    OBVIOUS
  <2>2. rows'[n] = NewRow(d)
    BY <1>1, <2>1, ChatFans
  <2> QED BY <1>1, <2>1, <2>2 DEF NewRow
<1>2. CASE Heard(c, id)
  <2>1. Attached(c) /\ id \in DOMAIN rows /\ Owner[c] \notin lossy /\ c \in room
    BY <1>2, HeardCurrent DEF Heard
  <2>2. ASSUME NEW b \in Conns, HandleMessageDelete(b), up[b][1].id = id
        PROVE  DeletionComes(c, id)'
    <3>1. PICK k : k = up[b][1].id
      OBVIOUS
    <3>2. job'[b].at = "publishing" /\ job'[b].frame.id = k
      BY <2>2, <3>1, DeletePublishes
    <3> QED BY <2>2, <3>1, <3>2 DEF DeletionComes
  <2>3. CASE rows'[id].gone = rows[id].gone
    <3>1. rows[id].gone /\ DeletionComes(c, id) /\ OnceSeen(c) /\ NoneFanned
      BY <1>2, <2>1, <2>3 DEF Deleting, Once
    <3>2. PICK s, n : Moves(c, s, n)
      BY FrameMoves
    <3>3. CASE \/ \E d \in Conns : job[d].at = "publishing" /\ job[d].frame.id = id
               \/ \E i \in DOMAIN broadcastQ : broadcastQ[i].id = id
      BY <1>0, <2>1, <3>2, <3>3, QueueGoesOn
    <3>4. CASE \E p \in At(c, "delete") : /\ down[c][p].id = id
                                          /\ \A q \in At(c, "message") : down[c][q].message.id = id => q < p
      BY <1>0, <1>2, <2>1, <3>1, <3>2, <3>4, DeletionGoesOn
    <3>5. CASE id \notin Ids(win[Owner[c]]) /\ \A q \in At(c, "message") : down[c][q].message.id # id
      BY <1>2, <2>1, <3>1, <3>2, <3>5, GoneStaysAway
    <3> QED BY <3>1, <3>3, <3>4, <3>5 DEF DeletionComes
  <2> QED BY <2>1, <2>2, <2>3, GoneSteps
<1> QED BY <1>1, <1>2, HeardSteps

\* Deleting is inductive.
LEMMA DeletingStep ==
  ASSUME Types, Types', SocketsKnown, SocketsKnown', Faithful, FeedNext, Once, Deleting
  PROVE  Deleting'
BY NoneFannedStep, DeletionComesStep DEF Deleting


-----------------------------------------------------------------------------
(***************************************************************************)
(* The theorems                                                            *)
(***************************************************************************)

\* Nothing has been heard at the start.
LEMMA TextInit ==
  ASSUME FeedInit
  PROVE  Texting /\ Deleting
<1>1. \A d \in Conns : job[d].at = "idle"
  BY StartIs DEF Idle
<1>2. \A c \in Conns : \A id : ~Heard(c, id)
  BY StartIs DEF Heard
<1>3. TextsFanned /\ NoneFanned
  BY <1>1 DEF TextsFanned, NoneFanned, Fans
<1> QED BY <1>2, <1>3 DEF Texting, Deleting

\* In a quiet state what was to come has come.
LEMMA LiveConvergesHolds ==
  ASSUME Types, SocketsKnown, Coming, Texting, Deleting
  PROVE  LiveConverges
<1> SUFFICES ASSUME Quiet, NEW u \in Users, u \notin lossy, Settled(u), NEW id \in Live(u)
             PROVE  /\ Entries(u, id) = {} => rows[id].gone \/ u \in full
                    /\ rows[id].user \notin lossy =>
                         \A i \in Entries(u, id) : win[u][i].text = Row(id).text
  BY DEF LiveConverges
<1>1. PICK c \in Conns : c = conn[u] /\ Owner[c] = u /\ Attached(c) /\ c \in room
  BY SocketOf DEF Settled
<1>2. down[c] = <<>> /\ (\A d \in Conns : job[d] = Idle) /\ broadcastQ = <<>>
  BY DEF Quiet
<1>3. \A d \in Conns : ~Fans(d, "message") /\ job[d].at = "idle"
  BY <1>2 DEF Fans, Idle
<1>4. \A p \in DOMAIN down[c] : FALSE
  BY <1>2
<1>5. id \in DOMAIN rows /\ id \notin had[c] /\ entered[c] < id
  <2>1. id \in DOMAIN rows /\ id \notin had[c] /\ id > Max({read[c], entered[c]})
    BY <1>1 DEF Live
  <2>2. read[c] \in Int /\ entered[c] \in Int /\ id \in Int
    BY <2>1, TypesAt
  <2>3. id > (IF read[c] >= entered[c] THEN read[c] ELSE entered[c])
    BY <2>1, <2>2, GreaterOf
  <2> QED BY <2>1, <2>2, <2>3
<1>6. ASSUME Entries(u, id) = {}, ~rows[id].gone, u \notin full
      PROVE  FALSE
  <2>1. ~Comes(c, id)
    <3>1. id \notin Ids(win[u])
      BY <1>6 DEF Entries, Ids
    <3>2. job[c].at # "answering"
      BY <1>3
    <3> QED BY <1>1, <1>4, <3>1, <3>2, ComesBy
  <2>2. LiveComes(c)
    BY <1>1, <1>6 DEF Coming
  <2> QED BY <1>1, <1>3, <1>5, <1>6, <2>1, <2>2 DEF LiveComes
<1>7. ASSUME rows[id].user \notin lossy, NEW i \in Entries(u, id)
      PROVE  win[u][i].text = Row(id).text
  <2>1. Heard(c, id)
    BY <1>1, <1>5, <1>7 DEF Heard
  <2>2. CASE rows[id].gone
    <3>1. DeletionComes(c, id)
      BY <1>5, <2>1, <2>2 DEF Deleting
    <3>2. id \in Ids(win[Owner[c]])
      BY <1>1, <1>7 DEF Entries, Ids
    <3>3. \A k \in DOMAIN broadcastQ : FALSE
      BY <1>2
    <3>4. \A p \in At(c, "delete") : FALSE
      BY <1>4 DEF At
    <3> QED BY <1>3, <3>1, <3>2, <3>3, <3>4 DEF DeletionComes
  <2>3. CASE ~rows[id].gone
    <3>1. TextComes(c, id)
      BY <1>5, <2>1, <2>3 DEF Texting
    <3>2. \A p \in Tellers(c, id) : FALSE
      BY <1>4 DEF Tellers
    <3>3. \A j \in Entries(Owner[c], id) : win[Owner[c]][j].text = rows[id].text
      BY <1>3, <3>1, <3>2 DEF TextComes
    <3>4. Row(id).text = rows[id].text
      BY <1>5, <2>3, TypesAt, RowTold
    <3> QED BY <1>1, <1>7, <3>3, <3>4
  <2> QED BY <2>2, <2>3
<1> QED BY <1>6, <1>7

-----------------------------------------------------------------------------

\* The invariant of the room's feed is inductive.
LEMMA FeedStep ==
  ASSUME FeedIInv, FeedNext
  PROVE  FeedIInv'
<1>0. /\ Types /\ SocketsKnown /\ Joins /\ Cids /\ Faithful /\ OwnEntries /\ Optimists /\ Once
      /\ InTurn /\ WindowOrder /\ Coming /\ Texting /\ Deleting
  BY DEF FeedIInv
<1>1. Types' /\ SocketsKnown' /\ Joins'
  BY <1>0, TypesStep, SocketsStep, JoinsStep
<1>2. Cids' /\ Faithful' /\ OwnEntries'
  BY <1>0, CidsStep, FaithfulStep, OwnStep
<1>3. Optimists' /\ Once'
  BY <1>0, OptimistsStep, OnceStep
<1>4. InTurn'
  BY <1>0, InTurnStep DEF Once
<1>5. WindowOrder' /\ Coming'
  BY <1>0, OrderStep, ComingStep
<1>6. Texting' /\ Deleting'
  BY <1>0, <1>1, TextingStep, DeletingStep
<1> QED BY <1>1, <1>2, <1>3, <1>4, <1>5, <1>6 DEF FeedIInv

\* A step that changes nothing keeps it.
LEMMA FeedStutter ==
  ASSUME FeedIInv, UNCHANGED feedVars
  PROVE  FeedIInv'
<1>1. /\ UNCHANGED <<rows, room, registerQ, broadcastQ, job, read, entered, had, up, down>>
      /\ UNCHANGED <<conn, used, joined, loaded, win, asked, full, guessed, lossy>>
  BY DEF feedVars, server, pages
<1>2. Types' /\ SocketsKnown' /\ Joins'
  BY <1>1 DEF FeedIInv, Types, SocketsKnown, Joins, Attached, Asks, At, Joining
<1>3. Cids'
  BY <1>1 DEF FeedIInv, Cids, Asks
<1>4. Faithful'
  <2>1. FaithCounts' /\ FaithWindows'
    BY <1>1 DEF FeedIInv, Faithful, FaithCounts, FaithWindows, Shows, IsRow
  <2>2. FaithFrames'
    BY SMTT(40), <1>1 DEF FeedIInv, Faithful, FaithFrames, Says, IsRow
  <2>3. FaithJobs'
    BY <1>1 DEF FeedIInv, Faithful, FaithJobs, Says, IsRow, Fans
  <2>4. FaithQueue' /\ FaithRequests'
    BY <1>1 DEF FeedIInv, Faithful, FaithQueue, FaithRequests, Asks
  <2> QED BY <2>1, <2>2, <2>3, <2>4 DEF Faithful
<1>5. OwnEntries' /\ Optimists'
  BY <1>1 DEF FeedIInv, OwnEntries, OwnOnce, OwnRows, OwnAsks, Optimists, Pending, Bound, Asks, At, Fans, Attached
<1>6. Once'
  BY <1>1 DEF FeedIInv, Once, OnceDown, OnceFan, OnceSeen, OnceOwn, NoTwice, At, Fans, Attached
<1>7. InTurn'
  BY <1>1 DEF FeedIInv, InTurn, RowsInTurn, AsksInTurn, FansInTurn, DownInTurn, Asks, At, Fans
<1>8. WindowOrder'
  BY SMTT(40), <1>1 DEF FeedIInv, WindowOrder, OthersInTurn, MineInTurn, MineMeet, Others, Mine, Live1, Cid, Asks, At, Fans, Attached
<1>9. Coming'
  BY <1>1 DEF FeedIInv, Coming, HistoryComes, LiveComes, Comes, Joining, Asks, At, Fans, Attached
<1>10. Texting'
  BY <1>1 DEF FeedIInv, Texting, TextsFanned, Heard, TextComes, Tellers, Entries
<1>11. Deleting'
  BY <1>1 DEF FeedIInv, Deleting, NoneFanned, Heard, DeletionComes, At, Fans
<1> QED BY <1>2, <1>3, <1>4, <1>5, <1>6, <1>7, <1>8, <1>9, <1>10, <1>11 DEF FeedIInv

\* The invariant of the room's feed.
THEOREM FeedInvariant == FeedSpec => []FeedIInv
<1>1. FeedInit => FeedIInv
  BY TypesInit, SocketsInit, FaithInit, OrderInit, TextInit DEF FeedIInv
<1>2. FeedIInv /\ [FeedNext]_feedVars => FeedIInv'
  BY FeedStep, FeedStutter
<1> QED BY <1>1, <1>2, PTL DEF FeedSpec

\* WindowInv: no page that lost nothing shows a message twice, or the live messages of an author who
\* kept one connection in another order than they were sent, unless an echo or a history met another
\* entry than its own (mergeMessageWindow.ts, chatStore.ts).
THEOREM WindowIsInOrder == FeedSpec => []WindowInv
<1>1. FeedIInv => WindowInv
  BY WindowHolds DEF FeedIInv
<1> QED BY <1>1, FeedInvariant, PTL

\* OptimisticSettles: an entry that the page showed at once has given way to the stored message once all
\* is quiet, but for what was stored in the gap of the join (useWebSocket.ts, mergeMessageWindow.ts, chat.go).
THEOREM OptimisticEntriesSettle == FeedSpec => []OptimisticSettles
<1>1. FeedIInv => OptimisticSettles
  BY OptimistsSettle DEF FeedIInv
<1> QED BY <1>1, FeedInvariant, PTL

\* CaughtUp: a page in the room misses none of the recent messages but those of the gap, unless its
\* window was full (handler/ws.go, hub.go, chatStore.ts).
THEOREM PagesCatchUp == FeedSpec => []CaughtUp
<1>1. FeedIInv => CaughtUp
  BY CaughtUpHolds DEF FeedIInv
<1> QED BY <1>1, FeedInvariant, PTL

\* LiveConverges: texts and deletions of what came live are in the end those of the store, although
\* edits go to the pages directly and deletions through the hub's channel (chat.go, hub.go, chatStore.ts).
THEOREM LivePagesConverge == FeedSpec => []LiveConverges
<1>1. FeedIInv => LiveConverges
  BY LiveConvergesHolds DEF FeedIInv
<1> QED BY <1>1, FeedInvariant, PTL

=============================================================================
