----------------------------- MODULE FeedProofs ------------------------------
(***************************************************************************)
(* Proofs about the websocket client of the page, ChatAPI, for any number  *)
(* of accounts, sockets and messages and any capacity of the queue; and the*)
(* first half of those about the room's feed, RoomFeed: the inductive      *)
(* invariant, the lemmas about the window, and the parts of the invariant  *)
(* that say what is on its way and what waits for it.                      *)
(***************************************************************************)
EXTENDS ChatAPI, RoomFeed, FiniteSetTheorems, WellFoundedInduction, TLAPS

(***************************************************************************)
(* The websocket client                                                    *)
(***************************************************************************)

Ascending(s) == \A i, j \in 1..Len(s) : i < j => s[i] < s[j]

\* What was sent ascends, what is queued ascends, and while a join is pending, after
\* which the queue goes out, what is queued is younger than what was sent.
Order ==
  /\ Ascending(sent) /\ Ascending(queue)
  /\ \A i \in 1..Len(sent) : sent[i] <= issued
  /\ \A j \in 1..Len(queue) : queue[j] <= issued
  /\ pending => \A i \in 1..Len(sent), j \in 1..Len(queue) : sent[i] < queue[j]

\* Only the latest socket is alive, and how far its join is goes with pendingJoin:
\* it is pending from the connect to the answer, and the queue is empty after it.
Sockets ==
  /\ ws \in {0, gen}
  /\ pending => ws = gen /\ gen # 0
  /\ \A g \in Gens :
       /\ g > gen => sock[g] = "none" /\ srv[g] = "idle"
       /\ sock[g] \in {"connecting", "open"} => g = ws
       /\ sock[g] = "connecting" => pending /\ srv[g] = "idle"
       /\ sock[g] = "open" => srv[g] \in IF pending THEN {"asked"} ELSE {"joined", "kicked"}
       /\ sock[g] = "open" /\ srv[g] = "joined" => queue = <<>>

ChatIInv == TypeOK /\ Order /\ Sockets

-----------------------------------------------------------------------------
(* The queue                                                               *)

\* A message after all others keeps the order.
LEMMA AscendingAppend ==
  ASSUME NEW s \in Seq(Nat), Ascending(s), NEW n \in Nat,
         \A i \in 1..Len(s) : s[i] < n
  PROVE  /\ Append(s, n) \in Seq(Nat) /\ Len(Append(s, n)) = Len(s) + 1
         /\ Ascending(Append(s, n))
         /\ \A i \in 1..Len(Append(s, n)) : \/ i \in 1..Len(s) /\ Append(s, n)[i] = s[i]
                                            \/ Append(s, n)[i] = n
<1>1. /\ Append(s, n) \in Seq(Nat) /\ Len(Append(s, n)) = Len(s) + 1 /\ Len(s) \in Nat
      /\ \A i \in 1..Len(s) : Append(s, n)[i] = s[i]
      /\ Append(s, n)[Len(s) + 1] = n
  OBVIOUS
<1>2. \A i \in 1..(Len(s) + 1) : i \in 1..Len(s) \/ i = Len(s) + 1
  BY <1>1
<1>3. Ascending(Append(s, n))
  BY <1>1, <1>2 DEF Ascending
<1> QED BY <1>1, <1>2, <1>3

\* Without its first message the queue is still in order.
LEMMA AscendingTail ==
  ASSUME NEW s \in Seq(Nat), Ascending(s), s # <<>>
  PROVE  /\ Tail(s) \in Seq(Nat) /\ Len(Tail(s)) = Len(s) - 1 /\ Ascending(Tail(s))
         /\ \A i \in 1..Len(Tail(s)) : i + 1 \in 1..Len(s) /\ Tail(s)[i] = s[i + 1]
<1>1. /\ Tail(s) \in Seq(Nat) /\ Len(Tail(s)) = Len(s) - 1 /\ Len(s) \in Nat
      /\ \A i \in 1..Len(Tail(s)) : Tail(s)[i] = s[i + 1]
  OBVIOUS
<1>2. Ascending(Tail(s))
  BY <1>1 DEF Ascending
<1> QED BY <1>1, <1>2

\* What is flushed follows what was sent.
LEMMA AscendingConcat ==
  ASSUME NEW s \in Seq(Nat), NEW q \in Seq(Nat), Ascending(s), Ascending(q),
         \A i \in 1..Len(s), j \in 1..Len(q) : s[i] < q[j]
  PROVE  /\ s \o q \in Seq(Nat) /\ Len(s \o q) = Len(s) + Len(q) /\ Ascending(s \o q)
         /\ \A i \in 1..Len(s \o q) :
              \/ i \in 1..Len(s) /\ (s \o q)[i] = s[i]
              \/ i - Len(s) \in 1..Len(q) /\ (s \o q)[i] = q[i - Len(s)]
<1>1. /\ s \o q \in Seq(Nat) /\ Len(s \o q) = Len(s) + Len(q)
      /\ Len(s) \in Nat /\ Len(q) \in Nat
      /\ \A i \in 1..(Len(s) + Len(q)) :
           (s \o q)[i] = IF i <= Len(s) THEN s[i] ELSE q[i - Len(s)]
  OBVIOUS
<1>2. ASSUME NEW i \in 1..Len(s \o q)
      PROVE  \/ i \in 1..Len(s) /\ (s \o q)[i] = s[i]
             \/ i - Len(s) \in 1..Len(q) /\ (s \o q)[i] = q[i - Len(s)]
  BY <1>1
<1>3. ASSUME NEW i \in 1..Len(s \o q), NEW j \in 1..Len(s \o q), i < j
      PROVE  (s \o q)[i] < (s \o q)[j]
  <2>1. CASE j <= Len(s)
    <3>1. i \in 1..Len(s) /\ j \in 1..Len(s)
      BY <1>1, <1>3, <2>1
    <3>2. (s \o q)[i] = s[i] /\ (s \o q)[j] = s[j]
      BY <1>1, <3>1
    <3> QED BY <1>3, <3>1, <3>2 DEF Ascending
  <2>2. CASE i <= Len(s) /\ j > Len(s)
    <3>1. i \in 1..Len(s) /\ j - Len(s) \in 1..Len(q)
      BY <1>1, <1>3, <2>2
    <3>2. (s \o q)[i] = s[i] /\ (s \o q)[j] = q[j - Len(s)]
      BY <1>1, <2>2, <3>1
    <3> QED BY <3>1, <3>2
  <2>3. CASE i > Len(s)
    <3>1. /\ i - Len(s) \in 1..Len(q) /\ j - Len(s) \in 1..Len(q)
          /\ i - Len(s) < j - Len(s)
      BY <1>1, <1>3, <2>3
    <3>2. (s \o q)[i] = q[i - Len(s)] /\ (s \o q)[j] = q[j - Len(s)]
      BY <1>1, <1>3, <2>3
    <3> QED BY <3>1, <3>2 DEF Ascending
  <2> QED BY <1>1, <2>1, <2>2, <2>3
<1> QED BY <1>1, <1>2, <1>3 DEF Ascending

\* A message that is queued goes to the end, and the oldest one may give way to it.
LEMMA QueuedOrder ==
  ASSUME TypeOK, Order, ChatAPIAssumption, issued < MaxMsgs
  PROVE  /\ Queued(issued + 1) \in Seq(1..MaxMsgs)
         /\ Len(Queued(issued + 1)) <= QueueCap /\ Ascending(Queued(issued + 1))
         /\ \A j \in 1..Len(Queued(issued + 1)) :
              \/ Queued(issued + 1)[j] = issued + 1
              \/ \E l \in 1..Len(queue) : Queued(issued + 1)[j] = queue[l]
<1> DEFINE kept == IF Len(queue) < QueueCap THEN queue ELSE Tail(queue)
           m == issued + 1
<1>1. /\ queue \in Seq(1..MaxMsgs) /\ queue \in Seq(Nat) /\ Len(queue) \in Nat
      /\ QueueCap \in Nat \ {0} /\ Len(queue) <= QueueCap
      /\ m \in 1..MaxMsgs /\ m \in Nat /\ Ascending(queue)
  <2>1. 1..MaxMsgs \subseteq Nat
    BY DEF ChatAPIAssumption
  <2> QED BY <2>1 DEF TypeOK, Order, ChatAPIAssumption
<1>2. /\ kept \in Seq(1..MaxMsgs) /\ kept \in Seq(Nat) /\ Len(kept) \in Nat
      /\ Len(kept) < QueueCap /\ Ascending(kept)
      /\ \A j \in 1..Len(kept) : \E l \in 1..Len(queue) : kept[j] = queue[l]
  <2>1. CASE Len(queue) < QueueCap
    BY <1>1, <2>1
  <2>2. CASE ~(Len(queue) < QueueCap)
    <3>1. queue # <<>> /\ kept = Tail(queue)
      BY <1>1, <2>2
    <3>2. Tail(queue) \in Seq(1..MaxMsgs)
      BY <1>1, <3>1
    <3>3. /\ Tail(queue) \in Seq(Nat) /\ Len(Tail(queue)) = Len(queue) - 1
          /\ Ascending(Tail(queue))
          /\ \A i \in 1..Len(Tail(queue)) :
               i + 1 \in 1..Len(queue) /\ Tail(queue)[i] = queue[i + 1]
      BY <1>1, <3>1, AscendingTail
    <3>4. Len(Tail(queue)) \in Nat /\ Len(Tail(queue)) < QueueCap
      BY <1>1, <2>2, <3>3
    <3>5. \A j \in 1..Len(Tail(queue)) : \E l \in 1..Len(queue) : Tail(queue)[j] = queue[l]
      BY <3>3
    <3> HIDE DEF kept
    <3> QED BY <3>1, <3>2, <3>3, <3>4, <3>5
  <2> QED BY <2>1, <2>2
<1>3. \A j \in 1..Len(kept) : kept[j] < m
  <2>1. \A l \in 1..Len(queue) : queue[l] <= issued /\ queue[l] \in Nat /\ issued \in Nat
    BY <1>1 DEF Order, TypeOK
  <2>2. ASSUME NEW j \in 1..Len(kept)
        PROVE  kept[j] < m
    <3>1. PICK l \in 1..Len(queue) : kept[j] = queue[l]
      BY <1>2
    <3> HIDE DEF kept
    <3> QED BY <2>1, <3>1
  <2> QED BY <2>2
<1> HIDE DEF kept, m
<1>4. /\ Append(kept, m) \in Seq(1..MaxMsgs) /\ Len(Append(kept, m)) = Len(kept) + 1
      /\ Ascending(Append(kept, m))
      /\ \A j \in 1..Len(Append(kept, m)) : \/ j \in 1..Len(kept) /\ Append(kept, m)[j] = kept[j]
                                            \/ Append(kept, m)[j] = m
  <2>1. Append(kept, m) \in Seq(1..MaxMsgs)
    BY <1>1, <1>2
  <2> QED BY <1>1, <1>2, <1>3, <2>1, AscendingAppend
<1>5. Queued(m) = Append(kept, m)
  BY DEF Queued, kept
<1>6. Len(Append(kept, m)) <= QueueCap
  BY <1>1, <1>2, <1>4
<1> QED BY <1>2, <1>4, <1>5, <1>6 DEF m

-----------------------------------------------------------------------------
(* The sockets                                                             *)

\* close() ends the socket that is this.ws, if it is alive.
LEMMA ClosingSocket ==
  ASSUME TypeOK
  PROVE  /\ Closing(sock) \in
              [Gens -> {"none", "connecting", "open", "failed", "closing", "closed"}]
         /\ \A g \in Gens :
              Closing(sock)[g] = IF g = ws /\ sock[g] \in {"connecting", "open"}
                                 THEN "closing" ELSE sock[g]
<1>1. ws \in Nat /\ (ws # 0 => ws \in Gens) /\ 0 \notin Gens
  BY DEF TypeOK, Gens
<1> QED BY <1>1 DEF TypeOK, Closing

\* A connect is the page's or a timer's; all else is no connect.
LEMMA Steps ==
  ASSUME TypeOK, [Next]_vars
  PROVE  \/ \E u, t \in Names \cup {NoName}, who \in {"page", "timer"} :
              /\ ConnectAs(u, t, who)
              /\ timer' \in {timer, NoName} /\ orphans' \subseteq orphans
              /\ failed' \in {failed, FALSE} /\ attempt' \in {attempt, attempt + 1}
         \/ Disconnect \/ Send
         \/ \E g \in Gens : SocketNext(g)
         \/ UNCHANGED vars
<1>1. ASSUME NEW u \in Names, NEW t \in Names \cup {NoName}, NEW who \in {"page", "timer"},
             ConnectAs(u, t, who),
             timer' \in {timer, NoName} /\ orphans' \subseteq orphans,
             failed' \in {failed, FALSE} /\ attempt' \in {attempt, attempt + 1}
      PROVE  \E u1, t1 \in Names \cup {NoName}, who1 \in {"page", "timer"} :
              /\ ConnectAs(u1, t1, who1)
              /\ timer' \in {timer, NoName} /\ orphans' \subseteq orphans
              /\ failed' \in {failed, FALSE} /\ attempt' \in {attempt, attempt + 1}
  BY <1>1
<1>2. ASSUME NEW u \in Names, Connect(u)
      PROVE  /\ ConnectAs(u, u, "page")
             /\ timer' \in {timer, NoName} /\ orphans' \subseteq orphans
             /\ failed' \in {failed, FALSE} /\ attempt' \in {attempt, attempt + 1}
  BY <1>2 DEF Connect
<1>3. ASSUME NEW u \in Names, ReconnectOrphan(u)
      PROVE  /\ ConnectAs(u, token, "timer")
             /\ timer' \in {timer, NoName} /\ orphans' \subseteq orphans
             /\ failed' \in {failed, FALSE} /\ attempt' \in {attempt, attempt + 1}
  BY <1>3 DEF ReconnectOrphan
<1>4. ASSUME Reconnect
      PROVE  /\ timer \in Names /\ ConnectAs(timer, token, "timer")
             /\ timer' \in {timer, NoName} /\ orphans' \subseteq orphans
             /\ failed' \in {failed, FALSE} /\ attempt' \in {attempt, attempt + 1}
  BY <1>4 DEF Reconnect, TypeOK
<1>5. token \in Names \cup {NoName}
  BY DEF TypeOK
<1> QED BY <1>1, <1>2, <1>3, <1>4, <1>5 DEF Next

\* What connect leaves.
LEMMA ConnectAsStep ==
  ASSUME ChatIInv, ChatAPIAssumption,
         NEW u \in Names \cup {NoName}, NEW t \in Names \cup {NoName},
         NEW who \in {"page", "timer"}, ConnectAs(u, t, who),
         timer' \in {timer, NoName}, orphans' \subseteq orphans,
         failed' \in {failed, FALSE}, attempt' \in {attempt, attempt + 1}
  PROVE  ChatIInv'
<1>1. /\ gen < MaxGen /\ gen' = gen + 1 /\ ws' = gen + 1 /\ pending' = TRUE /\ queue' = <<>>
      /\ sock' = [Closing(sock) EXCEPT ![gen + 1] = "connecting"]
      /\ by' = [by EXCEPT ![gen + 1] = who] /\ user' = u /\ token' = t
      /\ UNCHANGED <<srv, waiting, issued, sent>>
  BY DEF ConnectAs, Replaced
<1>2. gen \in Nat /\ MaxGen \in Nat /\ gen + 1 \in Gens /\ gen + 1 \in 0..MaxGen
  BY <1>1 DEF ChatIInv, TypeOK, ChatAPIAssumption, Gens
<1>3. \A g \in Gens : sock'[g] = IF g = gen + 1 THEN "connecting" ELSE Closing(sock)[g]
  BY <1>1, ClosingSocket DEF ChatIInv
<1>4. TypeOK'
  <2>1. sock' \in [Gens -> {"none", "connecting", "open", "failed", "closing", "closed"}]
    BY <1>1, ClosingSocket DEF ChatIInv
  <2>2. <<>> \in Seq(1..MaxMsgs) /\ Len(<<>>) = 0
    OBVIOUS
  <2>3. QueueCap \in Nat
    BY DEF ChatAPIAssumption
  <2>4. queue' \in Seq(1..MaxMsgs) /\ Len(queue') <= QueueCap
    BY <1>1, <2>2, <2>3
  <2>5. attempt' \in Nat /\ timer' \in Names \cup {NoName} /\ orphans' \in SUBSET Names
    BY DEF ChatIInv, TypeOK
  <2>8. failed' \in BOOLEAN
    BY DEF ChatIInv, TypeOK
  <2>6. /\ gen' \in 0..MaxGen /\ ws' \in 0..MaxGen
        /\ by' \in [Gens -> {"nobody", "page", "timer"}]
    BY <1>1, <1>2 DEF ChatIInv, TypeOK
  <2>7. /\ srv' \in [Gens -> {"idle", "asked", "joined", "refused", "kicked"}]
        /\ pending' \in BOOLEAN /\ waiting' \in BOOLEAN
        /\ user' \in Names \cup {NoName} /\ token' \in Names \cup {NoName}
        /\ issued' \in 0..MaxMsgs /\ sent' \in Seq(1..MaxMsgs)
    BY <1>1 DEF ChatIInv, TypeOK
  <2> QED BY <2>1, <2>4, <2>5, <2>6, <2>7, <2>8 DEF TypeOK
<1>5. Order'
  <2>1. Len(<<>>) = 0
    OBVIOUS
  <2> QED BY <1>1, <2>1 DEF ChatIInv, Order, Ascending
<1>6. Sockets'
  <2>1. ASSUME NEW g \in Gens
        PROVE  /\ g > gen' => sock'[g] = "none" /\ srv'[g] = "idle"
               /\ sock'[g] \in {"connecting", "open"} => g = ws'
               /\ sock'[g] = "connecting" => pending' /\ srv'[g] = "idle"
               /\ sock'[g] # "open"
    <3>1. g \in Nat
      BY DEF Gens
    <3>2. CASE g = gen + 1
      BY <1>1, <1>2, <1>3, <3>1, <3>2 DEF ChatIInv, Sockets
    <3>3. CASE g # gen + 1
      <4>1. sock'[g] = Closing(sock)[g] /\ sock'[g] \notin {"connecting", "open"}
        BY <1>3, <3>3, ClosingSocket DEF ChatIInv, Sockets
      <4>2. g > gen' => sock[g] = "none" /\ srv[g] = "idle"
        BY <1>1, <1>2, <3>1 DEF ChatIInv, Sockets
      <4> QED BY <1>1, <4>1, <4>2, ClosingSocket DEF ChatIInv
    <3> QED BY <3>2, <3>3
  <2> QED BY <1>1, <1>2, <2>1 DEF Sockets
<1> QED BY <1>4, <1>5, <1>6 DEF ChatIInv

LEMMA DisconnectStep ==
  ASSUME ChatIInv, ChatAPIAssumption, Disconnect
  PROVE  ChatIInv'
<1>1. /\ gen < MaxGen /\ gen' = gen + 1 /\ ws' = 0 /\ pending' = FALSE /\ queue' = <<>>
      /\ sock' = Closing(sock)
      /\ waiting' = FALSE /\ failed' = FALSE
      /\ user' = NoName /\ token' = NoName /\ timer' = NoName
      /\ UNCHANGED <<srv, by, attempt, orphans, issued, sent>>
  BY DEF Disconnect
<1>2. gen \in Nat /\ MaxGen \in Nat /\ gen + 1 \in 0..MaxGen
  BY <1>1 DEF ChatIInv, TypeOK, ChatAPIAssumption
<1>3. TypeOK'
  <2>1. <<>> \in Seq(1..MaxMsgs) /\ Len(<<>>) = 0
    OBVIOUS
  <2>2. QueueCap \in Nat
    BY DEF ChatAPIAssumption
  <2>3. queue' \in Seq(1..MaxMsgs) /\ Len(queue') <= QueueCap
    BY <1>1, <2>1, <2>2
  <2>4. gen' \in 0..MaxGen /\ ws' \in 0..MaxGen
    BY <1>1, <1>2
  <2>5. sock' \in [Gens -> {"none", "connecting", "open", "failed", "closing", "closed"}]
    BY <1>1, ClosingSocket DEF ChatIInv
  <2>6. /\ srv' \in [Gens -> {"idle", "asked", "joined", "refused", "kicked"}]
        /\ by' \in [Gens -> {"nobody", "page", "timer"}]
        /\ pending' \in BOOLEAN /\ waiting' \in BOOLEAN /\ failed' \in BOOLEAN
        /\ user' \in Names \cup {NoName} /\ token' \in Names \cup {NoName}
        /\ timer' \in Names \cup {NoName} /\ orphans' \in SUBSET Names
        /\ attempt' \in Nat
        /\ issued' \in 0..MaxMsgs /\ sent' \in Seq(1..MaxMsgs)
    BY <1>1 DEF ChatIInv, TypeOK
  <2> QED BY <2>3, <2>4, <2>5, <2>6 DEF TypeOK
<1>4. Order'
  <2>1. Len(<<>>) = 0
    OBVIOUS
  <2> QED BY <1>1, <2>1 DEF ChatIInv, Order, Ascending
<1>5. Sockets'
  <2>1. ASSUME NEW g \in Gens
        PROVE  /\ g > gen' => sock'[g] = "none" /\ srv'[g] = "idle"
               /\ sock'[g] \notin {"connecting", "open"}
    <3>1. sock'[g] \notin {"connecting", "open"}
      BY <1>1, ClosingSocket DEF ChatIInv, Sockets
    <3>2. g > gen' => sock[g] = "none" /\ srv[g] = "idle"
      BY <1>1, <1>2 DEF ChatIInv, Sockets, Gens
    <3> QED BY <1>1, <3>1, <3>2, ClosingSocket DEF ChatIInv
  <2> QED BY <1>1, <2>1 DEF Sockets
<1> QED BY <1>3, <1>4, <1>5 DEF ChatIInv

LEMMA SendStep ==
  ASSUME ChatIInv, ChatAPIAssumption, Send
  PROVE  /\ ChatIInv'
         /\ sent' # sent => srv'[ws'] \in {"joined", "kicked"}
<1> DEFINE m == issued + 1
<1>1. /\ issued < MaxMsgs /\ issued' = m
      /\ UNCHANGED <<gen, sock, srv, by, ws, pending, user, token, attempt, timer,
                     orphans, waiting, failed>>
  BY DEF Send, retry
<1>2. m \in 1..MaxMsgs /\ m \in Nat /\ issued \in Nat /\ issued < m /\ m \in 0..MaxMsgs
  BY <1>1 DEF ChatIInv, TypeOK, ChatAPIAssumption
<1>3. /\ sent \in Seq(1..MaxMsgs) /\ sent \in Seq(Nat) /\ Len(sent) \in Nat
      /\ queue \in Seq(1..MaxMsgs) /\ queue \in Seq(Nat) /\ Len(queue) \in Nat
      /\ \A i \in 1..Len(sent) : sent[i] \in Nat
      /\ \A j \in 1..Len(queue) : queue[j] \in Nat
  <2>1. 1..MaxMsgs \subseteq Nat
    BY DEF ChatAPIAssumption
  <2> QED BY <2>1 DEF ChatIInv, TypeOK
<1>4. \A i \in 1..Len(sent) : sent[i] < m
  BY <1>2, <1>3 DEF ChatIInv, Order
<1>5. CASE IsOpen /\ ~pending
  <2>1. sent' = Append(sent, m) /\ queue' = queue
    BY <1>5 DEF Send
  <2>2. ws \in Gens /\ sock[ws] = "open"
    BY <1>5 DEF IsOpen, ChatIInv, TypeOK, Gens
  <2>3. srv[ws] \in {"joined", "kicked"}
    BY <1>5, <2>2 DEF ChatIInv, Sockets
  <2>4. Append(sent, m) \in Seq(1..MaxMsgs)
    BY <1>2, <1>3
  <2>5. TypeOK'
    BY <1>1, <1>2, <2>1, <2>4 DEF ChatIInv, TypeOK
  <2>6. Order'
    <3>1. Append(sent, m) \in Seq(Nat) /\ Len(Append(sent, m)) = Len(sent) + 1
          /\ Ascending(Append(sent, m))
          /\ \A i \in 1..Len(Append(sent, m)) :
               (i \in 1..Len(sent) /\ Append(sent, m)[i] = sent[i]) \/ Append(sent, m)[i] = m
      BY <1>2, <1>3, <1>4, AscendingAppend DEF ChatIInv, Order
    <3>2. \A i \in 1..Len(Append(sent, m)) : Append(sent, m)[i] <= m
      BY <1>2, <1>3, <1>4, <3>1
    <3>3. \A j \in 1..Len(queue) : queue[j] <= m
      BY <1>2, <1>3 DEF ChatIInv, Order
    <3>4. Ascending(queue)
      BY DEF ChatIInv, Order
    <3> HIDE DEF m
    <3> QED BY <1>1, <1>5, <2>1, <3>1, <3>2, <3>3, <3>4 DEF Order, Ascending
  <2>7. Sockets'
    BY <1>1, <2>1 DEF ChatIInv, Sockets
  <2> QED BY <1>1, <2>3, <2>5, <2>6, <2>7 DEF ChatIInv
<1>6. CASE ~(IsOpen /\ ~pending)
  <2>1. sent' = sent /\ queue' = Queued(m)
    BY <1>6 DEF Send
  <2>2. /\ Queued(m) \in Seq(1..MaxMsgs) /\ Len(Queued(m)) <= QueueCap /\ Ascending(Queued(m))
        /\ \A j \in 1..Len(Queued(m)) :
             Queued(m)[j] = m \/ \E l \in 1..Len(queue) : Queued(m)[j] = queue[l]
    BY <1>1, QueuedOrder DEF ChatIInv
  <2>3. TypeOK'
    BY <1>1, <1>2, <2>1, <2>2 DEF ChatIInv, TypeOK
  <2>4. Order'
    <3>1. ASSUME NEW j \in 1..Len(Queued(m))
          PROVE  /\ Queued(m)[j] <= m
                 /\ pending => \A i \in 1..Len(sent) : sent[i] < Queued(m)[j]
      <4>1. CASE Queued(m)[j] = m
        BY <1>2, <1>4, <4>1
      <4>2. ASSUME NEW l \in 1..Len(queue), Queued(m)[j] = queue[l]
            PROVE  /\ Queued(m)[j] <= m
                   /\ pending => \A i \in 1..Len(sent) : sent[i] < Queued(m)[j]
        <5>1. queue[l] <= issued /\ queue[l] \in Nat
          BY <1>3 DEF ChatIInv, Order
        <5>2. pending => \A i \in 1..Len(sent) : sent[i] < queue[l]
          BY DEF ChatIInv, Order
        <5> QED BY <1>2, <4>2, <5>1, <5>2
      <4> QED BY <2>2, <4>1, <4>2
    <3>2. Ascending(sent) /\ \A i \in 1..Len(sent) : sent[i] <= m
      BY <1>2, <1>3, <1>4 DEF ChatIInv, Order
    <3> HIDE DEF m
    <3> QED BY <1>1, <2>1, <2>2, <3>1, <3>2 DEF Order, Ascending
  <2>5. Sockets'
    <3>1. ASSUME NEW g \in Gens, sock[g] = "open", srv[g] = "joined"
          PROVE  FALSE
      <4>1. g = ws /\ ~pending /\ g # 0
        BY <3>1 DEF ChatIInv, Sockets, Gens
      <4> QED BY <1>6, <3>1, <4>1 DEF IsOpen
    <3> QED BY <1>1, <2>1, <3>1 DEF ChatIInv, Sockets
  <2> QED BY <2>1, <2>3, <2>4, <2>5 DEF ChatIInv
<1> QED BY <1>5, <1>6

-----------------------------------------------------------------------------
(* The events of a socket                                                  *)

\* What this.ws is when a join is pending, or a socket alive.
LEMMA LatestSocket ==
  ASSUME ChatIInv, NEW g \in Gens
  PROVE  /\ sock[g] \in {"connecting", "open"} => ws = g /\ gen = g
         /\ pending => gen = ws /\ gen \in Gens
<1>1. gen \in Nat /\ (gen # 0 => gen \in Gens) /\ g # 0
  BY DEF ChatIInv, TypeOK, Gens
<1> QED BY <1>1 DEF ChatIInv, Sockets

\* The events that leave the messages alone keep their order.
LEMMA OrderKept ==
  ASSUME ChatIInv, UNCHANGED messages, pending' => pending
  PROVE  Order'
BY DEF ChatIInv, Order, Ascending, messages

LEMMA OpenStep ==
  ASSUME ChatIInv, NEW g \in Gens, Open(g)
  PROVE  ChatIInv'
<1>1. /\ sock[g] = "connecting" /\ sock' = [sock EXCEPT ![g] = "open"]
      /\ UNCHANGED <<gen, by, ws, pending, user, token, timer, orphans, waiting, failed>>
      /\ UNCHANGED messages
  BY DEF Open
<1>2. pending /\ srv[g] = "idle"
  BY <1>1 DEF ChatIInv, Sockets
<1>3. attempt' = 0 /\ srv' = [srv EXCEPT ![g] = "asked"]
  BY <1>2 DEF Open
<1>4. TypeOK'
  BY <1>1, <1>3 DEF ChatIInv, TypeOK, messages
<1>5. Sockets'
  <2>1. ws = g /\ gen = g
    BY <1>1, LatestSocket
  <2>2. ASSUME NEW h \in Gens
        PROVE  /\ sock'[h] = IF h = g THEN "open" ELSE sock[h]
               /\ srv'[h] = IF h = g THEN "asked" ELSE srv[h]
    BY <1>1, <1>3 DEF ChatIInv, TypeOK
  <2>3. \A h \in Gens : h > gen => h # g
    BY <2>1 DEF Gens
  <2> QED BY <1>1, <1>2, <2>1, <2>2, <2>3 DEF ChatIInv, Sockets, messages
<1> QED BY <1>1, <1>4, <1>5, OrderKept DEF ChatIInv

\* The queue goes out behind what was sent.
LEMMA HistoryStep ==
  ASSUME ChatIInv, ChatAPIAssumption, NEW g \in Gens, History(g)
  PROVE  /\ ChatIInv'
         /\ srv'[ws'] = "joined"
         /\ gen = g /\ srv'[g] # srv[g] /\ sock'[g] = "open"
<1>1. /\ sock[g] = "open" /\ srv[g] = "asked" /\ g = gen /\ pending
      /\ srv' = [srv EXCEPT ![g] = "joined"] /\ pending' = FALSE
      /\ sent' = sent \o queue /\ queue' = <<>> /\ waiting' = FALSE
      /\ UNCHANGED <<gen, sock, by, ws, user, token, attempt, timer, orphans, failed, issued>>
  BY DEF History, Flush, Current
<1>2. ws = g
  BY <1>1, LatestSocket
<1>3. \A h \in Gens : srv'[h] = IF h = g THEN "joined" ELSE srv[h]
  BY <1>1 DEF ChatIInv, TypeOK
<1>4. /\ sent \in Seq(1..MaxMsgs) /\ sent \in Seq(Nat) /\ Len(sent) \in Nat
      /\ queue \in Seq(1..MaxMsgs) /\ queue \in Seq(Nat) /\ Len(queue) \in Nat
      /\ issued \in Nat /\ Len(<<>>) = 0
  <2>1. 1..MaxMsgs \subseteq Nat /\ Len(<<>>) = 0
    BY DEF ChatAPIAssumption
  <2> QED BY <2>1 DEF ChatIInv, TypeOK
<1>5. TypeOK'
  <2>1. sent \o queue \in Seq(1..MaxMsgs)
    BY <1>4
  <2>2. <<>> \in Seq(1..MaxMsgs) /\ Len(<<>>) <= QueueCap
    BY <1>4 DEF ChatAPIAssumption
  <2>3. srv' \in [Gens -> {"idle", "asked", "joined", "refused", "kicked"}]
    BY <1>1 DEF ChatIInv, TypeOK
  <2> QED BY <1>1, <2>1, <2>2, <2>3 DEF ChatIInv, TypeOK
<1>6. Order'
  <2>1. \A i \in 1..Len(sent), j \in 1..Len(queue) : sent[i] < queue[j]
    BY <1>1 DEF ChatIInv, Order
  <2>2. /\ Ascending(sent \o queue) /\ Len(sent \o queue) = Len(sent) + Len(queue)
        /\ \A i \in 1..Len(sent \o queue) :
             \/ i \in 1..Len(sent) /\ (sent \o queue)[i] = sent[i]
             \/ i - Len(sent) \in 1..Len(queue) /\ (sent \o queue)[i] = queue[i - Len(sent)]
    BY <1>4, <2>1, AscendingConcat DEF ChatIInv, Order
  <2>3. /\ \A i \in 1..Len(sent) : sent[i] <= issued
        /\ \A j \in 1..Len(queue) : queue[j] <= issued
    BY DEF ChatIInv, Order
  <2>4. \A i \in 1..Len(sent \o queue) : (sent \o queue)[i] <= issued
    BY <2>2, <2>3
  <2> QED BY SMTT(40), <1>1, <1>4, <2>2, <2>4 DEF Order, Ascending
<1>7. Sockets'
  <2>1. \A h \in Gens : h > gen => h # g
    BY <1>1 DEF Gens
  <2> QED BY <1>1, <1>2, <1>3, <2>1 DEF ChatIInv, Sockets
<1> QED BY <1>1, <1>2, <1>3, <1>5, <1>6, <1>7 DEF ChatIInv

LEMMA JoinErrorStep ==
  ASSUME ChatIInv, NEW g \in Gens, JoinError(g)
  PROVE  /\ ChatIInv'
         /\ gen = g /\ srv'[g] # srv[g] /\ sock'[g] = "closing"
<1>1. /\ sock[g] = "open" /\ srv[g] = "asked" /\ g = gen /\ pending
      /\ srv' = [srv EXCEPT ![g] = "refused"] /\ pending' = FALSE
      /\ sock' = Closing(sock)
      /\ UNCHANGED <<gen, by, ws, user, token, attempt, timer, orphans, waiting, failed>>
      /\ UNCHANGED messages
  BY DEF JoinError, Current, retry
<1>2. ws = g
  BY <1>1, LatestSocket
<1>3. \A h \in Gens : srv'[h] = IF h = g THEN "refused" ELSE srv[h]
  BY <1>1 DEF ChatIInv, TypeOK
<1>4. TypeOK'
  BY <1>1, ClosingSocket DEF ChatIInv, TypeOK, messages
<1>5. \A h \in Gens : /\ sock'[h] = IF h = g THEN "closing" ELSE sock[h]
                      /\ sock'[h] \notin {"connecting", "open"}
  BY <1>1, <1>2, ClosingSocket DEF ChatIInv, Sockets
<1>6. Sockets'
  <2>1. \A h \in Gens : h > gen => h # g
    BY <1>1 DEF Gens
  <2> QED BY <1>1, <1>2, <1>3, <1>5, <2>1 DEF ChatIInv, Sockets, messages
<1> QED BY <1>1, <1>3, <1>4, <1>5, <1>6, OrderKept DEF ChatIInv

LEMMA KickedJoiningStep ==
  ASSUME ChatIInv, NEW g \in Gens, KickedJoining(g)
  PROVE  /\ ChatIInv'
         /\ gen = g /\ srv'[g] # srv[g] /\ sock'[g] = "open"
<1>1. /\ sock[g] = "open" /\ srv[g] = "asked" /\ g = gen /\ pending
      /\ srv' = [srv EXCEPT ![g] = "kicked"] /\ pending' = FALSE
      /\ UNCHANGED <<gen, sock, by, ws, user, token, attempt, timer, orphans, waiting, failed>>
      /\ UNCHANGED messages
  BY DEF KickedJoining, Current, retry
<1>2. ws = g
  BY <1>1, LatestSocket
<1>3. \A h \in Gens : srv'[h] = IF h = g THEN "kicked" ELSE srv[h]
  BY <1>1 DEF ChatIInv, TypeOK
<1>4. TypeOK'
  BY <1>1 DEF ChatIInv, TypeOK, messages
<1>5. Sockets'
  <2>1. \A h \in Gens : h > gen => h # g
    BY <1>1 DEF Gens
  <2> QED BY <1>1, <1>2, <1>3, <2>1 DEF ChatIInv, Sockets, messages
<1> QED BY <1>1, <1>3, <1>4, <1>5, OrderKept DEF ChatIInv

\* onclose and onerror end a socket, and a join that is pending on it.
LEMMA EndStep ==
  ASSUME ChatIInv, NEW g \in Gens, NEW last \in {"closed", "failed"},
         sock[g] \notin {"none", "closed"}, sock[g] # last,
         sock' = [sock EXCEPT ![g] = last], pending' = (pending /\ g # gen),
         UNCHANGED <<gen, srv, by, ws, user, token, attempt>>, UNCHANGED messages,
         timer' \in {timer, user}, orphans' \in SUBSET Names,
         waiting' \in BOOLEAN, failed' \in BOOLEAN
  PROVE  /\ ChatIInv'
         /\ pending /\ ~pending' => gen = g /\ sock'[g] = last /\ sock'[g] # sock[g]
<1>1. \A h \in Gens : sock'[h] = IF h = g THEN last ELSE sock[h]
  BY DEF ChatIInv, TypeOK
<1>2. TypeOK'
  <2>1. /\ sock' \in [Gens -> {"none", "connecting", "open", "failed", "closing", "closed"}]
        /\ timer' \in Names \cup {NoName} /\ pending' \in BOOLEAN
    BY DEF ChatIInv, TypeOK
  <2> QED BY <2>1 DEF ChatIInv, TypeOK, messages
<1>3. Sockets'
  <2>1. \A h \in Gens : sock[h] \in {"connecting", "open"} /\ h # g => (pending' <=> pending)
    <3>1. ASSUME NEW h \in Gens, sock[h] \in {"connecting", "open"}, h # g
          PROVE  gen = h
      BY <3>1, LatestSocket
    <3> QED BY <3>1
  <2>2. g > gen => FALSE
    BY DEF ChatIInv, Sockets
  <2> QED BY <1>1, <2>1, <2>2 DEF ChatIInv, Sockets, messages
<1> QED BY <1>1, <1>2, <1>3, OrderKept DEF ChatIInv

LEMMA CloseStep ==
  ASSUME ChatIInv, NEW g \in Gens, Close(g)
  PROVE  /\ ChatIInv'
         /\ pending /\ ~pending' => gen = g /\ sock'[g] = "closed" /\ sock'[g] # sock[g]
<1>1. /\ sock[g] \in {"open", "closing", "failed"} /\ sock' = [sock EXCEPT ![g] = "closed"]
      /\ UNCHANGED <<gen, srv, by, ws, user, token, attempt>> /\ UNCHANGED messages
  BY DEF Close
<1>2. pending' = (pending /\ g # gen)
  BY DEF Close, Current, ChatIInv, TypeOK
<1>3. /\ timer' \in {timer, user} /\ orphans' \in SUBSET Names
      /\ waiting' \in BOOLEAN /\ failed' \in BOOLEAN
  <2>1. /\ timer \in Names \cup {NoName} /\ orphans \in SUBSET Names
        /\ waiting \in BOOLEAN /\ failed \in BOOLEAN
    BY DEF ChatIInv, TypeOK
  <2>2. CASE UNCHANGED <<timer, orphans, waiting, failed>>
    BY <2>1, <2>2
  <2>3. CASE AttemptReconnect
    BY <2>1, <2>3 DEF AttemptReconnect
  <2> QED BY <2>2, <2>3 DEF Close
<1> QED BY <1>1, <1>2, <1>3, EndStep

LEMMA ErrorStep ==
  ASSUME ChatIInv, NEW g \in Gens, Error(g)
  PROVE  /\ ChatIInv'
         /\ pending /\ ~pending' => gen = g /\ sock'[g] = "failed" /\ sock'[g] # sock[g]
<1>1. /\ sock[g] \in {"connecting", "open", "closing"}
      /\ sock' = [sock EXCEPT ![g] = "failed"]
      /\ pending' = (pending /\ g # gen)
      /\ UNCHANGED <<gen, srv, by, ws, user, token, attempt>> /\ UNCHANGED messages
      /\ UNCHANGED <<timer, orphans, waiting, failed>>
  BY DEF Error, Current, retry
<1>2. /\ timer' \in {timer, user} /\ orphans' \in SUBSET Names
      /\ waiting' \in BOOLEAN /\ failed' \in BOOLEAN
  BY <1>1 DEF ChatIInv, TypeOK
<1> QED BY <1>1, <1>2, EndStep

LEMMA TimeOutStep ==
  ASSUME ChatIInv, NEW g \in Gens, TimeOut(g)
  PROVE  /\ ChatIInv'
         /\ gen = g /\ sock'[g] = "closing" /\ sock'[g] # sock[g]
<1>1. /\ sock[g] = "connecting" /\ g = gen /\ pending /\ pending' = FALSE
      /\ sock' = Closing(sock)
      /\ UNCHANGED <<gen, srv, by, ws, user, token, attempt, timer, orphans, waiting, failed>>
      /\ UNCHANGED messages
  BY DEF TimeOut, Current, retry
<1>2. ws = g
  BY <1>1, LatestSocket
<1>3. TypeOK'
  BY <1>1, ClosingSocket DEF ChatIInv, TypeOK, messages
<1>4. \A h \in Gens : /\ sock'[h] = IF h = g THEN "closing" ELSE sock[h]
                      /\ sock'[h] \notin {"connecting", "open"}
  BY <1>1, <1>2, ClosingSocket DEF ChatIInv, Sockets
<1>5. Sockets'
  <2>1. \A h \in Gens : h > gen => h # g
    BY <1>1 DEF Gens
  <2> QED BY <1>1, <1>2, <1>4, <2>1 DEF ChatIInv, Sockets, messages
<1> QED BY <1>1, <1>3, <1>4, <1>5, OrderKept DEF ChatIInv

-----------------------------------------------------------------------------
(* Theorems                                                                *)

LEMMA ChatIInvInit ==
  ASSUME Init, ChatAPIAssumption
  PROVE  ChatIInv
<1>1. <<>> \in Seq(1..MaxMsgs) /\ Len(<<>>) = 0
  OBVIOUS
<1>2. TypeOK
  <2>1. /\ sock \in [Gens -> {"none", "connecting", "open", "failed", "closing", "closed"}]
        /\ srv \in [Gens -> {"idle", "asked", "joined", "refused", "kicked"}]
        /\ by \in [Gens -> {"nobody", "page", "timer"}]
    BY DEF Init
  <2>2. queue \in Seq(1..MaxMsgs) /\ Len(queue) <= QueueCap /\ sent \in Seq(1..MaxMsgs)
    BY <1>1 DEF Init, ChatAPIAssumption
  <2>3. /\ gen \in 0..MaxGen /\ ws \in 0..MaxGen /\ attempt \in Nat /\ issued \in 0..MaxMsgs
    BY DEF Init, ChatAPIAssumption
  <2>4. /\ pending \in BOOLEAN /\ waiting \in BOOLEAN /\ failed \in BOOLEAN
        /\ user \in Names \cup {NoName} /\ token \in Names \cup {NoName}
        /\ timer \in Names \cup {NoName} /\ orphans \in SUBSET Names
    BY DEF Init
  <2> QED BY <2>1, <2>2, <2>3, <2>4 DEF TypeOK
<1>3. Order /\ Sockets
  BY <1>1 DEF Init, Order, Ascending, Sockets
<1> QED BY <1>2, <1>3 DEF ChatIInv

\* What every step keeps, and what it may do to the messages and the join.
LEMMA ChatStep ==
  ASSUME ChatIInv, ChatAPIAssumption, [Next]_vars
  PROVE  /\ ChatIInv'
         /\ sent' # sent => srv'[ws'] \in {"joined", "kicked"}
         /\ pending /\ ~pending' /\ gen' = gen =>
              sock'[gen] # "connecting" /\ (sock'[gen] # sock[gen] \/ srv'[gen] # srv[gen])
<1>0. gen \in Nat
  BY DEF ChatIInv, TypeOK
<1>1. ASSUME NEW u \in Names \cup {NoName}, NEW t \in Names \cup {NoName},
             NEW who \in {"page", "timer"}, ConnectAs(u, t, who),
             timer' \in {timer, NoName}, orphans' \subseteq orphans,
             failed' \in {failed, FALSE}, attempt' \in {attempt, attempt + 1}
      PROVE  ChatIInv' /\ sent' = sent /\ gen' # gen
  <2>1. ChatIInv'
    BY <1>1, ConnectAsStep
  <2>2. sent' = sent /\ gen' = gen + 1
    BY <1>1 DEF ConnectAs
  <2> QED BY <1>0, <2>1, <2>2
<1>2. ASSUME Disconnect
      PROVE  ChatIInv' /\ sent' = sent /\ gen' # gen
  <2>1. ChatIInv'
    BY <1>2, DisconnectStep
  <2>2. sent' = sent /\ gen' = gen + 1
    BY <1>2 DEF Disconnect
  <2> QED BY <1>0, <2>1, <2>2
<1>3. ASSUME Send
      PROVE  /\ ChatIInv' /\ pending' = pending
             /\ sent' # sent => srv'[ws'] \in {"joined", "kicked"}
  BY <1>3, SendStep DEF Send
<1>4. ASSUME NEW g \in Gens, SocketNext(g), ~Disconnect
      PROVE  /\ ChatIInv'
             /\ sent' # sent => srv'[ws'] \in {"joined", "kicked"}
             /\ pending /\ ~pending' =>
                  /\ gen = g /\ sock'[g] # "connecting"
                  /\ sock'[g] # sock[g] \/ srv'[g] # srv[g]
  <2>1. CASE Open(g)
    BY <2>1, OpenStep DEF Open, messages
  <2>2. CASE History(g)
    BY <2>2, HistoryStep
  <2>3. CASE JoinError(g)
    BY <2>3, JoinErrorStep DEF JoinError, messages
  <2>4. CASE KickedJoining(g)
    BY <2>4, KickedJoiningStep DEF KickedJoining, messages
  <2>5. CASE Close(g)
    BY <2>5, CloseStep DEF Close, messages
  <2>6. CASE Error(g)
    BY <2>6, ErrorStep DEF Error, messages
  <2>7. CASE TimeOut(g)
    BY <2>7, TimeOutStep DEF TimeOut, messages
  <2> QED BY <1>4, <2>1, <2>2, <2>3, <2>4, <2>5, <2>6, <2>7 DEF SocketNext, Kicked
<1>5. ASSUME UNCHANGED vars
      PROVE  ChatIInv' /\ sent' = sent /\ pending' = pending
  BY <1>5 DEF vars, retry, messages, ChatIInv, TypeOK, Order, Ascending, Sockets
<1>6. CASE \E u, t \in Names \cup {NoName}, who \in {"page", "timer"} :
              /\ ConnectAs(u, t, who)
              /\ timer' \in {timer, NoName} /\ orphans' \subseteq orphans
              /\ failed' \in {failed, FALSE} /\ attempt' \in {attempt, attempt + 1}
  <2>1. ChatIInv' /\ sent' = sent /\ gen' # gen
    BY <1>1, <1>6
  <2> QED BY <2>1
<1>7. CASE Disconnect
  BY <1>2, <1>7
<1>8. CASE Send
  BY <1>3, <1>8
<1>9. CASE (\E g \in Gens : SocketNext(g)) /\ ~Disconnect
  <2>1. PICK g \in Gens : SocketNext(g)
    BY <1>9
  <2>2. /\ ChatIInv'
        /\ sent' # sent => srv'[ws'] \in {"joined", "kicked"}
        /\ pending /\ ~pending' =>
             /\ gen = g /\ sock'[g] # "connecting"
             /\ sock'[g] # sock[g] \/ srv'[g] # srv[g]
    BY <1>4, <1>9, <2>1
  <2> QED BY <2>2
<1>10. CASE UNCHANGED vars
  BY <1>5, <1>10
<1>11. TypeOK
  BY DEF ChatIInv
<1> QED BY <1>6, <1>7, <1>8, <1>9, <1>10, <1>11, Steps

LEMMA ChatIInvHolds == Spec => []ChatIInv
<1>1. Init => ChatIInv
  BY ChatAPIAssumption, ChatIInvInit
<1>2. ChatIInv /\ [Next]_vars => ChatIInv'
  BY ChatAPIAssumption, ChatStep
<1> QED BY <1>1, <1>2, PTL DEF Spec

\* Messages leave in the order they were typed, none twice, and none is left behind
\* by a connection that has joined, whatever is dropped, retried and logged out
\* (api.ts 262, 420-434).
THEOREM QueueKept == Spec => []QueueInv
<1>1. ChatIInv => QueueInv
  <2>1. ASSUME ChatIInv
        PROVE  InOrder
    BY <2>1 DEF ChatIInv, Order, Ascending, InOrder
  <2>2. ASSUME ChatIInv, IsOpen, srv[ws] = "joined"
        PROVE  queue = <<>>
    <3>1. ws \in Gens /\ sock[ws] = "open"
      BY <2>2 DEF IsOpen, ChatIInv, TypeOK, Gens
    <3> QED BY <2>2, <3>1 DEF ChatIInv, Sockets
  <2> QED BY <2>1, <2>2 DEF QueueInv, NothingStranded, ChatIInv
<1> QED BY <1>1, ChatIInvHolds, PTL

\* At most one socket is alive, and it is this.ws (api.ts 261).
THEOREM SocketIsUnique == Spec => []OneSocket
<1>1. ChatIInv => OneSocket
  BY DEF ChatIInv, Sockets, OneSocket
<1> QED BY <1>1, ChatIInvHolds, PTL

\* Nothing but the join goes out on a socket before its join is answered (api.ts 411).
THEOREM JoinGoesFirst == Spec => JoinFirst
<1>1. ChatIInv /\ [Next]_vars => [sent' # sent => srv'[ws'] \in {"joined", "kicked"}]_vars
  BY ChatAPIAssumption, ChatStep
<1> QED BY <1>1, ChatIInvHolds, PTL DEF Spec, JoinFirst

\* A join ends by an event of its own socket (api.ts 281 and 341: the generations).
THEOREM JoinsEndByThemselves == Spec => JoinOnlyByOwnSocket
<1>1. ChatIInv /\ [Next]_vars =>
        [pending /\ ~pending' /\ gen' = gen
           => sock'[gen] # "connecting" /\ (sock'[gen] # sock[gen] \/ srv'[gen] # srv[gen])]_vars
  BY ChatAPIAssumption, ChatStep
<1> QED BY <1>1, ChatIInvHolds, PTL DEF Spec, JoinOnlyByOwnSocket
(***************************************************************************)
(* Requests, frames and what goroutines are doing                          *)
(***************************************************************************)

\* Requests of a page.
Requests ==
  [kind : {"join"}] \cup [kind : {"message"}, cid : Int, text : Texts]
  \cup [kind : {"edit"}, id : Int, text : Edits] \cup [kind : {"delete"}, id : Int]
  \cup [kind : {"load"}, before : Nat]

\* A text, or that of a deleted message.
TextOrNone == Texts \cup Edits \cup {""}

\* Messages as they are told to pages.
Told == [id : Int, cid : Int, user : Users, text : TextOrNone]

\* Frames of each kind.
Histories == [kind : {"history"}, messages : Seq(Told)]
Deletions == [kind : {"delete"}, id : Int]
Tidings == [kind : {"message"}, message : Told] \cup [kind : {"edit"}, id : Int, text : TextOrNone]
Frames == Histories \cup Deletions \cup Tidings

\* What a goroutine may be doing.
Jobs ==
  {Idle} \cup [at : {"greeting"}] \cup [at : {"answering"}, frame : Histories]
  \cup [at : {"fanning"}, frame : Tidings] \cup [at : {"publishing"}, frame : Deletions]

\* Rows of the store.
RowType == [cid : Int, user : Users, text : Texts \cup Edits, gone : BOOLEAN]

\* The types of the variables, without the bounds of the model.
Types ==
  /\ rows \in Seq(RowType) /\ room \subseteq Conns
  /\ registerQ \in Seq(Conns) /\ broadcastQ \in Seq(Deletions) /\ Len(broadcastQ) <= ChanCap
  /\ job \in [Conns -> Jobs]
  /\ up \in [Conns -> Seq(Requests)] /\ down \in [Conns -> Seq(Frames)]
  /\ conn \in [Users -> Conns \cup {None}] /\ used \subseteq Conns
  /\ joined \in [Users -> BOOLEAN] /\ loaded \in [Users -> BOOLEAN]
  /\ win \in [Users -> Seq(Told)]
  /\ asked \in 0..MaxAsked
  /\ read \in [Conns -> Nat] /\ entered \in [Conns -> Nat]
  /\ had \in [Conns -> SUBSET Int]
  /\ full \subseteq Users /\ guessed \subseteq Users /\ lossy \subseteq Users

\* The connection is the one its page has.
Attached(c) == conn[Owner[c]] = c

\* Frames of a connection on their way, by kind.
At(c, kind) == {p \in DOMAIN down[c] : down[c][p].kind = kind}

\* The goroutine is fanning a message, or an edit.
Fans(c, kind) == job[c].at = "fanning" /\ job[c].frame.kind = kind

(***************************************************************************)
(* SocketsKnown                                                                 *)
(***************************************************************************)

\* Requests of a connection on their way, by kind.
Asks(c, kind) == {p \in DOMAIN up[c] : up[c][p].kind = kind}

\* Who has a socket: what is not the connection of a page is empty, and a user who lost nothing has
\* the only connection that was opened.
SocketsKnown ==
  /\ \A u \in Users : conn[u] # None => conn[u] \in used /\ Owner[conn[u]] = u
  /\ \A c \in Conns \ used : job[c] = Idle /\ c \notin ToSet(registerQ) /\ entered[c] = 0
  /\ \A c \in Conns : ~Attached(c) => up[c] = <<>> /\ down[c] = <<>> /\ c \notin room
  /\ \A c \in used : Owner[c] \notin lossy => Attached(c)
  /\ \A u \in Users : u \notin lossy /\ conn[u] = None => win[u] = <<>>

\* The join of the connection is still to be answered.
Joining(c) == Asks(c, "join") # {} \/ job[c].at = "greeting"

\* A connection is entered into the room after its join, once, and its page has no own message before.
Joins ==
  /\ \A c \in Conns : Asks(c, "join") # {} =>
       job[c] = Idle /\ c \notin room /\ c \notin ToSet(registerQ) /\ entered[c] = 0
  /\ \A c \in Conns : Attached(c) /\ ~joined[Owner[c]] =>
       /\ \A p \in DOMAIN up[c] : p = 1 /\ up[c][p].kind = "join"
       /\ job[c].at \in {"idle", "greeting", "answering"}
       /\ Owner[c] \notin lossy => \A k \in Ids(win[Owner[c]]) : k > 0
  /\ \A c \in Conns : Attached(c) /\ Joining(c) =>
       ~joined[Owner[c]] /\ At(c, "history") = {}
  /\ \A i, j \in DOMAIN registerQ : registerQ[i] = registerQ[j] => i = j
  /\ \A c \in ToSet(registerQ) : c \notin room
  /\ \A c \in Conns : Attached(c) /\ Owner[c] \notin lossy /\ Asks(c, "join") = {} =>
       c \in room \/ c \in ToSet(registerQ)

(***************************************************************************)
(* The store and what is said of it                                        *)
(***************************************************************************)

\* Ids that pages gave to messages.
Cids ==
  /\ Len(Stored) <= Len(rows)
  /\ \A i \in DOMAIN rows : rows[i].cid \in (-asked)..0 /\ (rows[i].cid = 0 <=> i <= Len(Stored))
  /\ \A i, j \in DOMAIN rows : rows[i].cid # 0 /\ rows[i].cid = rows[j].cid => i = j
  /\ \A c \in Conns : \A p \in Asks(c, "message") :
       /\ up[c][p].cid \in (-asked)..(-1)
       /\ \A i \in DOMAIN rows : rows[i].cid # up[c][p].cid
       /\ \A d \in Conns : \A q \in Asks(d, "message") :
            up[d][q].cid = up[c][p].cid => c = d /\ p = q

\* A message that is told is one of the store, and says whose it is.
IsRow(m) == m.id \in DOMAIN rows /\ m.user = rows[m.id].user

\* What a frame for the connection says is true.
Says(c, f) ==
  /\ f.kind = "message" =>
       LET m == f.message IN IsRow(m) /\ m.cid = rows[m.id].cid /\ m.cid # 0
  /\ f.kind = "history" =>
       \A i \in DOMAIN f.messages :
         LET m == f.messages[i] IN IsRow(m) /\ m.cid = 0 /\ m.id \in had[c]
  /\ f.kind = "delete" => f.id \in DOMAIN rows /\ rows[f.id].gone

\* What was read and entered is stored.
FaithCounts ==
  \A c \in Conns : read[c] <= Len(rows) /\ entered[c] <= Len(rows) /\ had[c] \subseteq DOMAIN rows

\* An entry of the user's window.
Shows(u, m) ==
  /\ m.cid \in (-asked)..0
  /\ m.id < 0 => m.user = u /\ m.id >= -asked
  /\ m.id >= 0 => IsRow(m)

\* Windows show what is stored, and entries of their user.
FaithWindows == \A u \in Users : \A i \in DOMAIN win[u] : Shows(u, win[u][i])

\* Frames say what is true.
FaithFrames == \A c \in Conns : \A p \in DOMAIN down[c] : Says(c, down[c][p])

\* So do the goroutines, each of its own user's messages.
FaithJobs ==
  \A c \in Conns :
    /\ job[c].at \in {"answering", "fanning", "publishing"} => Says(c, job[c].frame)
    /\ Fans(c, "message") => job[c].frame.message.user = Owner[c]
    /\ Fans(c, "edit") => job[c].frame.id \in DOMAIN rows /\ rows[job[c].frame.id].user = Owner[c]

\* Deletions that wait are of deleted messages.
FaithQueue ==
  \A i \in DOMAIN broadcastQ : broadcastQ[i].id \in DOMAIN rows /\ rows[broadcastQ[i].id].gone

\* Who asks for an edit or a deletion is the author.
FaithRequests ==
  \A c \in Conns : \A p \in Asks(c, "edit") \cup Asks(c, "delete") :
    up[c][p].id \in DOMAIN rows /\ rows[up[c][p].id].user = Owner[c]

\* Nothing is said that is not so.
Faithful ==
  FaithCounts /\ FaithWindows /\ FaithFrames /\ FaithJobs /\ FaithQueue /\ FaithRequests

(***************************************************************************)
(* Entries that wait for their row                                         *)
(***************************************************************************)

\* There is one of each.
OwnOnce ==
  \A u \in Users : \A i, j \in DOMAIN win[u] :
    win[u][i].id < 0 /\ win[u][i].id = win[u][j].id => i = j

\* A row that is stored for one is its user's.
OwnRows ==
  \A u \in Users : \A i \in DOMAIN win[u] : \A r \in DOMAIN rows :
    win[u][i].id < 0 /\ rows[r].cid = win[u][i].id => rows[r].user = u

\* So is a request that is made for one.
OwnAsks ==
  \A u \in Users : \A i \in DOMAIN win[u] : \A c \in Conns : \A p \in Asks(c, "message") :
    win[u][i].id < 0 /\ up[c][p].cid = win[u][i].id => Owner[c] = u

\* Entries that wait are their user's.
OwnEntries == OwnOnce /\ OwnRows /\ OwnAsks

\* The row is on its way to the page, or in the gap of its join.
Bound(c, r) ==
  \/ Fans(c, "message") /\ job[c].frame.message.id = r
  \/ \E p \in At(c, "message") : down[c][p].message.id = r
  \/ c \in ToSet(registerQ) \/ r <= entered[c]

\* Where the row of an entry is.
Pending(c, k) ==
  \/ \E p \in Asks(c, "message") : up[c][p].cid = k
  \/ \E r \in DOMAIN rows : rows[r].cid = k /\ read[c] < r /\ Bound(c, r)

\* Every entry of a page that lost nothing has its row to come.
Optimists ==
  \A c \in Conns : Attached(c) /\ Owner[c] \notin lossy =>
    \A k \in Ids(win[Owner[c]]) : k < 0 => Pending(c, k)

(***************************************************************************)
(* No message twice                                                        *)
(***************************************************************************)

\* A connection is told a message once.
OnceDown ==
  \A c \in Conns : \A p, q \in At(c, "message") :
    down[c][p].message.id = down[c][q].message.id => p = q

\* A message is fanned out once.
OnceFan ==
  \A c \in Conns : Fans(c, "message") =>
    /\ \A d \in Conns : \A p \in At(d, "message") : down[d][p].message.id # job[c].frame.message.id
    /\ \A d \in Conns : Fans(d, "message") /\ job[d].frame.message.id = job[c].frame.message.id => c = d

\* What is told live is in no window, if no history had it.
OnceSeen(c) ==
  /\ \A p \in At(c, "message") :
       down[c][p].message.id \in Ids(win[Owner[c]]) => down[c][p].message.id \in had[c]
  /\ \A d \in Conns : Fans(d, "message") /\ job[d].frame.message.id \in Ids(win[Owner[c]])
       => job[d].frame.message.id \in had[c]

\* The user's own comes before every history that has it.
OnceOwn(c) ==
  /\ Fans(c, "message") => job[c].frame.message.id \notin had[c]
  /\ \A p \in At(c, "message") : down[c][p].message.user = Owner[c] =>
       /\ down[c][p].message.id \notin Ids(win[Owner[c]])
       /\ \A q \in At(c, "history") : q < p => down[c][p].message.id \notin Ids(down[c][q].messages)

\* No message comes twice to a page that lost nothing.
Once ==
  /\ OnceDown /\ OnceFan /\ NoTwice
  /\ \A c \in Conns : Attached(c) /\ Owner[c] \notin lossy => OnceSeen(c) /\ OnceOwn(c)

(***************************************************************************)
(* Order                                                                   *)
(***************************************************************************)

\* The store has the messages of a user who kept the connection as they were asked.
RowsInTurn ==
  \A i, j \in DOMAIN rows :
    rows[i].user \notin lossy /\ rows[i].user = rows[j].user /\ i < j /\ rows[j].cid # 0
    => rows[j].cid < rows[i].cid

\* Those that are still to be stored come after them, and one after the other.
AsksInTurn ==
  \A c \in Conns : Owner[c] \notin lossy => \A p \in Asks(c, "message") :
    /\ \A q \in Asks(c, "message") : p < q => up[c][q].cid < up[c][p].cid
    /\ \A i \in DOMAIN rows : rows[i].user = Owner[c] => up[c][p].cid < rows[i].cid

\* The one that is fanned is the last that was stored.
FansInTurn ==
  \A c \in Conns : Owner[c] \notin lossy /\ Fans(c, "message") =>
    \A i \in DOMAIN rows : rows[i].user = Owner[c] => i <= job[c].frame.message.id

\* They are told in that order.
DownInTurn ==
  \A c \in Conns : \A p, q \in At(c, "message") :
    /\ down[c][p].message.user \notin lossy /\ p < q
    /\ down[c][p].message.user = down[c][q].message.user
    => down[c][p].message.id < down[c][q].message.id

\* The messages of a user go in turn from the page to the store and from there to the pages.
InTurn == RowsInTurn /\ AsksInTurn /\ FansInTurn /\ DownInTurn

\* An entry that no history has brought.
Live1(c, i) == win[Owner[c]][i].id \notin had[c]

\* Entries of another user who kept the connection.
Others(c) == {i \in DOMAIN win[Owner[c]] : Live1(c, i) /\ win[Owner[c]][i].user \notin lossy \cup {Owner[c]}}

\* Entries of another user are in order, and before what is still told.
OthersInTurn(c) ==
  \A i \in Others(c) :
    /\ \A j \in Others(c) :
         i < j /\ win[Owner[c]][i].user = win[Owner[c]][j].user => win[Owner[c]][i].id < win[Owner[c]][j].id
    /\ \A p \in At(c, "message") :
         win[Owner[c]][i].user = down[c][p].message.user => win[Owner[c]][i].id < down[c][p].message.id

\* The id the page gave the entry.
Cid(m) == IF m.id < 0 THEN m.id ELSE rows[m.id].cid

\* Entries of the user.
Mine(c) == {i \in DOMAIN win[Owner[c]] : Live1(c, i) /\ win[Owner[c]][i].user = Owner[c]}

\* So are the user's own, by the ids the page gave them.
MineInTurn(c) ==
  \A i \in Mine(c) :
    /\ win[Owner[c]][i].id > 0 => Cid(win[Owner[c]][i]) # 0
    /\ \A j \in Mine(c) : i < j => Cid(win[Owner[c]][j]) < Cid(win[Owner[c]][i])

\* What is stored or told of the user's own meets its entry.
MineMeet(c) ==
  /\ \A p \in Asks(c, "message") : up[c][p].cid \in Ids(win[Owner[c]])
  /\ Fans(c, "message") => job[c].frame.message.cid \in Ids(win[Owner[c]])
  /\ \A p \in At(c, "message") :
       down[c][p].message.user = Owner[c] => down[c][p].message.cid \in Ids(win[Owner[c]])

\* The windows of the pages that lost nothing are in order.
WindowOrder ==
  \A c \in Conns : Attached(c) /\ Owner[c] \notin lossy =>
    /\ OthersInTurn(c)
    /\ Owner[c] \notin guessed \cup full => MineInTurn(c) /\ MineMeet(c)

(***************************************************************************)
(* What comes                                                              *)
(***************************************************************************)

\* The page has the message, or is told it.
Comes(c, id) ==
  \/ id \in Ids(win[Owner[c]])
  \/ \E p \in At(c, "message") : down[c][p].message.id = id
  \/ \E p \in At(c, "history") : id \in Ids(down[c][p].messages)
  \/ job[c].at = "answering" /\ id \in Ids(job[c].frame.messages)

\* What the history of the join had.
HistoryComes(c) ==
  ~Joining(c) => \A id \in DOMAIN rows :
    read[c] - JoinPage < id /\ id <= read[c] /\ ~rows[id].gone => Comes(c, id)

\* What was stored since Run entered the connection.
LiveComes(c) ==
  c \in room => \A id \in DOMAIN rows :
    entered[c] < id /\ ~rows[id].gone =>
      Comes(c, id) \/ \E d \in Conns : Fans(d, "message") /\ job[d].frame.message.id = id

\* What a page misses is on its way.
Coming == \A c \in Conns : Attached(c) /\ Owner[c] \notin full => HistoryComes(c) /\ LiveComes(c)

(***************************************************************************)
(* Edits and deletions                                                     *)
(***************************************************************************)

\* The row came live, and its author kept the connection.
Heard(c, id) ==
  /\ c \in room /\ Owner[c] \notin lossy
  /\ id \in DOMAIN rows /\ entered[c] < id /\ id \notin had[c] /\ rows[id].user \notin lossy

\* A frame that says what the text of the row is.
Tells(f, id) ==
  \/ f.kind = "message" /\ f.message.id = id
  \/ f.kind = "edit" /\ f.id = id /\ f.text # ""

\* The text that a frame tells.
TextOf(f) == IF f.kind = "message" THEN f.message.text ELSE f.text

\* Frames for the connection that tell the text of the row.
Tellers(c, id) == {p \in DOMAIN down[c] : Tells(down[c][p], id)}

\* What is fanned of a row is its text.
TextsFanned ==
  \A d \in Conns : \A id \in DOMAIN rows :
    /\ job[d].at = "fanning" /\ Tells(job[d].frame, id)
    /\ Owner[d] \notin lossy /\ ~rows[id].gone
    => TextOf(job[d].frame) = rows[id].text

\* The page is to be told the text of the row, or has it.
TextComes(c, id) ==
  \/ \E d \in Conns : job[d].at = "fanning" /\ Tells(job[d].frame, id)
  \/ \E p \in Tellers(c, id) :
       TextOf(down[c][p]) = rows[id].text /\ \A q \in Tellers(c, id) : q <= p
  \/ /\ Tellers(c, id) = {}
     /\ \A i \in Entries(Owner[c], id) : win[Owner[c]][i].text = rows[id].text

\* The texts of what came live are those of the store, or will be.
Texting ==
  /\ TextsFanned
  /\ \A c \in Conns : \A id \in DOMAIN rows : Heard(c, id) /\ ~rows[id].gone => TextComes(c, id)

\* No message is fanned that is deleted.
NoneFanned ==
  \A d \in Conns : Fans(d, "message") /\ Owner[d] \notin lossy => ~rows[job[d].frame.message.id].gone

\* The page is to be told the deletion, or does not have the message.
DeletionComes(c, id) ==
  \/ \E d \in Conns : job[d].at = "publishing" /\ job[d].frame.id = id
  \/ \E i \in DOMAIN broadcastQ : broadcastQ[i].id = id
  \/ \E p \in At(c, "delete") : /\ down[c][p].id = id
                                /\ \A q \in At(c, "message") : down[c][q].message.id = id => q < p
  \/ id \notin Ids(win[Owner[c]]) /\ \A q \in At(c, "message") : down[c][q].message.id # id

\* What came live and was deleted is gone from the page, or will be.
Deleting ==
  /\ NoneFanned
  /\ \A c \in Conns : \A id \in DOMAIN rows : Heard(c, id) /\ rows[id].gone => DeletionComes(c, id)

\* The inductive invariant.
FeedIInv ==
  /\ Types /\ SocketsKnown /\ Joins /\ Cids /\ Faithful /\ OwnEntries /\ Optimists /\ Once
  /\ InTurn /\ WindowOrder /\ Coming /\ Texting /\ Deleting


-----------------------------------------------------------------------------
(***************************************************************************)
(* Sequences and numbers                                                   *)
(***************************************************************************)

\* A sequence with one more element.
LEMMA AppendAt ==
  ASSUME NEW T, NEW s \in Seq(T), NEW e \in T
  PROVE  /\ Append(s, e) \in Seq(T) /\ Len(Append(s, e)) = Len(s) + 1 /\ Len(s) \in Nat
         /\ DOMAIN s = 1..Len(s) /\ DOMAIN Append(s, e) = 1..(Len(s) + 1)
         /\ Append(s, e)[Len(s) + 1] = e
         /\ \A p \in DOMAIN s : p \in DOMAIN Append(s, e) /\ Append(s, e)[p] = s[p]
         /\ \A p \in DOMAIN Append(s, e) : p \in DOMAIN s \/ p = Len(s) + 1
         /\ \A p \in DOMAIN s : p \in Nat /\ p < Len(s) + 1
OBVIOUS

\* A sequence without its first element.
LEMMA TailAt ==
  ASSUME NEW T, NEW s \in Seq(T), s # <<>>
  PROVE  /\ Tail(s) \in Seq(T) /\ Len(Tail(s)) = Len(s) - 1 /\ Len(s) \in Nat
         /\ 1 \in DOMAIN s /\ Head(s) = s[1] /\ s[1] \in T
         /\ DOMAIN s = 1..Len(s) /\ DOMAIN Tail(s) = 1..(Len(s) - 1)
         /\ \A p \in DOMAIN Tail(s) : p \in Nat /\ p + 1 \in DOMAIN s /\ Tail(s)[p] = s[p + 1] /\ p + 1 # 1
         /\ \A p \in DOMAIN s : p \in Nat /\ (p # 1 => p - 1 \in DOMAIN Tail(s) /\ Tail(s)[p - 1] = s[p])
OBVIOUS

\* Two sequences one after the other.
LEMMA ConcatAt ==
  ASSUME NEW T, NEW s \in Seq(T), NEW t \in Seq(T)
  PROVE  /\ (s \o t) \in Seq(T) /\ Len(s \o t) = Len(s) + Len(t)
         /\ DOMAIN (s \o t) = 1..(Len(s) + Len(t))
         /\ \A i \in 1..Len(s) : (s \o t)[i] = s[i]
         /\ \A i \in 1..Len(t) : (s \o t)[Len(s) + i] = t[i]
OBVIOUS

\* A sequence with one element is not empty, and what is not empty has a first one.
LEMMA EmptyAt ==
  ASSUME NEW T, NEW s \in Seq(T)
  PROVE  /\ s = <<>> <=> DOMAIN s = {}
         /\ s # <<>> => 1 \in DOMAIN s
         /\ DOMAIN s \subseteq Nat \ {0}
OBVIOUS

\* What the elements of the three kinds of sequence are.
LEMMA SetOf ==
  ASSUME NEW T, NEW s \in Seq(T)
  PROVE  /\ ToSet(s) \subseteq T
         /\ \A p \in DOMAIN s : s[p] \in ToSet(s)
         /\ \A e \in T : ToSet(Append(s, e)) = ToSet(s) \cup {e}
         /\ s # <<>> => ToSet(s) = {Head(s)} \cup ToSet(Tail(s))
<1>1. ToSet(s) \subseteq T /\ \A p \in DOMAIN s : s[p] \in ToSet(s)
  BY DEF ToSet
<1>2. ASSUME NEW e \in T
      PROVE  ToSet(Append(s, e)) = ToSet(s) \cup {e}
  <2>1. ASSUME NEW x \in ToSet(Append(s, e))
        PROVE  x \in ToSet(s) \cup {e}
    BY AppendAt DEF ToSet
  <2>2. ASSUME NEW x \in ToSet(s)
        PROVE  x \in ToSet(Append(s, e))
    BY AppendAt DEF ToSet
  <2>3. e \in ToSet(Append(s, e))
    <3>1. Len(s) + 1 \in DOMAIN Append(s, e) /\ Append(s, e)[Len(s) + 1] = e
      OBVIOUS
    <3> QED BY <3>1 DEF ToSet
  <2> QED BY <2>1, <2>2, <2>3
<1>3. ASSUME s # <<>>
      PROVE  ToSet(s) = {Head(s)} \cup ToSet(Tail(s))
  <2>1. ASSUME NEW x \in ToSet(s)
        PROVE  x \in {Head(s)} \cup ToSet(Tail(s))
    <3>1. PICK p \in DOMAIN s : x = s[p]
      BY DEF ToSet
    <3>2. CASE p = 1
      BY <1>3, <3>1, <3>2
    <3>3. CASE p # 1
      <4>1. p - 1 \in DOMAIN Tail(s) /\ Tail(s)[p - 1] = s[p]
        BY <1>3, <3>3, TailAt
      <4> QED BY <3>1, <4>1 DEF ToSet
    <3> QED BY <3>2, <3>3
  <2>2. ASSUME NEW x \in ToSet(Tail(s))
        PROVE  x \in ToSet(s)
    BY <1>3, TailAt DEF ToSet
  <2>3. Head(s) \in ToSet(s)
    BY <1>3, TailAt DEF ToSet
  <2> QED BY <2>1, <2>2, <2>3
<1> QED BY <1>1, <1>2, <1>3

\* The greater of two numbers.
LEMMA GreaterOf ==
  ASSUME NEW x \in Int, NEW y \in Int
  PROVE  Max({x, y}) = (IF x >= y THEN x ELSE y)
<1>1. \E z \in {x, y} : \A w \in {x, y} : z >= w
  OBVIOUS
<1>2. Max({x, y}) \in {x, y} /\ \A w \in {x, y} : Max({x, y}) >= w
  BY <1>1 DEF Max
<1> QED BY <1>2

\* The smaller of two numbers.
LEMMA SmallerOf ==
  ASSUME NEW x \in Int, NEW y \in Int
  PROVE  Min({x, y}) = (IF x <= y THEN x ELSE y)
<1>1. \E z \in {x, y} : \A w \in {x, y} : z <= w
  OBVIOUS
<1>2. Min({x, y}) \in {x, y} /\ \A w \in {x, y} : Min({x, y}) <= w
  BY <1>1 DEF Min
<1> QED BY <1>2


-----------------------------------------------------------------------------
(***************************************************************************)
(* The folds of the window                                                 *)
(***************************************************************************)

\* A nonempty set of naturals has a least element.
LEMMA Least ==
  ASSUME NEW T, T \subseteq Nat, T # {}
  PROVE  \E x \in T : \A y \in T : x <= y
<1>1. PICK x \in T : \A y \in T : ~ (<<y, x>> \in OpToRel(<, Nat))
  BY WFMin, NatLessThanWellFounded
<1>2. \A y \in T : ~(y < x)
  BY <1>1 DEF OpToRel
<1> QED BY <1>2

\* What holds at the start and is kept by every step holds at each step up to n.
LEMMA Along ==
  ASSUME NEW n \in Nat, NEW P, 0 \in P, \A k \in 0..(n - 1) : k \in P => k + 1 \in P
  PROVE  0..n \subseteq P
<1> SUFFICES ASSUME NEW j \in 0..n, j \notin P
             PROVE  FALSE
  OBVIOUS
<1>1. PICK x \in (0..n) \ P : \A y \in (0..n) \ P : x <= y
  <2>1. (0..n) \ P \subseteq Nat /\ (0..n) \ P # {}
    OBVIOUS
  <2> QED BY <2>1, Least
<1>2. x # 0 /\ x - 1 \in 0..(n - 1)
  BY <1>1
<1>3. x - 1 \in P
  BY <1>1, <1>2
<1>4. x - 1 + 1 \in P
  BY <1>2, <1>3
<1> QED BY <1>1, <1>4

\* A nonempty set of numbers up to n has a greatest element.
LEMMA Greatest ==
  ASSUME NEW n \in Nat, NEW s, s \subseteq 1..n, s # {}
  PROVE  Max(s) \in s /\ \A y \in s : y <= Max(s)
<1> DEFINE T == {b \in Nat : \A y \in s : y <= b}
<1>1. PICK b \in T : \A c \in T : b <= c
  <2>1. n \in T
    OBVIOUS
  <2> HIDE DEF T
  <2>2. T \subseteq Nat
    BY DEF T
  <2> QED BY <2>1, <2>2, Least
<1>2. b \in s
  <2> SUFFICES ASSUME b \notin s
               PROVE  FALSE
    OBVIOUS
  <2>1. PICK y \in s : TRUE
    OBVIOUS
  <2>2. b - 1 \in Nat
    BY <1>1, <2>1
  <2>3. \A x \in s : x \in Nat /\ x <= b /\ x # b
    BY <1>1
  <2>4. \A x \in s : x <= b - 1
    BY <1>1, <2>3
  <2>5. b - 1 \in T
    BY <2>2, <2>4
  <2> QED BY <1>1, <2>5
<1>3. \E x \in s : \A y \in s : x >= y
  BY <1>1, <1>2
<1>4. Max(s) \in s /\ \A y \in s : Max(s) >= y
  BY <1>3 DEF Max
<1> QED BY <1>4

\* The steps of the folds of the model: a message is merged into the window, kept
\* by a deletion of x, put into a group.
FoldStep(kind, a, m, x) ==
  CASE kind = "merge" -> Placed(a, m, x)
    [] kind = "delete" -> IF m.id = x THEN a ELSE Append(a, m)

\* f is the function by which a fold over seq is defined.
Folds(f, kind, base, seq, x, D) ==
  f = [s \in SUBSET D |-> IF s = {} THEN base ELSE FoldStep(kind, f[s \ {Max(s)}], seq[Max(s)], x)]

\* There is such a function.
LEMMA FoldExists ==
  ASSUME NEW n \in Nat, NEW kind, NEW base, NEW seq, NEW x
  PROVE  \E f : Folds(f, kind, base, seq, x, 1..n)
<1> DEFINE P == {k \in Nat : \E f : Folds(f, kind, base, seq, x, 1..k)}
<1>1. 0 \in P
  <2>1. SUBSET (1..0) = {{}}
    OBVIOUS
  <2>2. Folds([s \in SUBSET (1..0) |-> base], kind, base, seq, x, 1..0)
    BY <2>1 DEF Folds
  <2> QED BY <2>2
<1>2. ASSUME NEW k \in Nat, k \in P
      PROVE  k + 1 \in P
  <2>1. PICK f : Folds(f, kind, base, seq, x, 1..k)
    BY <1>2
  <2> DEFINE g == [s \in SUBSET (1..(k + 1)) |->
                     IF k + 1 \in s THEN FoldStep(kind, f[s \ {k + 1}], seq[k + 1], x) ELSE f[s]]
  <2>2. ASSUME NEW s \in SUBSET (1..(k + 1))
        PROVE  g[s] = IF s = {} THEN base ELSE FoldStep(kind, g[s \ {Max(s)}], seq[Max(s)], x)
    <3>1. CASE s = {}
      <4>1. f[s] = base
        BY <2>1, <3>1 DEF Folds
      <4> QED BY <3>1, <4>1
    <3>2. CASE s # {} /\ k + 1 \in s
      <4>1. Max(s) = k + 1
        <5>0. k + 1 \in Nat /\ s \subseteq 1..(k + 1)
          OBVIOUS
        <5>1. Max(s) \in s /\ \A y \in s : y <= Max(s)
          <6> HIDE DEF g
          <6> QED BY <3>2, <5>0, Greatest
        <5> HIDE DEF g
        <5>2. Max(s) \in 1..(k + 1) /\ k + 1 <= Max(s)
          BY <5>0, <5>1, <3>2
        <5> QED BY <5>2
      <4>2. s \ {k + 1} \in SUBSET (1..(k + 1)) /\ k + 1 \notin s \ {k + 1}
        OBVIOUS
      <4>3. g[s \ {k + 1}] = f[s \ {k + 1}]
        BY <4>2
      <4> QED BY <3>2, <4>1, <4>3
    <3>3. CASE s # {} /\ k + 1 \notin s
      <4>1. s \in SUBSET (1..k)
        BY <3>3
      <4>2. f[s] = FoldStep(kind, f[s \ {Max(s)}], seq[Max(s)], x)
        BY <2>1, <3>3, <4>1 DEF Folds
      <4>3. g[s \ {Max(s)}] = f[s \ {Max(s)}]
        BY <3>3
      <4> QED BY <3>3, <4>2, <4>3
    <3> QED BY <3>1, <3>2, <3>3
  <2>3. Folds(g, kind, base, seq, x, 1..(k + 1))
    <3> DEFINE h == [s \in SUBSET (1..(k + 1)) |->
                       IF s = {} THEN base ELSE FoldStep(kind, g[s \ {Max(s)}], seq[Max(s)], x)]
    <3>1. g = h
      <4> HIDE DEF g
      <4>1. \A s \in SUBSET (1..(k + 1)) : g[s] = h[s]
        BY <2>2
      <4>2. g = [s \in SUBSET (1..(k + 1)) |-> g[s]]
        BY DEF g
      <4> QED BY <4>1, <4>2
    <3> QED BY <3>1 DEF Folds
  <2> QED BY <2>3
<1>3. 0..n \subseteq P
  <2> HIDE DEF P
  <2> QED BY <1>1, <1>2, Along
<1> QED BY <1>3

\* A fold takes the elements one after the other.
LEMMA FoldSteps ==
  ASSUME NEW n \in Nat, NEW kind, NEW base, NEW seq, NEW x, NEW f,
         Folds(f, kind, base, seq, x, 1..n)
  PROVE  \E acc :
           /\ acc[0] = base
           /\ \A k \in 0..(n - 1) : acc[k + 1] = FoldStep(kind, acc[k], seq[k + 1], x)
           /\ f[1..n] = acc[n]
<1> DEFINE acc == [k \in 0..n |-> f[1..k]]
<1>3. acc[0] = base
  <2>1. 1..0 = {}
    OBVIOUS
  <2> QED BY <2>1 DEF Folds
<1>4. ASSUME NEW k \in 0..(n - 1)
      PROVE  acc[k + 1] = FoldStep(kind, acc[k], seq[k + 1], x)
  <2>0. 1..(k + 1) \subseteq 1..n /\ k + 1 \in 1..(k + 1)
    OBVIOUS
  <2>1. 1..(k + 1) \in SUBSET (1..n) /\ 1..(k + 1) # {}
    BY <2>0
  <2>2. Max(1..(k + 1)) = k + 1
    <3>1. Max(1..(k + 1)) \in 1..(k + 1) /\ \A y \in 1..(k + 1) : y <= Max(1..(k + 1))
      BY <2>0, <2>1, Greatest
    <3> QED BY <3>1, <2>0
  <2>3. (1..(k + 1)) \ {k + 1} = 1..k
    OBVIOUS
  <2>4. f[1..(k + 1)] = FoldStep(kind, f[1..k], seq[k + 1], x)
    BY <2>1, <2>2, <2>3 DEF Folds
  <2> QED BY <2>4
<1>5. f[1..n] = acc[n]
  OBVIOUS
<1> HIDE DEF acc
<1> QED BY <1>3, <1>4, <1>5

\* The two folds.
Merges(acc, w, incoming, n, close) ==
  /\ acc[0] = [win |-> w, fresh |-> <<>>, known |-> Ids(w)]
  /\ \A k \in 0..(n - 1) : acc[k + 1] = Placed(acc[k], incoming[k + 1], close)
  /\ PlacedAll(w, incoming, close) = acc[n]

\* The accumulators of a merge, one message after the other.
LEMMA MergeSteps ==
  ASSUME NEW w, NEW n \in Nat, NEW incoming, DOMAIN incoming = 1..n, NEW close
  PROVE  \E acc : Merges(acc, w, incoming, n, close)
<1> DEFINE base == [win |-> w, fresh |-> <<>>, known |-> Ids(w)]
           Is(g) == g = [s \in SUBSET (DOMAIN incoming) |->
                           IF s = {} THEN base
                           ELSE Placed(g[s \ {Max(s)}], incoming[Max(s)], close)]
           f == CHOOSE g : Is(g)
<1>1. PlacedAll(w, incoming, close) = f[DOMAIN incoming]
  BY DEF PlacedAll, FoldLeft, MapThenFoldSet
<1> HIDE DEF base
<1>2. ASSUME NEW g
      PROVE  Is(g) <=> Folds(g, "merge", base, incoming, close, 1..n)
  BY DEF Folds, FoldStep
<1>3. Folds(f, "merge", base, incoming, close, 1..n)
  <2>1. \E g : Is(g)
    <3> HIDE DEF Is
    <3> QED BY <1>2, FoldExists
  <2>2. Is(f)
    <3> HIDE DEF Is
    <3> QED BY <2>1
  <2> HIDE DEF f, Is
  <2> QED BY <1>2, <2>2
<1> HIDE DEF f, Is
<1>4. PICK acc :
           /\ acc[0] = base
           /\ \A k \in 0..(n - 1) : acc[k + 1] = FoldStep("merge", acc[k], incoming[k + 1], close)
           /\ f[1..n] = acc[n]
  BY <1>3, FoldSteps
<1> QED BY <1>1, <1>4 DEF FoldStep, base, Merges

\* acc[k]: what a deletion has kept of the first k entries.
Deletes(acc, w, n, id) ==
  /\ acc[0] = <<>>
  /\ \A k \in 0..(n - 1) :
       acc[k + 1] = IF w[k + 1].id = id THEN acc[k] ELSE Append(acc[k], w[k + 1])
  /\ DeleteMessage(w, id) = acc[n]

\* A deletion goes through the window entry by entry.
LEMMA DeleteSteps ==
  ASSUME NEW w, NEW n \in Nat, DOMAIN w = 1..n, NEW id
  PROVE  \E acc : Deletes(acc, w, n, id)
<1> DEFINE Is(g) == g = [s \in SUBSET (DOMAIN w) |->
                           IF s = {} THEN <<>>
                           ELSE IF w[Max(s)].id = id THEN g[s \ {Max(s)}]
                           ELSE Append(g[s \ {Max(s)}], w[Max(s)])]
           f == CHOOSE g : Is(g)
<1>1. DeleteMessage(w, id) = f[DOMAIN w]
  BY DEF DeleteMessage, FoldLeft, MapThenFoldSet
<1>2. ASSUME NEW g
      PROVE  Is(g) <=> Folds(g, "delete", <<>>, w, id, 1..n)
  BY DEF Folds, FoldStep
<1>3. Folds(f, "delete", <<>>, w, id, 1..n)
  <2>1. \E g : Is(g)
    <3> HIDE DEF Is
    <3> QED BY <1>2, FoldExists
  <2>2. Is(f)
    <3> HIDE DEF Is
    <3> QED BY <2>1
  <2> HIDE DEF f, Is
  <2> QED BY <1>2, <2>2
<1> HIDE DEF f, Is
<1>4. PICK acc :
           /\ acc[0] = <<>>
           /\ \A k \in 0..(n - 1) : acc[k + 1] = FoldStep("delete", acc[k], w[k + 1], id)
           /\ f[1..n] = acc[n]
  BY <1>3, FoldSteps
<1> QED BY <1>1, <1>4 DEF FoldStep, Deletes

\* A merge of one message is one placing.
LEMMA MergeOne ==
  ASSUME NEW w, NEW m, NEW close
  PROVE  PlacedAll(w, <<m>>, close) = Placed([win |-> w, fresh |-> <<>>, known |-> Ids(w)], m, close)
<1>1. 1 \in Nat /\ DOMAIN <<m>> = 1..1 /\ <<m>>[1] = m /\ 0 \in 0..(1 - 1) /\ 0 + 1 = 1
  OBVIOUS
<1>2. PICK acc : Merges(acc, w, <<m>>, 1, close)
  BY <1>1, MergeSteps
<1>3. acc[0 + 1] = Placed(acc[0], <<m>>[0 + 1], close)
  BY <1>1, <1>2 DEF Merges
<1> QED BY <1>1, <1>2, <1>3 DEF Merges


-----------------------------------------------------------------------------
(***************************************************************************)
(* Merging a page of history                                               *)
(***************************************************************************)

\* Entry i of d is entry e[i] of w, or a new one if e[i] is 0.
From(d, w, e) ==
  /\ e \in [DOMAIN d -> {0} \cup DOMAIN w]
  /\ \A i \in DOMAIN d : e[i] # 0 => d[i] = w[e[i]]
  /\ \A i, j \in DOMAIN d : i < j /\ e[i] # 0 /\ e[j] # 0 => e[i] < e[j]

\* A page of history: rows.
IsPage(p) == p \in Seq(Told) /\ \A i \in DOMAIN p : p[i].id > 0 /\ p[i].cid = 0

\* States of a merge.
Accs == [win : Seq(Told), fresh : Seq(Told), known : SUBSET Int]

\* What the accumulator is after k messages of a page.
Placing(a, w, p, k, close) ==
  /\ a \in Accs /\ Len(a.win) = Len(w)
  /\ \A i \in DOMAIN w : a.win[i] = w[i] \/ (w[i].id < 0 /\ a.win[i] \in ToSet(p))
  /\ ToSet(a.fresh) \subseteq ToSet(p)
  /\ a.known \subseteq Ids(w) \cup Ids(a.win) \cup Ids(a.fresh)
  /\ Ids(w) \subseteq a.known /\ \A i \in 1..k : p[i].id \in a.known
  /\ close = {} =>
       /\ a.win = w /\ Ids(a.fresh) \subseteq a.known /\ Ids(a.fresh) \cap Ids(w) = {}
       /\ \A i, j \in DOMAIN a.fresh : a.fresh[i].id = a.fresh[j].id => i = j

\* The ids of a window with one more entry.
LEMMA IdsAppend ==
  ASSUME NEW s \in Seq(Told), NEW m \in Told
  PROVE  Ids(Append(s, m)) = Ids(s) \cup {m.id}
<1>1. ASSUME NEW x \in Ids(Append(s, m))
      PROVE  x \in Ids(s) \cup {m.id}
  BY AppendAt DEF Ids
<1>2. ASSUME NEW x \in Ids(s)
      PROVE  x \in Ids(Append(s, m))
  BY AppendAt DEF Ids
<1>3. m.id \in Ids(Append(s, m))
  <2>1. Len(s) + 1 \in DOMAIN Append(s, m) /\ Append(s, m)[Len(s) + 1] = m
    OBVIOUS
  <2> QED BY <2>1 DEF Ids
<1> QED BY <1>1, <1>2, <1>3

\* The ids of a window are numbers.
LEMMA IdsInt ==
  ASSUME NEW s \in Seq(Told)
  PROVE  Ids(s) \subseteq Int
<1>1. \A i \in DOMAIN s : s[i] \in Told
  OBVIOUS
<1> QED BY <1>1 DEF Ids, Told

\* A message takes the place of another entry.
LEMMA InPlace ==
  ASSUME NEW s \in Seq(Told), NEW m \in Told, NEW at \in DOMAIN s,
         NEW d, d = [s EXCEPT ![at] = m]
  PROVE  /\ d \in Seq(Told) /\ Len(d) = Len(s) /\ DOMAIN d = DOMAIN s /\ d[at] = m
         /\ \A i \in DOMAIN s : i # at => d[i] = s[i]
         /\ m.id \in Ids(d) /\ Ids(s) \subseteq Ids(d) \cup {s[at].id}
<1>1. /\ d \in Seq(Told) /\ Len(d) = Len(s) /\ DOMAIN d = DOMAIN s /\ d[at] = m
      /\ \A i \in DOMAIN s : i # at => d[i] = s[i]
  OBVIOUS
<1>2. m.id \in Ids(d)
  BY <1>1 DEF Ids
<1>3. ASSUME NEW x \in Ids(s)
      PROVE  x \in Ids(d) \cup {s[at].id}
  BY <1>1 DEF Ids
<1>4. Ids(s) \subseteq Ids(d) \cup {s[at].id}
  BY <1>3
<1> QED BY <1>1, <1>2, <1>4

\* One message of a page.
LEMMA PlacingStep ==
  ASSUME NEW w \in Seq(Told), NEW p, IsPage(p), NEW k \in Nat, k + 1 \in DOMAIN p, NEW close,
         NEW a, Placing(a, w, p, k, close)
  PROVE  Placing(Placed(a, p[k + 1], close), w, p, k + 1, close)
<1> DEFINE m == p[k + 1]
           twins == Twins(a.win, m, close)
           b == Placed(a, m, close)
<1>1. m \in Told /\ m.id > 0 /\ m.cid = 0 /\ m \in ToSet(p) /\ m.id \in Int
  <2>1. m \in Told /\ m.id > 0 /\ m.cid = 0
    BY DEF IsPage
  <2>2. m \in ToSet(p)
    BY DEF ToSet
  <2> QED BY <2>1, <2>2 DEF Told
<1>2. OwnEntry(a.win, m) = {} /\ ~Optimistic(m)
  BY <1>1 DEF OwnEntry, Optimistic
<1>3. \A i \in 1..(k + 1) : i \in 1..k \/ i = k + 1
  OBVIOUS
<1>4. a \in Accs /\ Len(a.win) = Len(w) /\ DOMAIN a.win = DOMAIN w /\ a.win \in Seq(Told) /\ a.fresh \in Seq(Told)
  BY DEF Placing, Accs
<1>5. CASE twins # {}
  <2> DEFINE at == Max(twins)
  <2>1. at \in twins /\ twins \subseteq 1..Len(w) /\ DOMAIN w = 1..Len(w) /\ Len(w) \in Nat
    <3>1. twins \subseteq 1..Len(w) /\ DOMAIN w = 1..Len(w) /\ Len(w) \in Nat
      BY <1>4 DEF Twins
    <3> HIDE DEF twins
    <3> QED BY <1>5, <3>1, Greatest
  <2>2. b = [a EXCEPT !.win[at] = m, !.known = @ \cup {m.id}]
    BY <1>2, <1>5 DEF Placed
  <2>3. a.win[at].id < 0 /\ close # {}
    BY <2>1 DEF Twins, Optimistic
  <2> HIDE DEF b, m, at, twins
  <2>4. /\ b \in Accs /\ b.win = [a.win EXCEPT ![at] = m]
        /\ b.fresh = a.fresh /\ b.known = a.known \cup {m.id}
    <3>1. [a.win EXCEPT ![at] = m] \in Seq(Told)
      BY <1>1, <1>4, <2>1, InPlace
    <3> QED BY <1>1, <1>4, <2>2, <3>1 DEF Accs
  <2>5. /\ Len(b.win) = Len(w) /\ DOMAIN b.win = DOMAIN w /\ b.win[at] = m
        /\ \A i \in DOMAIN w : i # at => b.win[i] = a.win[i]
        /\ m.id \in Ids(b.win) /\ Ids(a.win) \subseteq Ids(b.win) \cup {a.win[at].id}
    <3>1. at \in DOMAIN a.win
      BY <1>4, <2>1
    <3>2. /\ Len(b.win) = Len(a.win) /\ DOMAIN b.win = DOMAIN a.win /\ b.win[at] = m
          /\ \A i \in DOMAIN a.win : i # at => b.win[i] = a.win[i]
          /\ m.id \in Ids(b.win) /\ Ids(a.win) \subseteq Ids(b.win) \cup {a.win[at].id}
      <4> DEFINE v == a.win
                 d == b.win
      <4>1. v \in Seq(Told) /\ at \in DOMAIN v /\ d = [v EXCEPT ![at] = m] /\ m \in Told
        BY <1>1, <1>4, <2>4, <3>1
      <4> HIDE DEF v, d
      <4>2. /\ Len(d) = Len(v) /\ DOMAIN d = DOMAIN v /\ d[at] = m
            /\ \A i \in DOMAIN v : i # at => d[i] = v[i]
            /\ m.id \in Ids(d) /\ Ids(v) \subseteq Ids(d) \cup {v[at].id}
        BY <4>1, InPlace
      <4> QED BY <4>2 DEF v, d
    <3> QED BY <1>4, <3>2
  <2>6. a.win[at] = w[at] /\ at \in DOMAIN w
    <3>1. \A x \in ToSet(p) : x.id > 0
      BY DEF ToSet, IsPage
    <3>2. at \in DOMAIN w
      BY <2>1
    <3>3. a.win[at] \in Told
      BY <1>4, <3>2
    <3>4. ~(a.win[at].id > 0)
      <4>1. a.win[at].id \in Int
        BY <3>3 DEF Told
      <4> QED BY <2>3, <4>1
    <3> QED BY <3>1, <3>2, <3>4 DEF Placing
  <2>7. \A i \in DOMAIN w : b.win[i] = w[i] \/ (w[i].id < 0 /\ b.win[i] \in ToSet(p))
    <3> SUFFICES ASSUME NEW i \in DOMAIN w
                 PROVE  b.win[i] = w[i] \/ (w[i].id < 0 /\ b.win[i] \in ToSet(p))
      OBVIOUS
    <3>1. CASE i = at
      BY <1>1, <2>3, <2>5, <2>6, <3>1
    <3>2. CASE i # at
      BY <2>5, <3>2 DEF Placing
    <3> QED BY <3>1, <3>2
  <2>8. w[at].id \in Ids(w)
    BY <2>6 DEF Ids
  <2>9. b.known \subseteq Ids(w) \cup Ids(b.win) \cup Ids(b.fresh)
    <3>1. Ids(a.win) \subseteq Ids(b.win) \cup Ids(w)
      BY <2>5, <2>6, <2>8
    <3>2. a.known \subseteq Ids(w) \cup Ids(a.win) \cup Ids(a.fresh)
      BY DEF Placing
    <3> QED BY <2>4, <2>5, <3>1, <3>2
  <2>10. Ids(w) \subseteq b.known /\ \A i \in 1..(k + 1) : p[i].id \in b.known
    BY <1>3, <2>4 DEF Placing, m
  <2>11. ToSet(b.fresh) \subseteq ToSet(p)
    BY <2>4 DEF Placing
  <2> QED BY <2>3, <2>4, <2>5, <2>7, <2>9, <2>10, <2>11 DEF Placing, m, b
<1>6. CASE twins = {} /\ m.id \in a.known
  <2>1. b = a
    BY <1>2, <1>6 DEF Placed
  <2>2. \A i \in 1..(k + 1) : p[i].id \in a.known
    BY <1>3, <1>6 DEF Placing
  <2> QED BY <2>1, <2>2 DEF Placing
<1>7. CASE twins = {} /\ m.id \notin a.known
  <2>1. b = [a EXCEPT !.fresh = Append(@, m), !.known = @ \cup {m.id}]
    BY <1>2, <1>7 DEF Placed
  <2> HIDE DEF b, m, twins
  <2>2. /\ b \in Accs /\ b.win = a.win
        /\ b.fresh = Append(a.fresh, m) /\ b.known = a.known \cup {m.id}
    <3>1. Append(a.fresh, m) \in Seq(Told)
      BY <1>1, <1>4
    <3> QED BY <1>1, <1>4, <2>1, <3>1 DEF Accs
  <2>3. Ids(b.fresh) = Ids(a.fresh) \cup {m.id} /\ ToSet(b.fresh) = ToSet(a.fresh) \cup {m}
    BY <1>1, <1>4, <2>2, IdsAppend, SetOf
  <2>4. Ids(w) \subseteq b.known /\ \A i \in 1..(k + 1) : p[i].id \in b.known
    BY <1>3, <2>2 DEF Placing, m
  <2>5. b.known \subseteq Ids(w) \cup Ids(b.win) \cup Ids(b.fresh)
    BY <2>2, <2>3 DEF Placing
  <2>6. ASSUME close = {}
        PROVE  /\ b.win = w /\ Ids(b.fresh) \subseteq b.known /\ Ids(b.fresh) \cap Ids(w) = {}
               /\ \A i, j \in DOMAIN b.fresh : b.fresh[i].id = b.fresh[j].id => i = j
    <3>1. b.win = w /\ Ids(b.fresh) \subseteq b.known
      BY <2>2, <2>3, <2>6 DEF Placing
    <3>2. m.id \notin Ids(w) /\ m.id \notin Ids(a.fresh)
      BY <1>7, <2>6 DEF Placing
    <3>3. Ids(b.fresh) \cap Ids(w) = {}
      BY <2>3, <2>6, <3>2 DEF Placing
    <3>4. \A i \in DOMAIN a.fresh : a.fresh[i].id # m.id
      BY <3>2 DEF Ids
    <3>5. \A i, j \in DOMAIN a.fresh : a.fresh[i].id = a.fresh[j].id => i = j
      BY <2>6 DEF Placing
    <3>6. \A i, j \in DOMAIN b.fresh : b.fresh[i].id = b.fresh[j].id => i = j
      BY <1>1, <1>4, <2>2, <3>4, <3>5, AppendAt
    <3> QED BY <3>1, <3>3, <3>6
  <2>7. ToSet(b.fresh) \subseteq ToSet(p)
    BY <1>1, <2>3 DEF Placing
  <2>8. /\ Len(b.win) = Len(w)
        /\ \A i \in DOMAIN w : b.win[i] = w[i] \/ (w[i].id < 0 /\ b.win[i] \in ToSet(p))
    BY <2>2 DEF Placing
  <2> QED BY <2>2, <2>4, <2>5, <2>6, <2>7, <2>8 DEF Placing, m, b
<1> QED BY <1>5, <1>6, <1>7

\* A whole page.
LEMMA PagePlaced ==
  ASSUME NEW w \in Seq(Told), NEW p, IsPage(p), NEW close
  PROVE  Placing(PlacedAll(w, p, close), w, p, Len(p), close)
<1> DEFINE n == Len(p)
<1>1. n \in Nat /\ DOMAIN p = 1..n
  BY DEF IsPage
<1> HIDE DEF n
<1>2. PICK acc : Merges(acc, w, p, n, close)
  BY <1>1, MergeSteps
<1> DEFINE P == {k \in 0..n : Placing(acc[k], w, p, k, close)}
<1>3. 0 \in P
  <2>1. acc[0] = [win |-> w, fresh |-> <<>>, known |-> Ids(w)]
    BY <1>2 DEF Merges
  <2>2. <<>> \in Seq(Told) /\ DOMAIN <<>> = {} /\ 1..0 = {}
    OBVIOUS
  <2>3. Ids(<<>>) = {} /\ ToSet(<<>>) = {} /\ Ids(w) \subseteq Int
    BY <2>2, IdsInt DEF Ids, ToSet
  <2>4. acc[0] \in Accs /\ acc[0].win = w /\ acc[0].fresh = <<>> /\ acc[0].known = Ids(w)
    BY <2>1, <2>2, <2>3 DEF Accs
  <2>5. 0 \in 0..n
    BY <1>1
  <2> HIDE DEF P
  <2> QED BY <2>2, <2>3, <2>4, <2>5 DEF Placing, P
<1>4. ASSUME NEW k \in 0..(n - 1), k \in P
      PROVE  k + 1 \in P
  <2>1. k \in Nat /\ k + 1 \in DOMAIN p /\ k + 1 \in 0..n
    BY <1>1
  <2>2. acc[k + 1] = Placed(acc[k], p[k + 1], close)
    BY <1>2 DEF Merges
  <2> QED BY <1>4, <2>1, <2>2, PlacingStep
<1>5. n \in P
  <2> HIDE DEF P
  <2>1. 0..n \subseteq P
    BY <1>1, <1>3, <1>4, Along
  <2> QED BY <1>1, <2>1
<1> QED BY <1>2, <1>5 DEF Merges, n

\* A part of a sequence is from where the sequence is from.
LEMMA PartFrom ==
  ASSUME NEW w \in Seq(Told), NEW s \in Seq(Told), NEW f, From(s, w, f),
         NEW d \in Seq(Told), NEW off \in Nat, Len(d) + off <= Len(s),
         \A i \in DOMAIN d : d[i] = s[i + off],
         NEW e, e = [i \in DOMAIN d |-> f[i + off]]
  PROVE  From(d, w, e)
<1>1. \A i \in DOMAIN d : i + off \in DOMAIN s /\ i \in Nat
  OBVIOUS
<1>2. \A i, j \in DOMAIN d : i < j => i + off < j + off
  BY <1>1
<1> QED BY <1>1, <1>2 DEF From

\* s is the entries v in the places of w, and the new ones fr, before or after them.
Joint(s, w, v, fr, S) ==
  /\ s \in Seq(Told) /\ Len(s) = Len(v) + Len(fr) /\ Ids(s) = Ids(v) \cup Ids(fr)
  /\ \E f : /\ From(s, w, f) /\ \A i \in DOMAIN s : f[i] = 0 => s[i] \in S
            /\ v = w => \A i \in DOMAIN s : f[i] = 0 => s[i].id \in Ids(fr)
            /\ (v = w /\ \A i, j \in DOMAIN fr : fr[i].id = fr[j].id => i = j) =>
                 \A i, j \in DOMAIN s : f[i] = 0 /\ f[j] = 0 /\ s[i].id = s[j].id => i = j

\* New entries, and the window with new ones in places, one after the other.
LEMMA JoinFrom ==
  ASSUME NEW w \in Seq(Told), NEW v \in Seq(Told), NEW fr \in Seq(Told), Len(v) = Len(w), NEW S,
         \A i \in DOMAIN w : v[i] = w[i] \/ v[i] \in S, ToSet(fr) \subseteq S,
         NEW s, s = fr \o v \/ s = v \o fr
  PROVE  Joint(s, w, v, fr, S)
<1> DEFINE n == Len(v)
           m == Len(fr)
<1>1. n \in Nat /\ m \in Nat /\ DOMAIN v = 1..n /\ DOMAIN w = 1..n /\ DOMAIN fr = 1..m
  OBVIOUS
<1>2. s \in Seq(Told) /\ Len(s) = n + m /\ DOMAIN s = 1..(n + m)
  <2> HIDE DEF n, m
  <2>1. (fr \o v) \in Seq(Told) /\ (v \o fr) \in Seq(Told)
    BY ConcatAt
  <2>2. Len(fr \o v) = n + m /\ Len(v \o fr) = n + m
    <3>1. Len(fr \o v) = m + n /\ Len(v \o fr) = n + m
      BY ConcatAt DEF n, m
    <3> QED BY <1>1, <3>1
  <2>3. s \in Seq(Told) /\ Len(s) = n + m
    BY <2>1, <2>2
  <2> QED BY <2>3
<1>3. PICK sv \in Nat, sf \in Nat :
        /\ \A i \in 1..n : i + sv \in 1..(n + m) /\ s[i + sv] = v[i]
        /\ \A i \in 1..m : i + sf \in 1..(n + m) /\ s[i + sf] = fr[i]
        /\ \A i \in 1..(n + m) : i - sv \in 1..n \/ i - sf \in 1..m
  <2>1. CASE s = fr \o v
    <3>1. /\ \A i \in 1..n : i + m \in 1..(n + m) /\ s[i + m] = v[i]
          /\ \A i \in 1..m : i + 0 \in 1..(n + m) /\ s[i + 0] = fr[i]
          /\ \A i \in 1..(n + m) : i - m \in 1..n \/ i - 0 \in 1..m
      BY <2>1
    <3> QED BY <1>1, <3>1
  <2>2. CASE s = v \o fr
    <3>1. /\ \A i \in 1..n : i + 0 \in 1..(n + m) /\ s[i + 0] = v[i]
          /\ \A i \in 1..m : i + n \in 1..(n + m) /\ s[i + n] = fr[i]
          /\ \A i \in 1..(n + m) : i - 0 \in 1..n \/ i - n \in 1..m
      BY <2>2
    <3> QED BY <1>1, <3>1
  <2> QED BY <2>1, <2>2
<1> HIDE DEF n, m
<1>4. \A i \in 1..(n + m) : /\ i - sv \in 1..n => s[i] = v[i - sv]
                            /\ i - sf \in 1..m => s[i] = fr[i - sf]
  <2> SUFFICES ASSUME NEW i \in 1..(n + m)
               PROVE  /\ i - sv \in 1..n => s[i] = v[i - sv]
                      /\ i - sf \in 1..m => s[i] = fr[i - sf]
    OBVIOUS
  <2>1. i - sv + sv = i /\ i - sf + sf = i
    BY <1>1
  <2> QED BY <1>3, <2>1
<1>5. Ids(s) = Ids(v) \cup Ids(fr)
  <2>1. ASSUME NEW x \in Ids(s)
        PROVE  x \in Ids(v) \cup Ids(fr)
    <3>1. PICK i \in 1..(n + m) : x = s[i].id
      BY <1>2 DEF Ids
    <3> QED BY <1>1, <1>3, <1>4, <3>1 DEF Ids
  <2>2. ASSUME NEW x \in Ids(v)
        PROVE  x \in Ids(s)
    <3>1. PICK i \in 1..n : x = v[i].id
      BY <1>1 DEF Ids
    <3>2. i + sv \in DOMAIN s /\ s[i + sv] = v[i]
      BY <1>2, <1>3
    <3> QED BY <3>1, <3>2 DEF Ids
  <2>3. ASSUME NEW x \in Ids(fr)
        PROVE  x \in Ids(s)
    <3>1. PICK i \in 1..m : x = fr[i].id
      BY <1>1 DEF Ids
    <3>2. i + sf \in DOMAIN s /\ s[i + sf] = fr[i]
      BY <1>2, <1>3
    <3> QED BY <3>1, <3>2 DEF Ids
  <2> QED BY <2>1, <2>2, <2>3
<1> DEFINE f == [i \in 1..(n + m) |->
                   IF i - sv \in 1..n /\ v[i - sv] = w[i - sv] THEN i - sv ELSE 0]
<1>6. From(s, w, f)
  <2>1. f \in [DOMAIN s -> {0} \cup DOMAIN w]
    BY <1>1, <1>2
  <2>2. \A i \in 1..(n + m) : f[i] # 0 => i - sv \in 1..n /\ s[i] = w[f[i]] /\ f[i] = i - sv
    BY <1>4
  <2> HIDE DEF f
  <2>3. \A i, j \in 1..(n + m) : i < j => i - sv < j - sv
    BY <1>1
  <2> QED BY <1>2, <2>1, <2>2, <2>3 DEF From
<1>7. \A i \in DOMAIN s : f[i] = 0 => s[i] \in S
  <2> SUFFICES ASSUME NEW i \in 1..(n + m), f[i] = 0
               PROVE  s[i] \in S
    BY <1>2
  <2>1. CASE i - sv \in 1..n
    <3>1. i - sv # 0
      BY <2>1
    <3>2. v[i - sv] # w[i - sv]
      BY <2>1, <3>1
    <3> QED BY <1>1, <1>4, <2>1, <3>2
  <2>2. CASE i - sf \in 1..m
    <3>1. fr[i - sf] \in ToSet(fr)
      BY <1>1, <2>2 DEF ToSet
    <3> QED BY <1>4, <2>2, <3>1
  <2> QED BY <1>3, <2>1, <2>2
<1>8. v = w => \A i \in DOMAIN s : f[i] = 0 => i - sf \in 1..m
  <2> SUFFICES ASSUME v = w, NEW i \in 1..(n + m), f[i] = 0
               PROVE  i - sf \in 1..m
    BY <1>2
  <2>1. i - sv \notin 1..n
    OBVIOUS
  <2> QED BY <1>3, <2>1
<1> HIDE DEF f
<1>9. v = w => \A i \in DOMAIN s : f[i] = 0 => s[i].id \in Ids(fr)
  BY <1>1, <1>2, <1>4, <1>8 DEF Ids
<1>10. ASSUME v = w, \A i, j \in DOMAIN fr : fr[i].id = fr[j].id => i = j,
              NEW i \in DOMAIN s, NEW j \in DOMAIN s, f[i] = 0, f[j] = 0, s[i].id = s[j].id
       PROVE  i = j
  <2>1. i - sf \in 1..m /\ j - sf \in 1..m /\ s[i] = fr[i - sf] /\ s[j] = fr[j - sf]
    BY <1>2, <1>4, <1>8, <1>10
  <2>2. i - sf = j - sf
    BY <1>1, <1>10, <2>1
  <2> QED BY <1>2, <2>2
<1> QED BY <1>2, <1>5, <1>6, <1>7, <1>9, <1>10 DEF Joint, n, m

\* What a page of history makes of a window.
PageMerged(d, w, p, cap, close) ==
  /\ d \in Seq(Told)
  /\ \E e : /\ From(d, w, e) /\ \A i \in DOMAIN d : e[i] = 0 => d[i] \in ToSet(p)
            /\ close = {} => \A i \in DOMAIN d : e[i] = 0 => d[i].id \notin Ids(w)
            /\ close = {} =>
                 \A i, j \in DOMAIN d : e[i] = 0 /\ e[j] = 0 /\ d[i].id = d[j].id => i = j
  /\ Len(d) < cap => Ids(p) \subseteq Ids(d) /\ \A x \in Ids(w) : x > 0 => x \in Ids(d)
  /\ Len(d) < cap /\ close = {} => Ids(w) \subseteq Ids(d)

\* Merging a page puts new entries between those of the window, and keeps the rows
\* unless it cuts.
LEMMA PageWindow ==
  ASSUME NEW w \in Seq(Told), NEW p, IsPage(p), NEW close, NEW cap \in Nat \ {0}, NEW direction
  PROVE  PageMerged(Merge(w, p, direction, cap, close), w, p, cap, close)
<1> DEFINE a == PlacedAll(w, p, close)
           v == a.win
           fr == a.fresh
           s == IF direction = "prepend" THEN fr \o v ELSE v \o fr
           d == Merge(w, p, direction, cap, close)
<1>1. Placing(a, w, p, Len(p), close)
  BY PagePlaced
<1>2. d = IF fr = <<>> \/ Len(s) <= cap THEN s
          ELSE IF direction = "prepend" THEN SubSeq(s, 1, cap)
          ELSE SubSeq(s, Len(s) - cap + 1, Len(s))
  BY DEF Merge
<1> HIDE DEF a, d
<1>3. v \in Seq(Told) /\ fr \in Seq(Told) /\ Len(v) = Len(w) /\ ToSet(fr) \subseteq ToSet(p)
  BY <1>1 DEF Placing, Accs
<1>4. \A i \in DOMAIN w : v[i] = w[i] \/ v[i] \in ToSet(p)
  BY <1>1 DEF Placing
<1>5. s = fr \o v \/ s = v \o fr
  OBVIOUS
<1>6. Ids(p) \subseteq Ids(v) \cup Ids(fr) /\ \A x \in Ids(w) : x > 0 => x \in Ids(v)
  <2>1. \A x \in Ids(w) : x > 0 => x \in Ids(v)
    <3> SUFFICES ASSUME NEW x \in Ids(w), x > 0
                 PROVE  x \in Ids(v)
      OBVIOUS
    <3>1. PICK i \in DOMAIN w : x = w[i].id
      BY DEF Ids
    <3>2. ~(w[i].id < 0)
      BY <3>1, IdsInt
    <3>3. v[i] = w[i] /\ i \in DOMAIN v
      BY <1>1, <1>3, <3>2 DEF Placing
    <3> QED BY <3>1, <3>3 DEF Ids
  <2>2. ASSUME NEW x \in Ids(p)
        PROVE  x \in Ids(v) \cup Ids(fr)
    <3>1. x > 0 /\ x \in a.known
      BY <1>1 DEF Ids, IsPage, Placing
    <3> QED BY <1>1, <2>1, <3>1 DEF Placing
  <2> QED BY <2>1, <2>2
<1>7. ASSUME close = {}
      PROVE  /\ v = w /\ Ids(fr) \cap Ids(w) = {}
             /\ \A i, j \in DOMAIN fr : fr[i].id = fr[j].id => i = j
  BY <1>1, <1>7 DEF Placing
<1> HIDE DEF v, fr, s
<1>0. Joint(s, w, v, fr, ToSet(p))
  BY <1>3, <1>4, <1>5, JoinFrom, Zenon
<1>8. s \in Seq(Told) /\ Len(s) = Len(v) + Len(fr) /\ Ids(s) = Ids(v) \cup Ids(fr)
  BY <1>0 DEF Joint
<1>9. PICK f : /\ From(s, w, f) /\ \A i \in DOMAIN s : f[i] = 0 => s[i] \in ToSet(p)
               /\ v = w => \A i \in DOMAIN s : f[i] = 0 => s[i].id \in Ids(fr)
               /\ (v = w /\ \A i, j \in DOMAIN fr : fr[i].id = fr[j].id => i = j) =>
                    \A i, j \in DOMAIN s : f[i] = 0 /\ f[j] = 0 /\ s[i].id = s[j].id => i = j
  BY <1>0 DEF Joint
<1>10. PICK off \in Nat :
         /\ d \in Seq(Told) /\ Len(d) + off <= Len(s) /\ \A i \in DOMAIN d : d[i] = s[i + off]
         /\ d = s \/ Len(d) = cap
  <2>1. Len(s) \in Nat
    BY <1>8
  <2>2. CASE d = s
    BY <1>8, <2>1, <2>2
  <2>3. CASE d # s /\ direction = "prepend"
    <3>1. d = SubSeq(s, 1, cap) /\ cap <= Len(s)
      BY <1>2, <2>1, <2>3
    <3>2. d \in Seq(Told) /\ Len(d) = cap /\ \A i \in DOMAIN d : d[i] = s[i + 0]
      BY <1>8, <2>1, <3>1
    <3> QED BY <2>1, <3>1, <3>2
  <2>4. CASE d # s /\ direction # "prepend"
    <3> DEFINE o == Len(s) - cap
    <3>1. d = SubSeq(s, o + 1, Len(s)) /\ o \in Nat /\ Len(s) - (o + 1) + 1 = cap
      BY <1>2, <2>1, <2>4
    <3> HIDE DEF o
    <3>2. d \in Seq(Told) /\ Len(d) = cap /\ \A i \in DOMAIN d : d[i] = s[i + o]
      BY <1>8, <2>1, <3>1
    <3>3. Len(d) + o <= Len(s)
      BY <2>1, <3>1, <3>2
    <3> QED BY <3>1, <3>2, <3>3
  <2> QED BY <2>2, <2>3, <2>4
<1> DEFINE e == [i \in DOMAIN d |-> f[i + off]]
<1>11. From(d, w, e)
  <2>1. e = [i \in DOMAIN d |-> f[i + off]]
    OBVIOUS
  <2> HIDE DEF e
  <2> QED BY <1>8, <1>9, <1>10, <2>1, PartFrom, Zenon
<1>12. \A i \in DOMAIN d : i + off \in DOMAIN s /\ e[i] = f[i + off] /\ i \in Nat
  BY <1>8, <1>10
<1> HIDE DEF e
<1>13. \A i \in DOMAIN d : e[i] = 0 => d[i] \in ToSet(p)
  BY <1>9, <1>10, <1>12
<1>14. close = {} => \A i \in DOMAIN d : e[i] = 0 => d[i].id \notin Ids(w)
  BY <1>7, <1>9, <1>10, <1>12
<1>15. ASSUME close = {}, NEW i \in DOMAIN d, NEW j \in DOMAIN d, e[i] = 0, e[j] = 0, d[i].id = d[j].id
       PROVE  i = j
  <2>1. i + off = j + off
    BY SMTT(40), <1>7, <1>9, <1>10, <1>12, <1>15
  <2> QED BY <1>12, <2>1
<1>16. /\ Len(d) < cap => Ids(p) \subseteq Ids(d) /\ \A x \in Ids(w) : x > 0 => x \in Ids(d)
       /\ Len(d) < cap /\ close = {} => Ids(w) \subseteq Ids(d)
  <2>1. Len(d) < cap => d = s
    BY <1>10
  <2> QED BY <1>6, <1>7, <1>8, <2>1
<1> QED BY <1>10, <1>11, <1>13, <1>14, <1>15, <1>16 DEF PageMerged, d


-----------------------------------------------------------------------------
(***************************************************************************)
(* Live messages, edits and deletions in the window                        *)
(***************************************************************************)

\* No entry of the window waits for the message.
Unasked(w, m) == \A j \in DOMAIN w : m.cid # 0 => w[j].id # m.cid

\* The message takes the place of an entry of its author that waits for a row.
Put(d, w, m) ==
  \E i \in DOMAIN w :
    /\ \/ m.cid # 0 /\ w[i].id = m.cid
       \/ Unasked(w, m) /\ m.id >= 0 /\ w[i].id < 0 /\ w[i].user = m.user
    /\ d = [w EXCEPT ![i] = m]

\* The message is in the window already.
Known(d, w, m) == Unasked(w, m) /\ m.id \in Ids(w) /\ d = w

\* The message goes to the end, and the first entries go if there are too many.
Added(d, w, m) ==
  /\ Unasked(w, m) /\ m.id \notin Ids(w)
  /\ d # <<>> /\ d[Len(d)] = m
  /\ \E e : From(d, w, e) /\ \A i \in DOMAIN d : e[i] = 0 <=> i = Len(d)
  /\ Len(d) < MessageCap => Ids(d) = Ids(w) \cup {m.id}

\* A live message, or one the page shows before the answer.
LEMMA LiveWindow ==
  ASSUME NEW w \in Seq(Told), NEW m \in Told, NEW close, NEW d, d = AddMessage(w, m, close)
  PROVE  d \in Seq(Told) /\ (Put(d, w, m) \/ Known(d, w, m) \/ Added(d, w, m))
<1> DEFINE a == [win |-> w, fresh |-> <<>>, known |-> Ids(w)]
           b == Placed(a, m, close)
           own == OwnEntry(w, m)
           twins == IF Optimistic(m) THEN {} ELSE Twins(w, m, close)
           at == IF own # {} THEN Min(own) ELSE Max(twins)
           s == IF b.fresh = <<>> THEN b.win ELSE b.win \o b.fresh
<1>1. PlacedAll(w, <<m>>, close) = b
  BY MergeOne
<1>2. DOMAIN w = 1..Len(w) /\ Len(w) \in Nat /\ own \subseteq 1..Len(w) /\ twins \subseteq 1..Len(w)
  BY DEF OwnEntry, Twins
<1>3. own = {} <=> Unasked(w, m)
  BY DEF OwnEntry, Unasked
<1>4. b = IF own \cup twins # {}
          THEN [a EXCEPT !.win[at] = m, !.known = @ \cup {m.id}]
          ELSE IF m.id \in Ids(w) THEN a
          ELSE [a EXCEPT !.fresh = Append(@, m), !.known = @ \cup {m.id}]
  BY DEF Placed
<1>5. d = IF b.fresh = <<>> \/ Len(b.win \o b.fresh) <= MessageCap THEN b.win \o b.fresh
          ELSE SubSeq(b.win \o b.fresh, Len(b.win \o b.fresh) - MessageCap + 1, Len(b.win \o b.fresh))
  BY <1>1 DEF AddMessage, Merge
<1> HIDE DEF b
<1>6. CASE own \cup twins # {}
  <2>1. at \in DOMAIN w /\ at \in own \cup twins /\ (own # {} => at \in own)
    <3>1. CASE own # {}
      <4>1. \E x \in own : \A y \in own : x <= y
        <5>1. own \subseteq Nat
          BY <1>2
        <5> HIDE DEF own
        <5> QED BY <3>1, <5>1, Least
      <4>2. Min(own) \in own
        BY <4>1 DEF Min
      <4> QED BY <1>2, <3>1, <4>2
    <3>2. CASE own = {}
      <4>1. Max(twins) \in twins
        <5> HIDE DEF twins, own
        <5> QED BY <1>2, <1>6, <3>2, Greatest
      <4> QED BY <1>2, <3>2, <4>1
    <3> QED BY <3>1, <3>2
  <2>2. \/ m.cid # 0 /\ w[at].id = m.cid
        \/ Unasked(w, m) /\ m.id >= 0 /\ w[at].id < 0 /\ w[at].user = m.user
    <3>1. CASE own # {}
      BY <2>1, <3>1 DEF OwnEntry
    <3>2. CASE own = {}
      <4>1. ~Optimistic(m) /\ at \in Twins(w, m, close)
        BY <2>1, <3>2
      <4>2. m.id >= 0
        <5>1. m.id \in Int
          BY DEF Told
        <5> HIDE DEF at, own, twins
        <5> QED BY <4>1, <5>1 DEF Optimistic
      <4> HIDE DEF at, own
      <4> QED BY <1>3, <3>2, <4>1, <4>2 DEF Twins, Optimistic
    <3> QED BY <3>1, <3>2
  <2> HIDE DEF at, own, twins
  <2>3. b.win = [w EXCEPT ![at] = m] /\ b.fresh = <<>>
    BY <1>4, <1>6
  <2>4. b.win \in Seq(Told)
    BY <2>1, <2>3, InPlace
  <2>5. d = b.win
    BY <1>5, <2>3, <2>4
  <2> QED BY <2>1, <2>2, <2>3, <2>4, <2>5 DEF Put
<1>7. CASE own \cup twins = {} /\ m.id \in Ids(w)
  <2>1. b.win = w /\ b.fresh = <<>>
    BY <1>4, <1>7
  <2>2. d = w
    BY <1>5, <2>1
  <2> QED BY <1>3, <1>7, <2>2 DEF Known
<1>8. CASE own \cup twins = {} /\ m.id \notin Ids(w)
  <2> HIDE DEF own, twins
  <2>1. b.win = w /\ b.fresh = <<m>>
    <3>1. Append(<<>>, m) = <<m>>
      OBVIOUS
    <3>2. a.fresh = <<>> /\ a.win = w /\ "fresh" \in DOMAIN a /\ "known" \in DOMAIN a
      OBVIOUS
    <3> HIDE DEF a
    <3>3. b.fresh = Append(a.fresh, m) /\ b.win = a.win
      BY <1>4, <1>8, <3>2
    <3> QED BY <3>1, <3>2, <3>3
  <2> DEFINE t == Append(w, m)
             n == Len(w) + 1
  <2>2. /\ t \in Seq(Told) /\ Len(t) = n /\ t[n] = m /\ DOMAIN t = 1..n /\ n \in Nat
        /\ \A i \in 1..Len(w) : t[i] = w[i]
    OBVIOUS
  <2>3. Ids(t) = Ids(w) \cup {m.id}
    BY IdsAppend
  <2>4. w \o <<m>> = t /\ <<m>> # <<>>
    OBVIOUS
  <2>5. MessageCap \in Nat \ {0}
    BY MessageWindowAssumption
  <2> HIDE DEF t
  <2>6. d = IF n <= MessageCap THEN t ELSE SubSeq(t, n - MessageCap + 1, n)
    <3> HIDE DEF n
    <3> QED BY <1>5, <2>1, <2>2, <2>4
  <2>7. PICK off \in Nat :
          /\ d \in Seq(Told) /\ Len(d) = n - off /\ Len(d) # 0 /\ \A i \in DOMAIN d : d[i] = t[i + off]
          /\ off = 0 \/ Len(d) = MessageCap
    <3>1. CASE n <= MessageCap
      <4>1. d = t
        BY <2>6, <3>1
      <4>2. Len(d) = n - 0 /\ \A i \in DOMAIN d : d[i] = t[i + 0]
        BY <2>2, <4>1
      <4> QED BY <1>2, <2>2, <4>1, <4>2
    <3>2. CASE ~(n <= MessageCap)
      <4> DEFINE o == n - MessageCap
      <4>1. d = SubSeq(t, o + 1, n) /\ o \in Nat /\ n - (o + 1) + 1 = MessageCap
        BY <1>2, <2>5, <2>6, <3>2
      <4>2. MessageCap = n - o
        BY <1>2, <2>5
      <4> HIDE DEF o, n
      <4>3. d \in Seq(Told) /\ Len(d) = MessageCap /\ \A i \in DOMAIN d : d[i] = t[i + o]
        BY <2>2, <2>5, <4>1
      <4> QED BY <2>5, <4>1, <4>2, <4>3
    <3> QED BY <3>1, <3>2
  <2>8. Len(d) \in Nat /\ DOMAIN d = 1..Len(d) /\ Len(d) \in DOMAIN d /\ Len(d) + off = n
    BY <1>2, <2>7
  <2>9. d # <<>> /\ d[Len(d)] = m
    BY <2>2, <2>7, <2>8
  <2>10. \E e : From(d, w, e) /\ \A i \in DOMAIN d : e[i] = 0 <=> i = Len(d)
    <3> DEFINE e == [i \in DOMAIN d |-> IF i = Len(d) THEN 0 ELSE i + off]
    <3>1. \A i \in DOMAIN d : i # Len(d) => i + off \in 1..Len(w) /\ d[i] = w[i + off]
      <4> SUFFICES ASSUME NEW i \in DOMAIN d, i # Len(d)
                   PROVE  i + off \in 1..Len(w) /\ d[i] = w[i + off]
        OBVIOUS
      <4>1. i + off \in 1..Len(w)
        BY <1>2, <2>8
      <4> QED BY <2>2, <2>7, <4>1
    <3>2. \A i \in DOMAIN d : e[i] = 0 <=> i = Len(d)
      BY <2>8
    <3>3. From(d, w, e)
      <4>1. \A i, j \in DOMAIN d : i < j => i + off < j + off
        BY <2>8
      <4> QED BY <1>2, <3>1, <4>1 DEF From
    <3> QED BY <3>2, <3>3
  <2>11. Len(d) < MessageCap => Ids(d) = Ids(w) \cup {m.id}
    <3> SUFFICES ASSUME Len(d) < MessageCap
                 PROVE  Ids(d) = Ids(w) \cup {m.id}
      OBVIOUS
    <3>1. off = 0
      BY <2>5, <2>7
    <3>2. Len(d) = n /\ \A i \in 1..n : d[i] = t[i]
      BY <1>2, <2>7, <2>8, <3>1
    <3>3. d = t
      BY <2>2, <2>7, <3>2
    <3> QED BY <2>3, <3>3
  <2> QED BY <1>3, <1>8, <2>7, <2>9, <2>10, <2>11 DEF Added
<1> QED BY <1>6, <1>7, <1>8

\* a is the first k entries of w without those of the id: a[i] is w[e[i]].
Kept(a, e, w, k, id) ==
  /\ Len(e) = Len(a)
  /\ \A i \in 1..Len(a) : e[i] \in 1..k /\ a[i] = w[e[i]] /\ a[i].id # id
  /\ \A i, j \in 1..Len(a) : i < j => e[i] < e[j]
  /\ \A p \in 1..k : w[p].id # id => \E i \in 1..Len(a) : e[i] = p

\* What is left of a window without the entries of an id.
Without(d, w, id) ==
  /\ d \in Seq(Told)
  /\ \E e : From(d, w, e) /\ \A i \in DOMAIN d : e[i] # 0
  /\ Ids(d) = Ids(w) \ {id}

\* A deletion keeps the other entries, in their order.
LEMMA DeleteWindow ==
  ASSUME NEW w \in Seq(Told), NEW id, NEW d, d = DeleteMessage(w, id)
  PROVE  Without(d, w, id)
<1> DEFINE n == Len(w)
<1>1. n \in Nat /\ DOMAIN w = 1..n /\ \A i \in 1..n : w[i] \in Told
  OBVIOUS
<1> HIDE DEF n
<1>2. PICK acc : Deletes(acc, w, n, id)
  BY <1>1, DeleteSteps
<1> DEFINE P == {k \in 0..n : acc[k] \in Seq(Told) /\ \E e \in Seq(Nat) : Kept(acc[k], e, w, k, id)}
<1>3. 0 \in P
  <2>1. <<>> \in Seq(Told) /\ <<>> \in Seq(Nat) /\ Len(<<>>) = 0 /\ 1..0 = {}
    OBVIOUS
  <2>2. Kept(<<>>, <<>>, w, 0, id)
    BY <2>1 DEF Kept
  <2>3. 0 \in 0..n /\ acc[0] = <<>>
    BY <1>1, <1>2 DEF Deletes
  <2> QED BY <2>1, <2>2, <2>3, Zenon
<1>4. ASSUME NEW k \in 0..(n - 1), k \in P
      PROVE  k + 1 \in P
  <2> DEFINE a == acc[k]
  <2>1. PICK e \in Seq(Nat) : Kept(a, e, w, k, id)
    BY <1>4
  <2>2. a \in Seq(Told) /\ k \in Nat /\ k + 1 \in 0..n /\ k + 1 \in 1..n /\ w[k + 1] \in Told
    BY <1>1, <1>4
  <2>3. acc[k + 1] = IF w[k + 1].id = id THEN a ELSE Append(a, w[k + 1])
    BY <1>2 DEF Deletes
  <2> HIDE DEF a
  <2>0. Len(a) \in Nat /\ 1..(k + 1) = (1..k) \cup {k + 1}
    BY <2>2
  <2>4. CASE w[k + 1].id = id
    <3>1. Kept(a, e, w, k + 1, id)
      BY <2>0, <2>1, <2>2, <2>4 DEF Kept
    <3>2. acc[k + 1] = a
      BY <2>3, <2>4
    <3> QED BY <2>1, <2>2, <3>1, <3>2, Zenon
  <2>5. CASE w[k + 1].id # id
    <3> DEFINE b == Append(a, w[k + 1])
               f == Append(e, k + 1)
    <3>1. /\ b \in Seq(Told) /\ Len(b) = Len(a) + 1 /\ b[Len(a) + 1] = w[k + 1]
          /\ \A i \in 1..Len(a) : b[i] = a[i]
      BY <2>2
    <3>2. Len(e) = Len(a)
      BY <2>1 DEF Kept
    <3>3. /\ f \in Seq(Nat) /\ Len(f) = Len(a) + 1 /\ f[Len(a) + 1] = k + 1
          /\ \A i \in 1..Len(a) : f[i] = e[i]
      BY <2>1, <2>2, <3>2
    <3>4. acc[k + 1] = b
      BY <2>3, <2>5
    <3> HIDE DEF b, f
    <3>5. 1..Len(b) = (1..Len(a)) \cup {Len(a) + 1}
      BY <2>0, <3>1
    <3>6. Kept(b, f, w, k + 1, id)
      <4>1. Len(f) = Len(b)
        BY <3>1, <3>3
      <4>2. ASSUME NEW i \in 1..Len(b)
            PROVE  f[i] \in 1..(k + 1) /\ b[i] = w[f[i]] /\ b[i].id # id
        <5>1. CASE i \in 1..Len(a)
          <6>1. e[i] \in 1..k /\ a[i] = w[e[i]] /\ a[i].id # id
            BY <2>1, <5>1 DEF Kept
          <6>2. f[i] = e[i] /\ b[i] = a[i]
            BY <3>1, <3>3, <5>1
          <6> QED BY <2>2, <5>1, <6>1, <6>2
        <5>2. CASE i = Len(a) + 1
          BY <2>0, <2>2, <2>5, <3>1, <3>3, <3>5, <5>2
        <5> QED BY <3>5, <5>1, <5>2
      <4>3. ASSUME NEW i \in 1..Len(b), NEW j \in 1..Len(b), i < j
            PROVE  f[i] < f[j]
        <5>1. i \in 1..Len(a)
          BY <2>0, <3>1, <4>3
        <5>2. CASE j \in 1..Len(a)
          BY <2>1, <3>3, <4>3, <5>1, <5>2 DEF Kept
        <5>3. CASE j = Len(a) + 1
          <6>1. e[i] \in 1..k
            BY <2>1, <5>1 DEF Kept
          <6> QED BY <2>2, <3>3, <5>1, <5>3, <6>1
        <5> QED BY <3>5, <5>2, <5>3
      <4>4. ASSUME NEW p \in 1..(k + 1), w[p].id # id
            PROVE  \E i \in 1..Len(b) : f[i] = p
        <5>1. CASE p \in 1..k
          <6>1. PICK i \in 1..Len(a) : e[i] = p
            BY <2>1, <4>4, <5>1 DEF Kept
          <6> QED BY <3>3, <3>5, <6>1
        <5>2. CASE p = k + 1
          BY <3>3, <3>5, <5>2
        <5> QED BY <2>0, <5>1, <5>2
      <4> QED BY <4>1, <4>2, <4>3, <4>4 DEF Kept
    <3> QED BY <2>2, <3>1, <3>3, <3>4, <3>6, Zenon
  <2> QED BY <2>4, <2>5
<1>5. n \in P
  <2> HIDE DEF P
  <2>1. 0..n \subseteq P
    BY <1>1, <1>3, <1>4, Along
  <2> QED BY <1>1, <2>1
<1>6. DeleteMessage(w, id) = acc[n]
  BY <1>2 DEF Deletes
<1>7. d \in Seq(Told)
  BY <1>5, <1>6
<1>8. PICK e \in Seq(Nat) : Kept(d, e, w, n, id)
  BY <1>5, <1>6
<1>9. DOMAIN d = 1..Len(d) /\ Len(d) \in Nat
  BY <1>7
<1>10. Ids(d) = Ids(w) \ {id}
  <2>1. ASSUME NEW x \in Ids(d)
        PROVE  x \in Ids(w) \ {id}
    BY <1>1, <1>8, <1>9 DEF Ids, Kept
  <2>2. ASSUME NEW x \in Ids(w), x # id
        PROVE  x \in Ids(d)
    <3>1. PICK p \in 1..n : x = w[p].id
      BY <1>1 DEF Ids
    <3>2. PICK i \in 1..Len(d) : e[i] = p /\ d[i] = w[e[i]]
      BY <1>8, <2>2, <3>1 DEF Kept
    <3> QED BY <1>9, <3>1, <3>2 DEF Ids
  <2> QED BY <2>1, <2>2
<1> DEFINE f == [i \in DOMAIN d |-> e[i]]
<1>11. From(d, w, f) /\ \A i \in DOMAIN d : f[i] # 0
  <2>1. \A i \in DOMAIN d : f[i] = e[i] /\ e[i] \in 1..n /\ d[i] = w[e[i]]
    BY <1>8, <1>9 DEF Kept
  <2>2. f \in [DOMAIN d -> {0} \cup DOMAIN w]
    BY <1>1, <2>1
  <2> HIDE DEF f
  <2>3. \A i \in DOMAIN d : f[i] # 0 /\ d[i] = w[f[i]]
    BY <2>1
  <2>4. \A i, j \in DOMAIN d : i < j => f[i] < f[j]
    <3>1. \A i, j \in 1..Len(d) : i < j => e[i] < e[j]
      BY <1>8 DEF Kept
    <3> QED BY <1>9, <2>1, <3>1
  <2> QED BY <2>2, <2>3, <2>4 DEF From
<1> QED BY <1>7, <1>10, <1>11 DEF Without

\* The entries of a window.
LEMMA EntriesAre ==
  ASSUME NEW w \in Seq(Told)
  PROVE  DOMAIN w = 1..Len(w) /\ Len(w) \in Nat /\ \A i \in DOMAIN w : w[i] \in Told
OBVIOUS

\* An edit changes the text of the entries of the id.
LEMMA EditWindow ==
  ASSUME NEW w \in Seq(Told), NEW id, NEW text \in TextOrNone,
         NEW d, d = EditMessageInPlace(w, id, text)
  PROVE  /\ d \in Seq(Told) /\ Len(d) = Len(w) /\ DOMAIN d = DOMAIN w /\ Ids(d) = Ids(w)
         /\ \A i \in DOMAIN w : /\ d[i].id = w[i].id /\ d[i].cid = w[i].cid /\ d[i].user = w[i].user
                                /\ w[i].id # id => d[i] = w[i]
                                /\ w[i].id = id => d[i].text = text
<1> DEFINE e(m) == [m EXCEPT !.text = text]
<1>1. DOMAIN w = 1..Len(w) /\ Len(w) \in Nat /\ \A i \in DOMAIN w : w[i] \in Told
  BY EntriesAre
<1>2. d = [i \in DOMAIN w |-> IF w[i].id = id THEN e(w[i]) ELSE w[i]]
  BY DEF EditMessageInPlace
<1>3. ASSUME NEW m \in Told
      PROVE  /\ e(m) \in Told /\ e(m).id = m.id /\ e(m).cid = m.cid /\ e(m).user = m.user
             /\ e(m).text = text
  BY DEF Told
<1> HIDE DEF e
<1>4. \A i \in DOMAIN w : d[i] = IF w[i].id = id THEN e(w[i]) ELSE w[i]
  BY <1>2
<1>5. \A i \in DOMAIN w : d[i] \in Told
  BY <1>1, <1>3, <1>4
<1>6. DOMAIN d = DOMAIN w /\ d = [i \in 1..Len(w) |-> d[i]]
  BY <1>1, <1>2
<1>7. d \in Seq(Told) /\ Len(d) = Len(w) /\ DOMAIN d = DOMAIN w
  <2>1. d \in [1..Len(w) -> Told]
    BY <1>1, <1>5, <1>6
  <2>2. d \in Seq(Told)
    BY <2>1, <1>1
  <2>3. DOMAIN d = 1..Len(d) /\ Len(d) \in Nat
    BY <2>2, EntriesAre
  <2>4. Len(d) = Len(w)
    BY <1>1, <1>6, <2>3
  <2> QED BY <1>6, <2>2, <2>4
<1>8. \A i \in DOMAIN w : /\ d[i].id = w[i].id /\ d[i].cid = w[i].cid /\ d[i].user = w[i].user
                          /\ w[i].id # id => d[i] = w[i]
                          /\ w[i].id = id => d[i].text = text
  BY <1>1, <1>3, <1>4
<1>9. Ids(d) = Ids(w)
  <2>1. ASSUME NEW x
        PROVE  x \in Ids(d) <=> x \in Ids(w)
    BY <1>7, <1>8 DEF Ids
  <2> QED BY <2>1
<1> QED BY <1>7, <1>8, <1>9


-----------------------------------------------------------------------------
(***************************************************************************)
(* Kinds of requests, frames and jobs                                      *)
(***************************************************************************)

\* What a request says, by its kind.
LEMMA RequestKinds ==
  ASSUME NEW r \in Requests
  PROVE  /\ r.kind \in {"join", "message", "edit", "delete", "load"}
         /\ r.kind = "message" => r.cid \in Int /\ r.text \in Texts
         /\ r.kind = "edit" => r.id \in Int /\ r.text \in Edits
         /\ r.kind = "delete" => r.id \in Int
         /\ r.kind = "load" => r.before \in Nat
BY DEF Requests

\* The requests that a page makes.
LEMMA RequestsMade ==
  /\ [kind |-> "join"] \in Requests
  /\ \A i \in Int, t \in Texts : [kind |-> "message", cid |-> i, text |-> t] \in Requests
  /\ \A i \in Int, t \in Edits : [kind |-> "edit", id |-> i, text |-> t] \in Requests
  /\ \A i \in Int : [kind |-> "delete", id |-> i] \in Requests
  /\ \A n \in Nat : [kind |-> "load", before |-> n] \in Requests
BY DEF Requests

\* What a frame says, by its kind.
LEMMA FrameKinds ==
  ASSUME NEW f \in Frames
  PROVE  /\ f.kind \in {"history", "message", "edit", "delete"}
         /\ f.kind = "history" => f \in Histories /\ f.messages \in Seq(Told)
         /\ f.kind = "message" => f \in Tidings /\ f.message \in Told
         /\ f.kind = "edit" => f \in Tidings /\ f.id \in Int /\ f.text \in TextOrNone
         /\ f.kind = "delete" => f \in Deletions /\ f.id \in Int
BY DEF Frames, Histories, Tidings, Deletions

\* The frames that goroutines make.
LEMMA FramesMade ==
  /\ \A p \in Seq(Told) : [kind |-> "history", messages |-> p] \in Histories
  /\ \A m \in Told : [kind |-> "message", message |-> m] \in Tidings
  /\ \A i \in Int, t \in TextOrNone : [kind |-> "edit", id |-> i, text |-> t] \in Tidings
  /\ \A i \in Int : [kind |-> "delete", id |-> i] \in Deletions
  /\ Histories \subseteq Frames /\ Tidings \subseteq Frames /\ Deletions \subseteq Frames
  /\ \A f \in Histories : f.kind = "history"
  /\ \A f \in Tidings : f.kind = "message" \/ f.kind = "edit"
  /\ \A f \in Deletions : f.kind = "delete"
BY DEF Frames, Histories, Tidings, Deletions

\* What a goroutine is doing, and what it holds.
LEMMA JobKinds ==
  ASSUME NEW j \in Jobs
  PROVE  /\ j.at \in {"idle", "greeting", "answering", "fanning", "publishing"}
         /\ j.at = "idle" <=> j = Idle
         /\ j.at = "answering" => j.frame \in Histories
         /\ j.at = "fanning" => j.frame \in Tidings
         /\ j.at = "publishing" => j.frame \in Deletions
BY DEF Jobs, Idle

\* The jobs there are.
LEMMA JobsMade ==
  /\ Idle \in Jobs /\ [at |-> "greeting"] \in Jobs /\ Idle.at = "idle"
  /\ \A f \in Histories : [at |-> "answering", frame |-> f] \in Jobs
  /\ \A f \in Tidings : [at |-> "fanning", frame |-> f] \in Jobs
  /\ \A f \in Deletions : [at |-> "publishing", frame |-> f] \in Jobs
BY DEF Jobs, Idle

\* The frame that tells a message.
LEMMA TextsTold == "" \in TextOrNone /\ Texts \subseteq TextOrNone /\ Edits \subseteq TextOrNone
BY DEF TextOrNone


-----------------------------------------------------------------------------
(***************************************************************************)
(* Pages of history                                                        *)
(***************************************************************************)

\* A row as it is told.
LEMMA RowTold ==
  ASSUME rows \in Seq(RowType), NEW id \in DOMAIN rows
  PROVE  /\ Row(id) \in Told /\ Row(id).id = id /\ Row(id).cid = 0 /\ Row(id).user = rows[id].user
         /\ ~rows[id].gone => Row(id).text = rows[id].text
<1>1. rows[id] \in RowType /\ id \in Int
  OBVIOUS
<1>2. rows[id].text \in TextOrNone /\ rows[id].user \in Users
  BY <1>1 DEF RowType, TextOrNone
<1>3. (IF rows[id].gone THEN "" ELSE rows[id].text) \in TextOrNone
  BY <1>2, TextsTold
<1> DEFINE t == IF rows[id].gone THEN "" ELSE rows[id].text
<1>4. t \in TextOrNone /\ (~rows[id].gone => t = rows[id].text)
  BY <1>3
<1>5. Row(id) = [id |-> id, cid |-> 0, user |-> rows[id].user, text |-> t]
  BY DEF Row
<1> HIDE DEF t
<1> QED BY <1>1, <1>2, <1>4, <1>5 DEF Told

\* A page of history is of the store, and the newest one has the last rows.
LEMMA PageOf ==
  ASSUME rows \in Seq(RowType), NEW limit \in Nat \ {0}, NEW before \in Nat,
         NEW p, p = GetRoomMessages(limit, before)
  PROVE  /\ p \in Seq(Told) /\ IsPage(p)
         /\ \A i \in DOMAIN p : p[i].id \in DOMAIN rows /\ p[i].user = rows[p[i].id].user
         /\ before > Len(rows) =>
              \A id \in DOMAIN rows : id > Len(rows) - limit => id \in Ids(p)
<1> DEFINE len == Len(rows)
           last == Min({before - 1, len})
           first == Max({1, last - limit + 1})
           n == last - first + 1
<1>1. len \in Nat /\ DOMAIN rows = 1..len /\ before - 1 \in Int
  OBVIOUS
<1>2. last = IF before - 1 <= len THEN before - 1 ELSE len
  BY <1>1, SmallerOf
<1>3. last \in Int /\ last <= len /\ (before > len => last = len)
  <2> HIDE DEF last, len
  <2> QED BY <1>1, <1>2
<1>4. p = [i \in 1..n |-> Row(first + i - 1)]
  BY DEF GetRoomMessages
<1> HIDE DEF last, len
<1>5. first = IF 1 >= last - limit + 1 THEN 1 ELSE last - limit + 1
  BY <1>3, GreaterOf
<1>6. first \in Int /\ first >= 1 /\ first >= last - limit + 1 /\ (first = 1 \/ first = last - limit + 1)
  <2> HIDE DEF first
  <2> QED BY <1>3, <1>5
<1> HIDE DEF first
<1>7. n \in Int /\ \A i \in 1..n : first + i - 1 \in DOMAIN rows
  BY <1>1, <1>3, <1>6
<1>8. \A id \in first..last : id - first + 1 \in 1..n /\ first + (id - first + 1) - 1 = id
  BY <1>3, <1>6
<1> HIDE DEF n
<1>9. \A i \in 1..n : p[i] \in Told /\ p[i].id = first + i - 1 /\ p[i].cid = 0 /\ p[i].user = rows[first + i - 1].user
  BY <1>4, <1>7, RowTold
<1>10. p \in Seq(Told) /\ DOMAIN p = 1..n
  <2>1. CASE n >= 0
    <3>1. n \in Nat
      BY <1>7, <2>1
    <3>2. p \in [1..n -> Told]
      BY <1>4, <1>9
    <3> QED BY <3>1, <3>2
  <2>2. CASE n < 0
    <3>1. 1..n = {} /\ 1..0 = {}
      BY <1>7, <2>2
    <3>2. p \in [1..0 -> Told]
      BY <1>4, <3>1
    <3>3. p \in Seq(Told)
      BY <3>2
    <3> QED BY <1>4, <3>3
  <2> QED BY <1>7, <2>1, <2>2
<1>11. \A i \in DOMAIN p : p[i].id \in DOMAIN rows /\ p[i].user = rows[p[i].id].user
  BY <1>7, <1>9, <1>10
<1>12. IsPage(p)
  <2>1. \A i \in DOMAIN p : p[i].id > 0
    BY <1>1, <1>11
  <2> QED BY <1>9, <1>10, <2>1 DEF IsPage
<1>13. ASSUME before > len, NEW id \in DOMAIN rows, id > len - limit
       PROVE  id \in Ids(p)
  <2>1. id \in first..last
    BY <1>1, <1>3, <1>6, <1>13
  <2>2. id - first + 1 \in 1..n /\ p[id - first + 1].id = id
    BY <1>8, <1>9, <2>1
  <2> QED BY <1>10, <2>2 DEF Ids
<1> QED BY <1>10, <1>11, <1>12, <1>13 DEF len


-----------------------------------------------------------------------------
(***************************************************************************)
(* Types                                                                   *)
(***************************************************************************)

\* The constants.
LEMMA FeedConstants ==
  /\ Stored \in Seq(Users) /\ Len(Stored) \in Nat /\ DOMAIN Stored = 1..Len(Stored)
  /\ \A i \in DOMAIN Stored : Stored[i] \in Users
  /\ MaxAsked \in Nat /\ ChanCap \in Nat \ {0} /\ JoinPage \in Nat \ {0} /\ OlderPage \in Nat \ {0}
  /\ MaxId \in Nat /\ MaxId = Len(Stored) + MaxAsked
  /\ Owner \in [Conns -> Users] /\ None \notin Conns /\ MessageCap <= HistoryCap
<1>1. /\ Stored \in Seq(Users) /\ MaxAsked \in Nat /\ Owner \in [Conns -> Users]
      /\ None \notin Conns /\ MessageCap <= HistoryCap
      /\ ChanCap \in Nat \ {0} /\ JoinPage \in Nat \ {0} /\ OlderPage \in Nat \ {0}
  BY RoomFeedAssumption, Zenon
<1>2. Len(Stored) \in Nat /\ DOMAIN Stored = 1..Len(Stored) /\ \A i \in DOMAIN Stored : Stored[i] \in Users
  BY <1>1
<1>3. MaxId \in Nat /\ MaxId = Len(Stored) + MaxAsked
  BY <1>1, <1>2 DEF MaxId
<1> QED BY <1>1, <1>2, <1>3

\* The steps of the feed.
LEMMA FeedSteps ==
  ASSUME Types, FeedNext
  PROVE  \/ \E u \in Users, c \in Conns : OpenSocket(u, c)
         \/ \E u \in Users : LoseSocket(u)
         \/ \E u \in Users, t \in Texts : SendMessage(u, t)
         \/ \E u \in Users, r \in Requests :
              /\ AskAbout(u, r) /\ r.kind \in {"edit", "delete", "load"}
              /\ r.kind \in {"edit", "delete"} => r.id \in Own(u) /\ r.id > 0
         \/ \E u \in Users : Handle(u)
         \/ \E c \in Conns : HandleJoin(c)
         \/ \E c \in Conns : ReadHistory(c)
         \/ \E c \in Conns : HandleLoadHistory(c)
         \/ \E c \in Conns : Answer(c)
         \/ \E c \in Conns : HandleChatMessage(c)
         \/ \E c \in Conns : Refuse(c)
         \/ \E c \in Conns : HandleMessageEdit(c)
         \/ \E c \in Conns : BroadcastToRoom(c)
         \/ \E c \in Conns : HandleMessageDelete(c)
         \/ \E c \in Conns : Publish(c)
         \/ HubRegister
         \/ HubBroadcast
<1>0. MaxId \in Nat
  BY FeedConstants
<1>1. ASSUME NEW u \in Users, LoadHistory(u)
      PROVE  \E r \in Requests : AskAbout(u, r) /\ r.kind = "load"
  <2>1. PICK time \in 1..(MaxId + 1) : AskAbout(u, [kind |-> "load", before |-> time])
    BY <1>1 DEF LoadHistory
  <2>2. time \in Nat
    BY <1>0
  <2> QED BY <2>1, <2>2, RequestsMade
<1>2. ASSUME NEW u \in Users, NEW id \in Own(u)
      PROVE  id \in Int
  <2>1. win[u] \in Seq(Told)
    BY DEF Types
  <2>2. \A i \in DOMAIN win[u] : win[u][i] \in Told
    BY <2>1, EntriesAre
  <2> QED BY <2>2 DEF Own, Told
<1>3. ASSUME NEW u \in Users, NEW id \in Own(u), SendDelete(u, id)
      PROVE  \E r \in Requests : AskAbout(u, r) /\ r.kind = "delete" /\ r.id \in Own(u) /\ r.id > 0
  BY <1>2, <1>3, RequestsMade DEF SendDelete
<1>4. ASSUME NEW u \in Users, NEW id \in Own(u), NEW t \in Edits, SendEdit(u, id, t)
      PROVE  \E r \in Requests : AskAbout(u, r) /\ r.kind = "edit" /\ r.id \in Own(u) /\ r.id > 0
  BY <1>2, <1>4, RequestsMade DEF SendEdit
<1>5. ASSUME NEW u \in Users, PageNext(u)
      PROVE  \/ \E c \in Conns : OpenSocket(u, c)
             \/ LoseSocket(u) \/ Handle(u)
             \/ \E t \in Texts : SendMessage(u, t)
             \/ \E r \in Requests :
                  /\ AskAbout(u, r) /\ r.kind \in {"edit", "delete", "load"}
                  /\ r.kind \in {"edit", "delete"} => r.id \in Own(u) /\ r.id > 0
  BY <1>1, <1>3, <1>4, <1>5 DEF PageNext
<1> QED BY <1>5 DEF FeedNext, ConnNext

\* Types at the start.
LEMMA TypesInit ==
  ASSUME FeedInit
  PROVE  Types
<1>1. PICK t \in Texts :
        rows = [i \in DOMAIN Stored |-> [cid |-> 0, user |-> Stored[i], text |-> t, gone |-> FALSE]]
  BY DEF FeedInit
<1>2. rows \in Seq(RowType)
  <2>1. DOMAIN Stored = 1..Len(Stored) /\ Len(Stored) \in Nat /\ \A i \in DOMAIN Stored : Stored[i] \in Users
    BY FeedConstants
  <2>2. ASSUME NEW i \in DOMAIN Stored
        PROVE  [cid |-> 0, user |-> Stored[i], text |-> t, gone |-> FALSE] \in RowType
    BY <2>1 DEF RowType
  <2>3. rows \in [1..Len(Stored) -> RowType]
    BY <1>1, <2>1, <2>2
  <2> QED BY <2>1, <2>3
<1>3. Idle \in Jobs /\ <<>> \in Seq(Requests) /\ <<>> \in Seq(Frames) /\ <<>> \in Seq(Told)
      /\ <<>> \in Seq(Conns) /\ <<>> \in Seq(Deletions) /\ Len(<<>>) = 0
  BY JobsMade
<1>4. ChanCap \in Nat /\ MaxAsked \in Nat
  BY FeedConstants
<1> QED BY <1>2, <1>3, <1>4 DEF FeedInit, Types

\* What an entry of the types is.
LEMMA TypesAt ==
  ASSUME Types
  PROVE  /\ rows \in Seq(RowType) /\ Len(rows) \in Nat /\ DOMAIN rows = 1..Len(rows)
         /\ \A i \in DOMAIN rows : rows[i] \in RowType /\ rows[i].cid \in Int /\ rows[i].user \in Users
         /\ \A c \in Conns : job[c] \in Jobs /\ up[c] \in Seq(Requests) /\ down[c] \in Seq(Frames)
                             /\ read[c] \in Nat /\ entered[c] \in Nat /\ had[c] \subseteq Int
                             /\ Owner[c] \in Users
         /\ \A c \in Conns : \A p \in DOMAIN down[c] : down[c][p] \in Frames /\ p \in Nat
         /\ \A c \in Conns : \A p \in DOMAIN up[c] : up[c][p] \in Requests /\ p \in Nat
         /\ \A u \in Users : conn[u] \in Conns \cup {None} /\ win[u] \in Seq(Told)
                             /\ joined[u] \in BOOLEAN /\ loaded[u] \in BOOLEAN
         /\ \A u \in Users : \A i \in DOMAIN win[u] : win[u][i] \in Told /\ i \in Nat
                             /\ win[u][i].id \in Int /\ win[u][i].cid \in Int
         /\ registerQ \in Seq(Conns) /\ broadcastQ \in Seq(Deletions)
         /\ asked \in Nat /\ asked <= MaxAsked
<1>1. rows \in Seq(RowType) /\ registerQ \in Seq(Conns) /\ broadcastQ \in Seq(Deletions)
  BY DEF Types
<1>2. \A i \in DOMAIN rows : rows[i] \in RowType /\ rows[i].cid \in Int /\ rows[i].user \in Users
  <2>1. \A i \in DOMAIN rows : rows[i] \in RowType
    BY <1>1
  <2> QED BY <2>1 DEF RowType
<1>3. \A c \in Conns : job[c] \in Jobs /\ up[c] \in Seq(Requests) /\ down[c] \in Seq(Frames)
                       /\ read[c] \in Nat /\ entered[c] \in Nat /\ had[c] \subseteq Int
                       /\ Owner[c] \in Users
  BY FeedConstants DEF Types
<1>4. \A u \in Users : conn[u] \in Conns \cup {None} /\ win[u] \in Seq(Told)
                       /\ joined[u] \in BOOLEAN /\ loaded[u] \in BOOLEAN
  BY DEF Types
<1>5. \A u \in Users : \A i \in DOMAIN win[u] : win[u][i] \in Told /\ i \in Nat
  BY <1>4
<1>6. \A u \in Users : \A i \in DOMAIN win[u] : win[u][i].id \in Int /\ win[u][i].cid \in Int
  BY <1>5 DEF Told
<1>7. asked \in Nat /\ asked <= MaxAsked
  BY FeedConstants DEF Types
<1>8. \A c \in Conns : \A p \in DOMAIN down[c] : down[c][p] \in Frames /\ p \in Nat
  BY <1>3
<1>9. \A c \in Conns : \A p \in DOMAIN up[c] : up[c][p] \in Requests /\ p \in Nat
  BY <1>3
<1>10. Len(rows) \in Nat /\ DOMAIN rows = 1..Len(rows)
  BY <1>1
<1> QED BY <1>1, <1>2, <1>3, <1>4, <1>5, <1>6, <1>7, <1>8, <1>9, <1>10

\* What a frame makes of the window.
Treats(d, w, f, u) ==
  /\ d \in Seq(Told)
  /\ f.kind = "message" => Put(d, w, f.message) \/ Known(d, w, f.message) \/ Added(d, w, f.message)
  /\ f.kind = "edit" => d = IF f.text = "" THEN w ELSE EditMessageInPlace(w, f.id, f.text)
  /\ f.kind = "delete" => Without(d, w, f.id)
  /\ f.kind = "history" =>
       \E cap \in Nat : \E close :
         /\ cap >= MessageCap /\ PageMerged(d, w, f.messages, cap, close)
         /\ u \notin guessed' => close = {}

\* The page handles the first frame.
LEMMA HandleDoes ==
  ASSUME Types, Faithful, NEW u \in Users, Handle(u),
         NEW c, c = conn[u], NEW f, f = down[c][1]
  PROVE  /\ c \in Conns /\ down[c] # <<>> /\ 1 \in DOMAIN down[c] /\ f \in Frames
         /\ down' = [down EXCEPT ![c] = Tail(@)] /\ down'[c] = Tail(down[c])
         /\ \A b \in Conns : b # c => down'[b] = down[b]
         /\ win' = [win EXCEPT ![u] = win'[u]] /\ \A v \in Users : v # u => win'[v] = win[v]
         /\ Treats(win'[u], win[u], f, u)
         /\ full' = Filled(u, win'[u])
         /\ guessed' = guessed \/ guessed' = guessed \cup {u}
         /\ joined' = [joined EXCEPT ![u] = @ \/ f.kind = "history"]
<1>1. /\ conn[u] \in Conns \cup {None} /\ win[u] \in Seq(Told)
      /\ win \in [Users -> Seq(Told)] /\ down \in [Conns -> Seq(Frames)]
  BY DEF Types
<1>2. c \in Conns /\ down[c] # <<>>
  BY <1>1 DEF Handle
<1>3. 1 \in DOMAIN down[c] /\ f \in Frames /\ Head(down[c]) = f
  BY <1>1, <1>2, TailAt
<1>4. down' = [down EXCEPT ![c] = Tail(@)]
  BY DEF Handle
<1>5. PICK close \in Clocks(u) :
        /\ win' = [win EXCEPT ![u] = Shown(u, f, close)]
        /\ full' = Filled(u, Shown(u, f, close))
        /\ guessed' = IF f.kind = "history" /\ Shown(u, f, close) # Shown(u, f, {})
                      THEN guessed \cup {u} ELSE guessed
  BY <1>3, Zenon DEF Handle
<1>6. win'[u] = Shown(u, f, close) /\ \A v \in Users : v # u => win'[v] = win[v]
  BY <1>1, <1>5
<1>7. f.kind = "message" => Shown(u, f, close) = AddMessage(win[u], f.message, close)
  BY DEF Shown
<1>8. f.kind = "edit" => Shown(u, f, close) = IF f.text = "" THEN win[u]
                                              ELSE EditMessageInPlace(win[u], f.id, f.text)
  BY DEF Shown
<1>9. f.kind = "delete" => Shown(u, f, close) = DeleteMessage(win[u], f.id)
  BY DEF Shown
<1>10. f.kind = "history" =>
         \A x : Shown(u, f, x) = IF loaded[u] THEN Merge(win[u], f.messages, "prepend", HistoryCap, x)
                                 ELSE Merge(win[u], f.messages, "append", MessageCap, x)
  BY DEF Shown, PrependHistory, SetHistory
<1>11. ASSUME f.kind = "message"
       PROVE  Treats(win'[u], win[u], f, u)
  <2>1. f.message \in Told
    BY <1>3, <1>11, FrameKinds
  <2>2. /\ win'[u] \in Seq(Told)
        /\ Put(win'[u], win[u], f.message) \/ Known(win'[u], win[u], f.message) \/ Added(win'[u], win[u], f.message)
    BY <1>1, <1>6, <1>7, <1>11, <2>1, LiveWindow
  <2> QED BY <1>11, <2>2 DEF Treats
<1>12. ASSUME f.kind = "edit"
       PROVE  Treats(win'[u], win[u], f, u)
  <2>1. f.text \in TextOrNone
    BY <1>3, <1>12, FrameKinds
  <2>2. EditMessageInPlace(win[u], f.id, f.text) \in Seq(Told)
    BY <1>1, <2>1, EditWindow
  <2> QED BY <1>1, <1>6, <1>8, <1>12, <2>2 DEF Treats
<1>13. ASSUME f.kind = "delete"
       PROVE  Treats(win'[u], win[u], f, u)
  <2>1. Without(win'[u], win[u], f.id)
    BY <1>1, <1>6, <1>9, <1>13, DeleteWindow
  <2> QED BY <1>13, <2>1 DEF Treats, Without
<1>14. ASSUME f.kind = "history"
       PROVE  Treats(win'[u], win[u], f, u)
  <2>1. f.messages \in Seq(Told)
    BY <1>3, <1>14, FrameKinds
  <2>2. \A i \in DOMAIN f.messages : f.messages[i].id > 0 /\ f.messages[i].cid = 0
    <3>1. 1 \in At(c, "history")
      BY <1>3, <1>14 DEF At
    <3>2. \A i \in DOMAIN f.messages : IsRow(f.messages[i]) /\ f.messages[i].cid = 0
      BY <1>2, <3>1 DEF Faithful, FaithFrames, Says, At
    <3>3. DOMAIN rows = 1..Len(rows) /\ Len(rows) \in Nat
      BY TypesAt
    <3> QED BY SMTT(40), <3>2, <3>3 DEF IsRow
  <2>3. IsPage(f.messages)
    BY <2>1, <2>2 DEF IsPage
  <2>4. HistoryCap \in Nat \ {0} /\ MessageCap \in Nat \ {0} /\ HistoryCap >= MessageCap
    BY FeedConstants, MessageWindowAssumption
  <2>5. \A x : /\ PageMerged(Merge(win[u], f.messages, "prepend", HistoryCap, x), win[u], f.messages, HistoryCap, x)
               /\ PageMerged(Merge(win[u], f.messages, "append", MessageCap, x), win[u], f.messages, MessageCap, x)
    BY <1>1, <2>3, <2>4, PageWindow
  <2>6. \A x : \E cap \in Nat : cap >= MessageCap /\ PageMerged(Shown(u, f, x), win[u], f.messages, cap, x)
    BY <1>10, <1>14, <2>4, <2>5
  <2>7. CASE Shown(u, f, close) = Shown(u, f, {})
    <3>1. \E cap \in Nat : cap >= MessageCap /\ PageMerged(win'[u], win[u], f.messages, cap, {})
      BY <1>6, <2>6, <2>7
    <3>2. win'[u] \in Seq(Told)
      BY <3>1 DEF PageMerged
    <3> QED BY <1>14, <3>1, <3>2 DEF Treats
  <2>8. CASE Shown(u, f, close) # Shown(u, f, {})
    <3>1. \E cap \in Nat : cap >= MessageCap /\ PageMerged(win'[u], win[u], f.messages, cap, close)
      BY <1>6, <2>6
    <3>2. win'[u] \in Seq(Told)
      BY <3>1 DEF PageMerged
    <3>3. u \in guessed'
      BY <1>5, <1>14, <2>8
    <3> QED BY <1>14, <3>1, <3>2, <3>3 DEF Treats
  <2> QED BY <2>7, <2>8
<1>15. Treats(win'[u], win[u], f, u)
  BY <1>3, <1>11, <1>12, <1>13, <1>14, FrameKinds
<1>16. joined' = [joined EXCEPT ![u] = @ \/ f.kind = "history"]
  BY <1>3 DEF Handle
<1>17. down'[c] = Tail(down[c]) /\ \A b \in Conns : b # c => down'[b] = down[b]
  BY <1>1, <1>2, <1>4
<1> QED BY <1>2, <1>3, <1>4, <1>5, <1>6, <1>15, <1>16, <1>17

\* A frame goes to the pages of the connections.
LEMMA DeliveredAt ==
  ASSUME Types, NEW cs, NEW f \in Frames, down' = Delivered(cs, f)
  PROVE  /\ down' \in [Conns -> Seq(Frames)]
         /\ \A c \in Conns : down'[c] = IF c \in cs /\ Attached(c) THEN Append(down[c], f) ELSE down[c]
<1>1. \A c \in Conns : down'[c] = IF c \in cs /\ Attached(c) THEN Append(down[c], f) ELSE down[c]
  BY DEF Delivered, Attached
<1>2. \A c \in Conns : down[c] \in Seq(Frames)
  BY TypesAt
<1>3. ASSUME NEW c \in Conns
      PROVE  down'[c] \in Seq(Frames)
  <2>1. Append(down[c], f) \in Seq(Frames)
    BY <1>2, AppendAt
  <2> QED BY <1>1, <1>2, <2>1
<1>4. down' = [c \in Conns |-> down'[c]]
  BY DEF Delivered
<1> QED BY <1>1, <1>3, <1>4

\* A page asks.
LEMMA AskAt ==
  ASSUME Types, NEW u \in Users, conn[u] # None, NEW r \in Requests, Ask(u, r)
  PROVE  /\ conn[u] \in Conns /\ up' \in [Conns -> Seq(Requests)]
         /\ up'[conn[u]] = Append(up[conn[u]], r)
         /\ \A c \in Conns : c # conn[u] => up'[c] = up[c]
<1>1. conn[u] \in Conns /\ up \in [Conns -> Seq(Requests)]
  BY DEF Types
<1>2. up' = [up EXCEPT ![conn[u]] = Append(@, r)]
  BY DEF Ask
<1>3. Append(up[conn[u]], r) \in Seq(Requests)
  BY <1>1
<1> QED BY <1>1, <1>2, <1>3

\* A goroutine takes a request.
LEMMA TakeAt ==
  ASSUME Types, NEW c \in Conns, NEW kind, NEW next, Take(c, kind, next)
  PROVE  /\ up[c] # <<>> /\ 1 \in DOMAIN up[c] /\ Head(up[c]) = up[c][1] /\ up[c][1] \in Requests
         /\ up[c][1].kind = kind /\ up'[c] = Tail(up[c]) /\ up' \in [Conns -> Seq(Requests)]
         /\ \A b \in Conns : b # c => up'[b] = up[b]
         /\ job[c] = Idle /\ job' = [job EXCEPT ![c] = next] /\ job'[c] = next
         /\ \A b \in Conns : b # c => job'[b] = job[b]
<1>1. up \in [Conns -> Seq(Requests)] /\ job \in [Conns -> Jobs]
  BY DEF Types
<1>2. /\ job[c] = Idle /\ up[c] # <<>> /\ Head(up[c]).kind = kind
      /\ up' = [up EXCEPT ![c] = Tail(@)] /\ job' = [job EXCEPT ![c] = next]
  BY DEF Take
<1>3. 1 \in DOMAIN up[c] /\ Head(up[c]) = up[c][1] /\ up[c][1] \in Requests /\ Tail(up[c]) \in Seq(Requests)
  BY <1>1, <1>2, TailAt
<1> QED BY <1>1, <1>2, <1>3

\* A goroutine ends what it was doing.
LEMMA JobEnds ==
  ASSUME Types, NEW c \in Conns, NEW next, job' = [job EXCEPT ![c] = next]
  PROVE  job'[c] = next /\ \A b \in Conns : b # c => job'[b] = job[b]
BY DEF Types

\* The page shows its message at once.
LEMMA SendDoes ==
  ASSUME Types, NEW u \in Users, NEW text \in Texts, SendMessage(u, text), NEW k, k = -(asked + 1),
         NEW m, m = [id |-> k, cid |-> k, user |-> u, text |-> text]
  PROVE  /\ k \in Int /\ k < 0 /\ m \in Told /\ asked' = asked + 1 /\ asked' \in 0..MaxAsked
         /\ conn[u] \in Conns /\ joined[u]
         /\ win' = [win EXCEPT ![u] = win'[u]] /\ \A v \in Users : v # u => win'[v] = win[v]
         /\ win'[u] \in Seq(Told)
         /\ Put(win'[u], win[u], m) \/ Known(win'[u], win[u], m) \/ Added(win'[u], win[u], m)
         /\ full' = Filled(u, win'[u])
         /\ [kind |-> "message", cid |-> k, text |-> text] \in Requests
         /\ Ask(u, [kind |-> "message", cid |-> k, text |-> text])
<1>1. asked \in Nat /\ MaxAsked \in Nat /\ k \in Int /\ k < 0
  BY TypesAt, FeedConstants
<1>2. text \in TextOrNone
  BY TextsTold
<1>3. m \in Told
  BY <1>1, <1>2 DEF Told
<1>4. /\ conn[u] # None /\ joined[u] /\ asked < MaxAsked /\ asked' = asked + 1
      /\ win' = [win EXCEPT ![u] = AddMessage(@, m, {})] /\ full' = Filled(u, win'[u])
      /\ Ask(u, [kind |-> "message", cid |-> k, text |-> text])
  BY DEF SendMessage
<1>5. win \in [Users -> Seq(Told)] /\ conn[u] \in Conns \cup {None}
  BY DEF Types
<1>6. win'[u] = AddMessage(win[u], m, {}) /\ \A v \in Users : v # u => win'[v] = win[v]
  BY <1>4, <1>5
<1>7. win[u] \in Seq(Told)
  BY <1>5
<1>8. /\ win'[u] \in Seq(Told)
      /\ Put(win'[u], win[u], m) \/ Known(win'[u], win[u], m) \/ Added(win'[u], win[u], m)
  BY <1>3, <1>6, <1>7, LiveWindow
<1>9. [kind |-> "message", cid |-> k, text |-> text] \in Requests
  BY <1>1, RequestsMade
<1>10. asked' \in 0..MaxAsked
  BY <1>1, <1>4
<1> QED BY <1>1, <1>3, <1>4, <1>5, <1>6, <1>8, <1>9, <1>10

\* Rows keep their author and the id of the author's page, and stay deleted.
RowsGrow ==
  /\ DOMAIN rows \subseteq DOMAIN rows'
  /\ \A i \in DOMAIN rows : /\ rows'[i].cid = rows[i].cid /\ rows'[i].user = rows[i].user
                            /\ rows[i].gone => rows'[i].gone

\* The row of a new message.
NewRow(c) == [cid |-> up[c][1].cid, user |-> Owner[c], text |-> up[c][1].text, gone |-> FALSE]

\* A message is stored, and will be fanned out.
LEMMA ChatDoes ==
  ASSUME Types, NEW c \in Conns, HandleChatMessage(c), NEW n, n = Len(rows) + 1
  PROVE  LET m == [id |-> n, cid |-> up[c][1].cid, user |-> Owner[c], text |-> up[c][1].text]
             next == [at |-> "fanning", frame |-> [kind |-> "message", message |-> m]] IN
         /\ Take(c, "message", next) /\ next \in Jobs /\ m \in Told
         /\ rows' \in Seq(RowType) /\ Len(rows') = n /\ DOMAIN rows' = DOMAIN rows \cup {n} /\ n \notin DOMAIN rows
         /\ \A i \in DOMAIN rows : rows'[i] = rows[i]
         /\ rows'[n] = NewRow(c) /\ n \in Nat /\ RowsGrow
<1> DEFINE r == up[c][1]
           m == [id |-> n, cid |-> r.cid, user |-> Owner[c], text |-> r.text]
           next == [at |-> "fanning", frame |-> [kind |-> "message", message |-> m]]
<1>1. up[c] # <<>> /\ up[c] \in Seq(Requests) /\ Head(up[c]) = r /\ r \in Requests /\ r.kind = "message"
  <2>1. up[c] # <<>> /\ Head(up[c]).kind = "message"
    BY DEF HandleChatMessage, Take
  <2>2. up[c] \in Seq(Requests)
    BY TypesAt
  <2> QED BY <2>1, <2>2, TailAt
<1>2. r.cid \in Int /\ r.text \in Texts
  BY <1>1, RequestKinds
<1>3. Take(c, "message", next) /\ rows' = Append(rows, NewRow(c))
  BY <1>1 DEF HandleChatMessage, NewRow
<1> HIDE DEF r
<1>4. Owner[c] \in Users /\ rows \in Seq(RowType) /\ n \in Nat /\ r.text \in TextOrNone
  <2>1. r.text \in TextOrNone
    BY <1>2, TextsTold
  <2>2. Owner[c] \in Users /\ rows \in Seq(RowType) /\ Len(rows) \in Nat
    BY TypesAt
  <2> QED BY <2>1, <2>2
<1>5. m \in Told
  BY <1>2, <1>4 DEF Told
<1>6. next \in Jobs
  <2> HIDE DEF m
  <2> QED BY <1>5, FramesMade, JobsMade
<1>7. NewRow(c) \in RowType
  <2>1. NewRow(c) = [cid |-> r.cid, user |-> Owner[c], text |-> r.text, gone |-> FALSE]
    BY DEF NewRow, r
  <2> QED BY <1>2, <1>4, <2>1 DEF RowType
<1>8. /\ rows' \in Seq(RowType) /\ Len(rows') = n /\ DOMAIN rows' = DOMAIN rows \cup {n} /\ n \notin DOMAIN rows
      /\ \A i \in DOMAIN rows : rows'[i] = rows[i]
      /\ rows'[n] = NewRow(c)
  <2> DEFINE row == NewRow(c)
  <2>1. rows' = Append(rows, row) /\ row \in RowType
    BY <1>3, <1>7
  <2> HIDE DEF row
  <2>2. /\ rows' \in Seq(RowType) /\ Len(rows') = n /\ DOMAIN rows' = 1..n /\ DOMAIN rows = 1..Len(rows)
        /\ \A i \in DOMAIN rows : rows'[i] = rows[i]
        /\ rows'[n] = row
    BY <1>4, <2>1
  <2>3. 1..n = (1..Len(rows)) \cup {n} /\ n \notin 1..Len(rows)
    BY TypesAt
  <2> QED BY <2>2, <2>3 DEF row
<1>9. RowsGrow
  BY <1>8 DEF RowsGrow
<1> QED BY <1>3, <1>4, <1>5, <1>6, <1>8, <1>9 DEF r

\* What a message is edited to is in its row, and will be fanned out.
LEMMA EditDoes ==
  ASSUME Types, Faithful, NEW c \in Conns, HandleMessageEdit(c)
  PROVE  LET id == up[c][1].id
             next == [at |-> "fanning",
                      frame |-> [kind |-> "edit", id |-> id,
                                 text |-> IF rows[id].gone THEN "" ELSE up[c][1].text]] IN
         /\ Take(c, "edit", next) /\ next \in Jobs /\ id \in DOMAIN rows /\ rows[id].user = Owner[c]
         /\ up[c][1].text # ""
         /\ rows' \in Seq(RowType) /\ Len(rows') = Len(rows) /\ DOMAIN rows' = DOMAIN rows
         /\ \A i \in DOMAIN rows : i # id => rows'[i] = rows[i]
         /\ \A i \in DOMAIN rows : rows'[i].gone = rows[i].gone
         /\ rows'[id].text = up[c][1].text /\ RowsGrow
<1> DEFINE r == up[c][1]
           id == r.id
           text == IF rows[id].gone THEN "" ELSE r.text
           next == [at |-> "fanning", frame |-> [kind |-> "edit", id |-> id, text |-> text]]
<1>1. up[c] # <<>> /\ up[c] \in Seq(Requests) /\ Head(up[c]) = r /\ r \in Requests /\ r.kind = "edit"
      /\ 1 \in DOMAIN up[c]
  <2>1. up[c] # <<>> /\ Head(up[c]).kind = "edit"
    BY DEF HandleMessageEdit, Take
  <2>2. up[c] \in Seq(Requests)
    BY TypesAt
  <2> QED BY <2>1, <2>2, TailAt
<1>2. id \in Int /\ r.text \in Edits
  BY <1>1, RequestKinds
<1>3. id \in DOMAIN rows /\ rows[id].user = Owner[c]
  <2>1. 1 \in Asks(c, "edit")
    BY <1>1 DEF Asks
  <2> QED BY <2>1 DEF Faithful, FaithRequests
<1>4. Take(c, "edit", next) /\ rows' = [rows EXCEPT ![id].text = r.text]
  BY <1>1 DEF HandleMessageEdit
<1>5. r.text # ""
  BY <1>2, RoomFeedAssumption
<1> HIDE DEF r
<1>6. text \in TextOrNone
  BY <1>2, TextsTold
<1>7. next \in Jobs
  <2> HIDE DEF text, id
  <2> QED BY <1>2, <1>6, FramesMade, JobsMade
<1> HIDE DEF text, id, next
<1>8. rows \in Seq(RowType) /\ rows[id] \in RowType /\ DOMAIN rows = 1..Len(rows) /\ Len(rows) \in Nat
  BY <1>3, TypesAt
<1> DEFINE row == [rows[id] EXCEPT !.text = r.text]
<1>9. /\ row \in RowType /\ row.text = r.text /\ row.gone = rows[id].gone
      /\ row.user = rows[id].user /\ row.cid = rows[id].cid
  BY <1>2, <1>8 DEF RowType
<1>10. rows' = [rows EXCEPT ![id] = row]
  BY <1>4
<1> HIDE DEF row
<1>11. /\ rows' \in Seq(RowType) /\ Len(rows') = Len(rows) /\ DOMAIN rows' = DOMAIN rows
       /\ \A i \in DOMAIN rows : i # id => rows'[i] = rows[i]
       /\ rows'[id] = row
  BY <1>3, <1>8, <1>9, <1>10
<1>12. \A i \in DOMAIN rows : /\ rows'[i].gone = rows[i].gone /\ rows'[i].cid = rows[i].cid
                              /\ rows'[i].user = rows[i].user
  BY <1>9, <1>11
<1>13. RowsGrow
  BY <1>11, <1>12 DEF RowsGrow
<1> QED BY <1>3, <1>4, <1>5, <1>7, <1>9, <1>11, <1>12, <1>13 DEF r, id, text, next

\* A message is marked as deleted, and its deletion will be published.
LEMMA DeletionDoes ==
  ASSUME Types, Faithful, NEW c \in Conns, HandleMessageDelete(c)
  PROVE  LET id == up[c][1].id
             next == [at |-> "publishing", frame |-> [kind |-> "delete", id |-> id]] IN
         /\ Take(c, "delete", next) /\ next \in Jobs /\ id \in DOMAIN rows /\ rows[id].user = Owner[c]
         /\ rows' \in Seq(RowType) /\ Len(rows') = Len(rows) /\ DOMAIN rows' = DOMAIN rows
         /\ \A i \in DOMAIN rows : i # id => rows'[i] = rows[i]
         /\ \A i \in DOMAIN rows : rows'[i].text = rows[i].text
         /\ rows'[id].gone /\ RowsGrow
<1> DEFINE r == up[c][1]
           id == r.id
           next == [at |-> "publishing", frame |-> [kind |-> "delete", id |-> id]]
<1>1. up[c] # <<>> /\ up[c] \in Seq(Requests) /\ Head(up[c]) = r /\ r \in Requests /\ r.kind = "delete"
      /\ 1 \in DOMAIN up[c]
  <2>1. up[c] # <<>> /\ Head(up[c]).kind = "delete"
    BY DEF HandleMessageDelete, Take
  <2>2. up[c] \in Seq(Requests)
    BY TypesAt
  <2> QED BY <2>1, <2>2, TailAt
<1>2. id \in Int
  BY <1>1, RequestKinds
<1>3. id \in DOMAIN rows /\ rows[id].user = Owner[c]
  <2>1. 1 \in Asks(c, "delete")
    BY <1>1 DEF Asks
  <2> QED BY <2>1 DEF Faithful, FaithRequests
<1>4. Take(c, "delete", next) /\ rows' = [rows EXCEPT ![id].gone = TRUE]
  BY <1>1 DEF HandleMessageDelete
<1> HIDE DEF r
<1>7. next \in Jobs
  <2> HIDE DEF id
  <2> QED BY <1>2, FramesMade, JobsMade
<1> HIDE DEF id, next
<1>8. rows \in Seq(RowType) /\ rows[id] \in RowType /\ DOMAIN rows = 1..Len(rows) /\ Len(rows) \in Nat
  BY <1>3, TypesAt
<1> DEFINE row == [rows[id] EXCEPT !.gone = TRUE]
<1>9. /\ row \in RowType /\ row.text = rows[id].text /\ row.gone
      /\ row.user = rows[id].user /\ row.cid = rows[id].cid
  BY <1>8 DEF RowType
<1>10. rows' = [rows EXCEPT ![id] = row]
  BY <1>4
<1> HIDE DEF row
<1>11. /\ rows' \in Seq(RowType) /\ Len(rows') = Len(rows) /\ DOMAIN rows' = DOMAIN rows
       /\ \A i \in DOMAIN rows : i # id => rows'[i] = rows[i]
       /\ rows'[id] = row
  BY <1>3, <1>8, <1>9, <1>10
<1>12. \A i \in DOMAIN rows : /\ rows'[i].text = rows[i].text /\ rows'[i].cid = rows[i].cid
                              /\ rows'[i].user = rows[i].user /\ (rows[i].gone => rows'[i].gone)
  BY <1>9, <1>11
<1>13. RowsGrow
  BY <1>11, <1>12 DEF RowsGrow
<1> QED BY <1>3, <1>4, <1>7, <1>9, <1>11, <1>12, <1>13 DEF r, id, next

\* A page of history for a goroutine to send.
LEMMA PageJob ==
  ASSUME Types, NEW limit \in Nat \ {0}, NEW before \in Nat, NEW p, p = GetRoomMessages(limit, before)
  PROVE  /\ [at |-> "answering", frame |-> [kind |-> "history", messages |-> p]] \in Jobs
         /\ Ids(p) \subseteq DOMAIN rows /\ Ids(p) \subseteq Int
<1>1. /\ p \in Seq(Told) /\ \A i \in DOMAIN p : p[i].id \in DOMAIN rows
  BY TypesAt, PageOf
<1>2. Ids(p) \subseteq DOMAIN rows
  BY <1>1 DEF Ids
<1>3. Ids(p) \subseteq Int
  BY <1>1, IdsInt
<1> QED BY <1>1, <1>2, <1>3, FramesMade, JobsMade

\* Types of the windows.
LEMMA FilledTypes ==
  ASSUME full \subseteq Users, NEW u \in Users, NEW w
  PROVE  Filled(u, w) \subseteq Users
BY DEF Filled

\* Types are kept by what pages do.
LEMMA TypesPage ==
  ASSUME Types, Faithful, NEW u \in Users,
         \/ \E c \in Conns : OpenSocket(u, c)
         \/ LoseSocket(u)
         \/ \E t \in Texts : SendMessage(u, t)
         \/ \E r \in Requests : AskAbout(u, r)
         \/ Handle(u)
  PROVE  Types'
<1>1. ASSUME NEW c \in Conns, OpenSocket(u, c)
      PROVE  Types'
  <2>1. /\ conn' = [conn EXCEPT ![u] = c] /\ used' = used \cup {c}
        /\ joined' = [joined EXCEPT ![u] = FALSE]
        /\ up' = [up EXCEPT ![c] = <<[kind |-> "join"]>>] /\ full' = full \ {u}
        /\ UNCHANGED <<server, down, loaded, win, asked, guessed, lossy>>
    BY <1>1 DEF OpenSocket
  <2>2. <<[kind |-> "join"]>> \in Seq(Requests)
    BY RequestsMade
  <2> QED BY <2>1, <2>2 DEF Types, server
<1>2. ASSUME LoseSocket(u)
      PROVE  Types'
  <2>1. /\ conn[u] # None /\ conn' = [conn EXCEPT ![u] = None]
        /\ up' = [up EXCEPT ![conn[u]] = <<>>] /\ down' = [down EXCEPT ![conn[u]] = <<>>]
        /\ room' = room \ {conn[u]} /\ lossy' = lossy \cup {u}
        /\ UNCHANGED <<rows, registerQ, broadcastQ, job, read, entered, had, used, joined,
                       loaded, win, asked, full, guessed>>
    BY <1>2 DEF LoseSocket
  <2> QED BY SMTT(40), <2>1 DEF Types
<1>3. ASSUME NEW t \in Texts, SendMessage(u, t)
      PROVE  Types'
  <2>1. /\ win' = [win EXCEPT ![u] = win'[u]] /\ win'[u] \in Seq(Told) /\ full' = Filled(u, win'[u])
        /\ asked' \in 0..MaxAsked /\ conn[u] \in Conns
    BY <1>3, SendDoes
  <2>2. up' \in [Conns -> Seq(Requests)]
    <3>1. /\ [kind |-> "message", cid |-> -(asked + 1), text |-> t] \in Requests
          /\ Ask(u, [kind |-> "message", cid |-> -(asked + 1), text |-> t])
      BY <1>3, SendDoes
    <3>2. conn[u] # None
      BY <2>1, FeedConstants
    <3> QED BY <3>1, <3>2, AskAt
  <2>3. full' \subseteq Users
    BY <2>1, FilledTypes DEF Types
  <2>4. UNCHANGED <<server, down, conn, used, joined, loaded, guessed, lossy>>
    BY <1>3 DEF SendMessage
  <2>5. win' \in [Users -> Seq(Told)]
    BY <2>1 DEF Types
  <2> QED BY <2>1, <2>2, <2>3, <2>4, <2>5 DEF Types, server
<1>4. ASSUME NEW r \in Requests, AskAbout(u, r)
      PROVE  Types'
  <2>1. /\ conn[u] # None /\ asked < MaxAsked /\ asked' = asked + 1 /\ Ask(u, r)
        /\ UNCHANGED <<server, down, conn, used, joined, loaded, win, full, guessed, lossy>>
    BY <1>4 DEF AskAbout
  <2>2. up' \in [Conns -> Seq(Requests)]
    BY <2>1, AskAt
  <2>3. asked' \in 0..MaxAsked
    BY <2>1, FeedConstants DEF Types
  <2> QED BY <2>1, <2>2, <2>3 DEF Types, server
<1>5. ASSUME Handle(u)
      PROVE  Types'
  <2>0. PICK c, f : c = conn[u] /\ f = down[c][1]
    OBVIOUS
  <2>1. /\ c \in Conns /\ down[c] # <<>>
        /\ down' = [down EXCEPT ![c] = Tail(@)]
        /\ win' = [win EXCEPT ![u] = win'[u]] /\ Treats(win'[u], win[u], f, u)
        /\ full' = Filled(u, win'[u]) /\ (guessed' = guessed \/ guessed' = guessed \cup {u})
        /\ joined' = [joined EXCEPT ![u] = @ \/ f.kind = "history"]
    BY <1>5, <2>0, HandleDoes
  <2>2. loaded' = [loaded EXCEPT ![u] = @ \/ Head(down[conn[u]]).kind = "history"]
        /\ UNCHANGED <<server, up, conn, used, asked, lossy>>
    BY <1>5 DEF Handle
  <2>3. full' \subseteq Users /\ guessed' \subseteq Users
    BY <2>1, FilledTypes DEF Types
  <2>4. down' \in [Conns -> Seq(Frames)] /\ win' \in [Users -> Seq(Told)]
    <3>1. Tail(down[c]) \in Seq(Frames)
      BY <2>1, TypesAt, TailAt
    <3>2. win'[u] \in Seq(Told)
      BY <2>1 DEF Treats
    <3> QED BY <2>1, <3>1, <3>2 DEF Types
  <2>5. joined' \in [Users -> BOOLEAN]
    <3> DEFINE x == joined[u] \/ f.kind = "history"
    <3>1. joined' = [joined EXCEPT ![u] = x] /\ x \in BOOLEAN
      BY <2>1
    <3> HIDE DEF x
    <3> QED BY <3>1 DEF Types
  <2>6. loaded' \in [Users -> BOOLEAN]
    <3> DEFINE x == loaded[u] \/ Head(down[conn[u]]).kind = "history"
    <3>1. loaded' = [loaded EXCEPT ![u] = x] /\ x \in BOOLEAN
      BY <2>2
    <3> HIDE DEF x
    <3> QED BY <3>1 DEF Types
  <2> QED BY <2>2, <2>3, <2>4, <2>5, <2>6 DEF Types, server
<1> QED BY <1>1, <1>2, <1>3, <1>4, <1>5

\* Types are kept by what goroutines do.
LEMMA TypesConn ==
  ASSUME Types, Faithful, NEW c \in Conns,
         \/ HandleJoin(c) \/ ReadHistory(c) \/ HandleLoadHistory(c) \/ Answer(c)
         \/ HandleChatMessage(c) \/ Refuse(c) \/ HandleMessageEdit(c) \/ BroadcastToRoom(c)
         \/ HandleMessageDelete(c) \/ Publish(c)
  PROVE  Types'
<1>0. job \in [Conns -> Jobs] /\ had \in [Conns -> SUBSET Int] /\ Idle \in Jobs
  BY JobsMade DEF Types
<1>1. ASSUME HandleJoin(c)
      PROVE  Types'
  <2>1. Take(c, "join", [at |-> "greeting"]) /\ registerQ' = Append(registerQ, c)
        /\ UNCHANGED <<rows, room, broadcastQ, read, entered, had, down, pages, lossy>>
    BY <1>1 DEF HandleJoin
  <2>2. up' \in [Conns -> Seq(Requests)] /\ job' = [job EXCEPT ![c] = [at |-> "greeting"]]
    BY <2>1, TakeAt
  <2>3. registerQ' \in Seq(Conns)
    BY <2>1, TypesAt
  <2> QED BY <1>0, <2>1, <2>2, <2>3, JobsMade DEF Types, pages
<1>2. ASSUME ReadHistory(c)
      PROVE  Types'
  <2> DEFINE page == GetRoomMessages(JoinPage, MaxId + 1)
             next == [at |-> "answering", frame |-> [kind |-> "history", messages |-> page]]
  <2>1. /\ job' = [job EXCEPT ![c] = next]
        /\ read' = [read EXCEPT ![c] = Len(rows)] /\ had' = [had EXCEPT ![c] = @ \cup Ids(page)]
        /\ UNCHANGED <<rows, room, registerQ, broadcastQ, entered, up, down, pages, lossy>>
    BY <1>2 DEF ReadHistory
  <2>2. next \in Jobs /\ Ids(page) \subseteq Int
    BY FeedConstants, PageJob
  <2>3. Len(rows) \in Nat
    BY TypesAt
  <2> HIDE DEF page, next
  <2> QED BY <1>0, <2>1, <2>2, <2>3 DEF Types, pages
<1>3. ASSUME HandleLoadHistory(c)
      PROVE  Types'
  <2> DEFINE page == GetRoomMessages(OlderPage, Head(up[c]).before)
             next == [at |-> "answering", frame |-> [kind |-> "history", messages |-> page]]
  <2>1. /\ Take(c, "load", next) /\ had' = [had EXCEPT ![c] = @ \cup Ids(page)]
        /\ UNCHANGED <<rows, room, registerQ, broadcastQ, read, entered, down, pages, lossy>>
    BY <1>3 DEF HandleLoadHistory
  <2>2. next \in Jobs /\ Ids(page) \subseteq Int
    <3>1. Head(up[c]).before \in Nat
      BY <2>1, TakeAt, RequestKinds
    <3> QED BY <3>1, FeedConstants, PageJob
  <2> HIDE DEF page, next
  <2>3. up' \in [Conns -> Seq(Requests)] /\ job' = [job EXCEPT ![c] = next]
    BY <2>1, TakeAt
  <2> QED BY <1>0, <2>1, <2>2, <2>3 DEF Types, pages
<1>4. ASSUME Answer(c)
      PROVE  Types'
  <2>1. /\ job[c].at = "answering" /\ down' = Delivered({c}, job[c].frame) /\ job' = [job EXCEPT ![c] = Idle]
        /\ UNCHANGED <<rows, room, registerQ, broadcastQ, read, entered, had, up, pages, lossy>>
    BY <1>4 DEF Answer
  <2>2. job[c].frame \in Frames
    BY <1>0, <2>1, JobKinds, FramesMade
  <2>3. down' \in [Conns -> Seq(Frames)]
    BY <2>1, <2>2, DeliveredAt
  <2> QED BY <1>0, <2>1, <2>3 DEF Types, pages
<1>5. ASSUME HandleChatMessage(c)
      PROVE  Types'
  <2>1. PICK next \in Jobs : Take(c, "message", next)
    BY <1>5, ChatDoes
  <2>2. rows' \in Seq(RowType)
    BY <1>5, ChatDoes
  <2>3. up' \in [Conns -> Seq(Requests)] /\ job' = [job EXCEPT ![c] = next]
    BY <2>1, TakeAt
  <2>4. UNCHANGED <<room, registerQ, broadcastQ, read, entered, had, down, pages, lossy>>
    BY <1>5 DEF HandleChatMessage
  <2> QED BY <1>0, <2>2, <2>3, <2>4 DEF Types, pages
<1>6. ASSUME Refuse(c)
      PROVE  Types'
  <2>1. PICK kind : Take(c, kind, Idle)
    BY <1>6 DEF Refuse
  <2>2. up' \in [Conns -> Seq(Requests)] /\ job' = [job EXCEPT ![c] = Idle]
    BY <2>1, TakeAt
  <2>3. lossy' = lossy \cup {Owner[c]} /\ Owner[c] \in Users
    BY <1>6, TypesAt DEF Refuse
  <2>4. UNCHANGED <<rows, room, registerQ, broadcastQ, read, entered, had, down, pages>>
    BY <1>6 DEF Refuse
  <2> QED BY <1>0, <2>2, <2>3, <2>4 DEF Types, pages
<1>7. ASSUME HandleMessageEdit(c)
      PROVE  Types'
  <2>1. PICK next \in Jobs : Take(c, "edit", next)
    BY <1>7, EditDoes
  <2>2. rows' \in Seq(RowType)
    BY <1>7, EditDoes
  <2>3. up' \in [Conns -> Seq(Requests)] /\ job' = [job EXCEPT ![c] = next]
    BY <2>1, TakeAt
  <2>4. UNCHANGED <<room, registerQ, broadcastQ, read, entered, had, down, pages, lossy>>
    BY <1>7 DEF HandleMessageEdit
  <2> QED BY <1>0, <2>2, <2>3, <2>4 DEF Types, pages
<1>8. ASSUME BroadcastToRoom(c)
      PROVE  Types'
  <2>1. /\ job[c].at = "fanning" /\ down' = Delivered(room, job[c].frame) /\ job' = [job EXCEPT ![c] = Idle]
        /\ UNCHANGED <<rows, room, registerQ, broadcastQ, read, entered, had, up, pages, lossy>>
    BY <1>8 DEF BroadcastToRoom
  <2>2. job[c].frame \in Frames
    BY <1>0, <2>1, JobKinds, FramesMade
  <2>3. down' \in [Conns -> Seq(Frames)]
    BY <2>1, <2>2, DeliveredAt
  <2> QED BY <1>0, <2>1, <2>3 DEF Types, pages
<1>9. ASSUME HandleMessageDelete(c)
      PROVE  Types'
  <2>1. PICK next \in Jobs : Take(c, "delete", next)
    BY <1>9, DeletionDoes
  <2>2. rows' \in Seq(RowType)
    BY <1>9, DeletionDoes
  <2>3. up' \in [Conns -> Seq(Requests)] /\ job' = [job EXCEPT ![c] = next]
    BY <2>1, TakeAt
  <2>4. UNCHANGED <<room, registerQ, broadcastQ, read, entered, had, down, pages, lossy>>
    BY <1>9 DEF HandleMessageDelete
  <2> QED BY <1>0, <2>2, <2>3, <2>4 DEF Types, pages
<1>10. ASSUME Publish(c)
       PROVE  Types'
  <2>1. /\ job[c].at = "publishing" /\ job' = [job EXCEPT ![c] = Idle]
        /\ \/ /\ Len(broadcastQ) < ChanCap /\ broadcastQ' = Append(broadcastQ, job[c].frame) /\ lossy' = lossy
           \/ lossy' = Users /\ broadcastQ' = broadcastQ
        /\ UNCHANGED <<rows, room, registerQ, read, entered, had, up, down, pages>>
    BY <1>10 DEF Publish
  <2>2. job[c].frame \in Deletions
    BY <1>0, <2>1, JobKinds
  <2>3. broadcastQ' \in Seq(Deletions) /\ Len(broadcastQ') <= ChanCap
    <3>1. broadcastQ \in Seq(Deletions) /\ Len(broadcastQ) <= ChanCap /\ Len(broadcastQ) \in Nat /\ ChanCap \in Nat
      BY FeedConstants DEF Types
    <3> QED BY <2>1, <2>2, <3>1
  <2> QED BY <1>0, <2>1, <2>3 DEF Types, pages
<1> QED BY <1>1, <1>2, <1>3, <1>4, <1>5, <1>6, <1>7, <1>8, <1>9, <1>10

\* Types are kept by what the hub does.
LEMMA TypesHub ==
  ASSUME Types, Faithful, HubRegister \/ HubBroadcast
  PROVE  Types'
<1>1. ASSUME HubRegister
      PROVE  Types'
  <2> DEFINE c == Head(registerQ)
  <2>1. /\ registerQ # <<>> /\ registerQ' = Tail(registerQ)
        /\ room' = {d \in room : Owner[d] # Owner[c]} \cup ({c} \cap {conn[Owner[c]]})
        /\ entered' = [entered EXCEPT ![c] = Len(rows)]
        /\ UNCHANGED <<rows, broadcastQ, job, read, had, up, down, pages, lossy>>
    BY <1>1 DEF HubRegister
  <2>2. c \in Conns /\ registerQ' \in Seq(Conns) /\ Len(rows) \in Nat
    BY <2>1, TypesAt
  <2> HIDE DEF c
  <2> QED BY <2>1, <2>2 DEF Types, pages
<1>2. ASSUME HubBroadcast
      PROVE  Types'
  <2>1. /\ broadcastQ # <<>> /\ broadcastQ' = Tail(broadcastQ)
        /\ down' = Delivered(room, Head(broadcastQ))
        /\ UNCHANGED <<rows, room, registerQ, job, read, entered, had, up, pages, lossy>>
    BY <1>2 DEF HubBroadcast
  <2>2. /\ Head(broadcastQ) \in Deletions /\ broadcastQ' \in Seq(Deletions)
        /\ Len(broadcastQ') <= Len(broadcastQ) /\ Len(broadcastQ') \in Nat /\ Len(broadcastQ) \in Nat
    BY <2>1, TypesAt
  <2>3. down' \in [Conns -> Seq(Frames)]
    BY <2>1, <2>2, FramesMade, DeliveredAt
  <2>4. Len(broadcastQ') <= ChanCap
    BY <2>2, FeedConstants DEF Types
  <2> QED BY <2>1, <2>2, <2>3, <2>4 DEF Types, pages
<1> QED BY <1>1, <1>2


-----------------------------------------------------------------------------
(***************************************************************************)
(* What the actions do                                                     *)
(***************************************************************************)

\* Types are kept by every step.
LEMMA TypesStep ==
  ASSUME Types, Faithful, FeedNext
  PROVE  Types'
BY FeedSteps, TypesPage, TypesConn, TypesHub

\* A page opens a socket.
LEMMA OpenDoes ==
  ASSUME Types, NEW u \in Users, NEW c \in Conns, OpenSocket(u, c)
  PROVE  /\ conn[u] = None /\ c \notin used /\ Owner[c] = u /\ used' = used \cup {c}
         /\ conn'[u] = c /\ \A v \in Users : v # u => conn'[v] = conn[v]
         /\ ~joined'[u] /\ \A v \in Users : v # u => joined'[v] = joined[v]
         /\ up'[c] = <<[kind |-> "join"]>> /\ \A b \in Conns : b # c => up'[b] = up[b]
         /\ full' = full \ {u}
         /\ UNCHANGED <<rows, room, registerQ, broadcastQ, job, read, entered, had>>
         /\ UNCHANGED <<down, loaded, win, asked, guessed, lossy>>
BY DEF OpenSocket, Types, server

\* A page loses its socket.
LEMMA LoseDoes ==
  ASSUME Types, NEW u \in Users, LoseSocket(u), NEW c, c = conn[u]
  PROVE  /\ c \in Conns
         /\ conn'[u] = None /\ \A v \in Users : v # u => conn'[v] = conn[v]
         /\ up'[c] = <<>> /\ \A b \in Conns : b # c => up'[b] = up[b]
         /\ down'[c] = <<>> /\ \A b \in Conns : b # c => down'[b] = down[b]
         /\ room' = room \ {c} /\ lossy' = lossy \cup {u}
         /\ UNCHANGED <<rows, registerQ, broadcastQ, job, read, entered, had>>
         /\ UNCHANGED <<used, joined, loaded, win, asked, full, guessed>>
BY DEF LoseSocket, Types

\* What stays when a page sends a message.
LEMMA SendKeeps ==
  ASSUME Types, NEW u \in Users, NEW text \in Texts, SendMessage(u, text), NEW c, c = conn[u],
         NEW k, k = -(asked + 1)
  PROVE  /\ c \in Conns
         /\ up'[c] = Append(up[c], [kind |-> "message", cid |-> k, text |-> text])
         /\ [kind |-> "message", cid |-> k, text |-> text] \in Requests
         /\ \A b \in Conns : b # c => up'[b] = up[b]
         /\ UNCHANGED <<rows, room, registerQ, broadcastQ, job, read, entered, had>>
         /\ UNCHANGED <<down, conn, used, joined, loaded, guessed, lossy>>
<1>1. /\ [kind |-> "message", cid |-> k, text |-> text] \in Requests
      /\ Ask(u, [kind |-> "message", cid |-> k, text |-> text]) /\ c \in Conns
  BY SendDoes
<1>2. c # None
  BY <1>1, FeedConstants
<1>3. /\ up'[c] = Append(up[c], [kind |-> "message", cid |-> k, text |-> text])
      /\ \A b \in Conns : b # c => up'[b] = up[b]
  BY <1>1, <1>2, AskAt
<1>4. /\ UNCHANGED <<rows, room, registerQ, broadcastQ, job, read, entered, had>>
      /\ UNCHANGED <<down, conn, used, joined, loaded, guessed, lossy>>
  BY DEF SendMessage, server
<1> QED BY <1>1, <1>3, <1>4

\* All that happens when a page sends a message.
LEMMA SendAll ==
  ASSUME Types, NEW u \in Users, NEW text \in Texts, SendMessage(u, text)
  PROVE  \E c \in Conns, k \in Int, m \in Told, r \in Requests :
           /\ c = conn[u] /\ conn[u] # None /\ joined[u] /\ k = -(asked + 1) /\ k < 0
           /\ asked' = asked + 1 /\ asked' \in 0..MaxAsked
           /\ m.id = k /\ m.cid = k /\ m.user = u
           /\ r.kind = "message" /\ r.cid = k
           /\ \A v \in Users : v # u => win'[v] = win[v]
           /\ win'[u] \in Seq(Told)
           /\ Put(win'[u], win[u], m) \/ Known(win'[u], win[u], m) \/ Added(win'[u], win[u], m)
           /\ full' = Filled(u, win'[u])
           /\ up'[c] = Append(up[c], r) /\ \A b \in Conns : b # c => up'[b] = up[b]
           /\ UNCHANGED <<rows, room, registerQ, broadcastQ, job, read, entered, had>>
           /\ UNCHANGED <<down, conn, used, joined, loaded, guessed, lossy>>
<1> DEFINE c == conn[u]
           k == -(asked + 1)
           m == [id |-> k, cid |-> k, user |-> u, text |-> text]
           r == [kind |-> "message", cid |-> k, text |-> text]
<1>1. /\ k \in Int /\ k < 0 /\ m \in Told /\ asked' = asked + 1 /\ asked' \in 0..MaxAsked
      /\ c \in Conns /\ joined[u] /\ \A v \in Users : v # u => win'[v] = win[v]
      /\ win'[u] \in Seq(Told)
      /\ Put(win'[u], win[u], m) \/ Known(win'[u], win[u], m) \/ Added(win'[u], win[u], m)
      /\ full' = Filled(u, win'[u])
  BY SendDoes
<1>2. /\ up'[c] = Append(up[c], r) /\ r \in Requests /\ \A b \in Conns : b # c => up'[b] = up[b]
      /\ UNCHANGED <<rows, room, registerQ, broadcastQ, job, read, entered, had>>
      /\ UNCHANGED <<down, conn, used, joined, loaded, guessed, lossy>>
  BY SendKeeps
<1>3. m.id = k /\ m.cid = k /\ m.user = u /\ r.kind = "message" /\ r.cid = k /\ c = conn[u] /\ k = -(asked + 1)
  OBVIOUS
<1>4. conn[u] # None
  BY <1>1, FeedConstants
<1> HIDE DEF c, k, m, r
<1> QED BY <1>1, <1>2, <1>3, <1>4

\* A page asks for an edit, a deletion or history.
LEMMA AskDoes ==
  ASSUME Types, NEW u \in Users, NEW r \in Requests, AskAbout(u, r), NEW c, c = conn[u]
  PROVE  /\ c \in Conns /\ joined[u] /\ asked' = asked + 1
         /\ up'[c] = Append(up[c], r) /\ \A b \in Conns : b # c => up'[b] = up[b]
         /\ UNCHANGED <<rows, room, registerQ, broadcastQ, job, read, entered, had>>
         /\ UNCHANGED <<down, conn, used, joined, loaded, win, full, guessed, lossy>>
<1>1. /\ conn[u] # None /\ joined[u] /\ asked' = asked + 1 /\ Ask(u, r)
      /\ UNCHANGED <<rows, room, registerQ, broadcastQ, job, read, entered, had>>
      /\ UNCHANGED <<down, conn, used, joined, loaded, win, full, guessed, lossy>>
  BY DEF AskAbout, server
<1> QED BY <1>1, AskAt

\* What stays when a page handles a frame.
LEMMA HandleKeeps ==
  ASSUME NEW u, Handle(u)
  PROVE  /\ UNCHANGED <<rows, room, registerQ, broadcastQ, job, read, entered, had>>
         /\ UNCHANGED <<up, conn, used, asked, lossy>>
BY DEF Handle, server

\* A join is handled up to the register channel.
LEMMA JoinDoes ==
  ASSUME Types, NEW c \in Conns, HandleJoin(c)
  PROVE  /\ Take(c, "join", [at |-> "greeting"]) /\ registerQ' = Append(registerQ, c)
         /\ UNCHANGED <<rows, room, broadcastQ, read, entered, had>>
         /\ UNCHANGED <<down, conn, used, joined, loaded, win, asked, full, guessed, lossy>>
BY DEF HandleJoin, pages

\* History is read for the one who joins.
LEMMA ReadDoes ==
  ASSUME Types, NEW c \in Conns, ReadHistory(c)
  PROVE  \E page \in Seq(Told) :
           /\ IsPage(page) /\ Ids(page) \subseteq DOMAIN rows
           /\ \A i \in DOMAIN page : page[i].id \in DOMAIN rows /\ page[i].user = rows[page[i].id].user
           /\ Len(rows) <= MaxId =>
                \A id \in DOMAIN rows : id > Len(rows) - JoinPage => id \in Ids(page)
           /\ job[c].at = "greeting"
           /\ job'[c] = [at |-> "answering", frame |-> [kind |-> "history", messages |-> page]]
           /\ \A b \in Conns : b # c => job'[b] = job[b] /\ read'[b] = read[b] /\ had'[b] = had[b]
           /\ read'[c] = Len(rows) /\ had'[c] = had[c] \cup Ids(page)
           /\ UNCHANGED <<rows, room, registerQ, broadcastQ, entered, up, down>>
           /\ UNCHANGED <<conn, used, joined, loaded, win, asked, full, guessed, lossy>>
<1> DEFINE page == GetRoomMessages(JoinPage, MaxId + 1)
           next == [at |-> "answering", frame |-> [kind |-> "history", messages |-> page]]
<1>1. /\ job[c].at = "greeting" /\ job' = [job EXCEPT ![c] = next]
      /\ read' = [read EXCEPT ![c] = Len(rows)] /\ had' = [had EXCEPT ![c] = @ \cup Ids(page)]
      /\ UNCHANGED <<rows, room, registerQ, broadcastQ, entered, up, down>>
      /\ UNCHANGED <<conn, used, joined, loaded, win, asked, full, guessed, lossy>>
  BY DEF ReadHistory, pages
<1>2. JoinPage \in Nat \ {0} /\ MaxId + 1 \in Nat /\ rows \in Seq(RowType) /\ Len(rows) \in Nat /\ MaxId \in Nat
  BY FeedConstants, TypesAt
<1>3. /\ page \in Seq(Told) /\ IsPage(page)
      /\ \A i \in DOMAIN page : page[i].id \in DOMAIN rows /\ page[i].user = rows[page[i].id].user
      /\ MaxId + 1 > Len(rows) => \A id \in DOMAIN rows : id > Len(rows) - JoinPage => id \in Ids(page)
  BY <1>2, PageOf
<1> HIDE DEF page
<1>4. Ids(page) \subseteq DOMAIN rows
  BY <1>3 DEF Ids
<1>5. Len(rows) <= MaxId => \A id \in DOMAIN rows : id > Len(rows) - JoinPage => id \in Ids(page)
  BY <1>2, <1>3
<1> HIDE DEF next
<1>6. /\ job'[c] = next /\ read'[c] = Len(rows) /\ had'[c] = had[c] \cup Ids(page)
      /\ \A b \in Conns : b # c => job'[b] = job[b] /\ read'[b] = read[b] /\ had'[b] = had[b]
  BY <1>1 DEF Types
<1> QED BY <1>1, <1>3, <1>4, <1>5, <1>6 DEF next

\* Older history is read.
LEMMA LoadDoes ==
  ASSUME Types, NEW c \in Conns, HandleLoadHistory(c)
  PROVE  \E page \in Seq(Told) :
           /\ IsPage(page) /\ Ids(page) \subseteq DOMAIN rows
           /\ \A i \in DOMAIN page : page[i].id \in DOMAIN rows /\ page[i].user = rows[page[i].id].user
           /\ Take(c, "load", [at |-> "answering", frame |-> [kind |-> "history", messages |-> page]])
           /\ had'[c] = had[c] \cup Ids(page) /\ \A b \in Conns : b # c => had'[b] = had[b]
           /\ UNCHANGED <<rows, room, registerQ, broadcastQ, read, entered, down>>
           /\ UNCHANGED <<conn, used, joined, loaded, win, asked, full, guessed, lossy>>
<1> DEFINE before == Head(up[c]).before
           page == GetRoomMessages(OlderPage, before)
           next == [at |-> "answering", frame |-> [kind |-> "history", messages |-> page]]
<1>1. /\ Take(c, "load", next) /\ had' = [had EXCEPT ![c] = @ \cup Ids(page)]
      /\ UNCHANGED <<rows, room, registerQ, broadcastQ, read, entered, down>>
      /\ UNCHANGED <<conn, used, joined, loaded, win, asked, full, guessed, lossy>>
  BY DEF HandleLoadHistory, pages
<1>2. OlderPage \in Nat \ {0} /\ rows \in Seq(RowType) /\ before \in Nat
  BY <1>1, FeedConstants, TypesAt, TakeAt, RequestKinds
<1> HIDE DEF before
<1>3. /\ page \in Seq(Told) /\ IsPage(page)
      /\ \A i \in DOMAIN page : page[i].id \in DOMAIN rows /\ page[i].user = rows[page[i].id].user
  <2>1. \A limit \in Nat \ {0}, b \in Nat :
          LET p == GetRoomMessages(limit, b) IN
          /\ p \in Seq(Told) /\ IsPage(p)
          /\ \A i \in DOMAIN p : p[i].id \in DOMAIN rows /\ p[i].user = rows[p[i].id].user
    BY <1>2, PageOf
  <2> QED BY <1>2, <2>1
<1> HIDE DEF page
<1>4. Ids(page) \subseteq DOMAIN rows
  BY <1>3 DEF Ids
<1>5. had'[c] = had[c] \cup Ids(page) /\ \A b \in Conns : b # c => had'[b] = had[b]
  BY <1>1 DEF Types
<1> QED BY <1>1, <1>3, <1>4, <1>5

\* The history is sent.
LEMMA AnswerDoes ==
  ASSUME Types, NEW c \in Conns, Answer(c), NEW f, f = job[c].frame
  PROVE  /\ job[c].at = "answering" /\ f \in Histories /\ f \in Frames
         /\ f.kind = "history" /\ f.messages \in Seq(Told)
         /\ job'[c] = Idle /\ \A b \in Conns : b # c => job'[b] = job[b]
         /\ down'[c] = IF Attached(c) THEN Append(down[c], f) ELSE down[c]
         /\ \A b \in Conns : b # c => down'[b] = down[b]
         /\ UNCHANGED <<rows, room, registerQ, broadcastQ, read, entered, had, up>>
         /\ UNCHANGED <<conn, used, joined, loaded, win, asked, full, guessed, lossy>>
<1>1. /\ job[c].at = "answering" /\ down' = Delivered({c}, f) /\ job' = [job EXCEPT ![c] = Idle]
      /\ UNCHANGED <<rows, room, registerQ, broadcastQ, read, entered, had, up>>
      /\ UNCHANGED <<conn, used, joined, loaded, win, asked, full, guessed, lossy>>
  BY DEF Answer, pages
<1>2. f \in Histories /\ f \in Frames /\ f.kind = "history" /\ f.messages \in Seq(Told)
  BY <1>1, TypesAt, JobKinds, FramesMade, FrameKinds
<1>3. \A b \in Conns : down'[b] = IF b \in {c} /\ Attached(b) THEN Append(down[b], f) ELSE down[b]
  BY <1>1, <1>2, DeliveredAt
<1>4. job'[c] = Idle /\ \A b \in Conns : b # c => job'[b] = job[b]
  BY <1>1, JobEnds
<1> QED BY <1>1, <1>2, <1>3, <1>4

\* A message or an edit is fanned out.
LEMMA FanDoes ==
  ASSUME Types, NEW c \in Conns, BroadcastToRoom(c), NEW f, f = job[c].frame
  PROVE  /\ job[c].at = "fanning" /\ f \in Tidings /\ f \in Frames /\ (f.kind = "message" \/ f.kind = "edit")
         /\ job'[c] = Idle /\ \A b \in Conns : b # c => job'[b] = job[b]
         /\ \A b \in Conns : down'[b] = IF b \in room /\ Attached(b) THEN Append(down[b], f) ELSE down[b]
         /\ UNCHANGED <<rows, room, registerQ, broadcastQ, read, entered, had, up>>
         /\ UNCHANGED <<conn, used, joined, loaded, win, asked, full, guessed, lossy>>
<1>1. /\ job[c].at = "fanning" /\ down' = Delivered(room, f) /\ job' = [job EXCEPT ![c] = Idle]
      /\ UNCHANGED <<rows, room, registerQ, broadcastQ, read, entered, had, up>>
      /\ UNCHANGED <<conn, used, joined, loaded, win, asked, full, guessed, lossy>>
  BY DEF BroadcastToRoom, pages
<1>2. f \in Tidings /\ f \in Frames /\ (f.kind = "message" \/ f.kind = "edit")
  BY <1>1, TypesAt, JobKinds, FramesMade
<1>3. \A b \in Conns : down'[b] = IF b \in room /\ Attached(b) THEN Append(down[b], f) ELSE down[b]
  BY <1>1, <1>2, DeliveredAt
<1>4. job'[c] = Idle /\ \A b \in Conns : b # c => job'[b] = job[b]
  BY <1>1, JobEnds
<1> QED BY <1>1, <1>2, <1>3, <1>4

\* What stays when a goroutine takes a message, an edit or a deletion.
LEMMA StoreKeeps ==
  ASSUME NEW c, HandleChatMessage(c) \/ HandleMessageEdit(c) \/ HandleMessageDelete(c)
  PROVE  /\ UNCHANGED <<room, registerQ, broadcastQ, read, entered, had, down>>
         /\ UNCHANGED <<conn, used, joined, loaded, win, asked, full, guessed, lossy>>
BY DEF HandleChatMessage, HandleMessageEdit, HandleMessageDelete, pages

\* A request is refused.
LEMMA RefuseDoes ==
  ASSUME Types, NEW c \in Conns, Refuse(c)
  PROVE  /\ \E kind \in {"message", "edit", "delete"} : Take(c, kind, Idle)
         /\ lossy' = lossy \cup {Owner[c]}
         /\ UNCHANGED <<rows, room, registerQ, broadcastQ, read, entered, had, down>>
         /\ UNCHANGED <<conn, used, joined, loaded, win, asked, full, guessed>>
         /\ \A b \in Conns : job'[b] = job[b]
<1>1. PICK kind \in {"message", "edit", "delete"} : Take(c, kind, Idle)
  BY DEF Refuse
<1>2. \A b \in Conns : job'[b] = job[b]
  BY <1>1, TakeAt
<1>3. /\ lossy' = lossy \cup {Owner[c]}
      /\ UNCHANGED <<rows, room, registerQ, broadcastQ, read, entered, had, down>>
      /\ UNCHANGED <<conn, used, joined, loaded, win, asked, full, guessed>>
  BY DEF Refuse, pages
<1> QED BY <1>1, <1>2, <1>3

\* A deletion goes to the hub, or is lost.
LEMMA PublishDoes ==
  ASSUME Types, NEW c \in Conns, Publish(c), NEW f, f = job[c].frame
  PROVE  /\ job[c].at = "publishing" /\ f \in Deletions
         /\ job'[c] = Idle /\ \A b \in Conns : b # c => job'[b] = job[b]
         /\ \/ broadcastQ' = Append(broadcastQ, f) /\ lossy' = lossy
            \/ broadcastQ' = broadcastQ /\ lossy' = Users
         /\ UNCHANGED <<rows, room, registerQ, read, entered, had, up, down>>
         /\ UNCHANGED <<conn, used, joined, loaded, win, asked, full, guessed>>
<1>1. /\ job[c].at = "publishing" /\ job' = [job EXCEPT ![c] = Idle]
      /\ \/ broadcastQ' = Append(broadcastQ, f) /\ lossy' = lossy
         \/ broadcastQ' = broadcastQ /\ lossy' = Users
      /\ UNCHANGED <<rows, room, registerQ, read, entered, had, up, down>>
      /\ UNCHANGED <<conn, used, joined, loaded, win, asked, full, guessed>>
  BY DEF Publish, pages
<1>2. f \in Deletions
  BY <1>1, TypesAt, JobKinds
<1>3. job'[c] = Idle /\ \A b \in Conns : b # c => job'[b] = job[b]
  BY <1>1, JobEnds
<1> QED BY <1>1, <1>2, <1>3

\* Run enters a connection.
LEMMA RegisterDoes ==
  ASSUME Types, HubRegister, NEW c, c = Head(registerQ)
  PROVE  /\ c \in Conns /\ registerQ # <<>> /\ registerQ' = Tail(registerQ)
         /\ c \in ToSet(registerQ) /\ ToSet(registerQ') \subseteq ToSet(registerQ)
         /\ ToSet(registerQ) = {c} \cup ToSet(registerQ')
         /\ \A d : d \in room' <=> (d \in room /\ Owner[d] # Owner[c]) \/ (d = c /\ Attached(c))
         /\ entered'[c] = Len(rows) /\ \A d \in Conns : d # c => entered'[d] = entered[d]
         /\ UNCHANGED <<rows, broadcastQ, job, read, had, up, down>>
         /\ UNCHANGED <<conn, used, joined, loaded, win, asked, full, guessed, lossy>>
<1>1. /\ registerQ # <<>> /\ registerQ' = Tail(registerQ)
      /\ room' = {d \in room : Owner[d] # Owner[c]} \cup ({c} \cap {conn[Owner[c]]})
      /\ entered' = [entered EXCEPT ![c] = Len(rows)]
      /\ UNCHANGED <<rows, broadcastQ, job, read, had, up, down>>
      /\ UNCHANGED <<conn, used, joined, loaded, win, asked, full, guessed, lossy>>
  BY DEF HubRegister, pages
<1>2. c \in Conns /\ ToSet(registerQ) = {c} \cup ToSet(registerQ')
  BY <1>1, TypesAt, SetOf, TailAt
<1>3. entered'[c] = Len(rows) /\ \A d \in Conns : d # c => entered'[d] = entered[d]
  BY <1>1, <1>2 DEF Types
<1>4. \A d : d \in room' <=> (d \in room /\ Owner[d] # Owner[c]) \/ (d = c /\ Attached(c))
  BY <1>1 DEF Attached
<1> QED BY <1>1, <1>2, <1>3, <1>4

\* The hub tells of a deletion.
LEMMA HubDoes ==
  ASSUME Types, HubBroadcast, NEW f, f = Head(broadcastQ)
  PROVE  /\ f \in Deletions /\ f \in Frames /\ f.kind = "delete" /\ f = broadcastQ[1] /\ 1 \in DOMAIN broadcastQ
         /\ broadcastQ # <<>> /\ broadcastQ' = Tail(broadcastQ)
         /\ \A b \in Conns : down'[b] = IF b \in room /\ Attached(b) THEN Append(down[b], f) ELSE down[b]
         /\ UNCHANGED <<rows, room, registerQ, job, read, entered, had, up>>
         /\ UNCHANGED <<conn, used, joined, loaded, win, asked, full, guessed, lossy>>
<1>1. /\ broadcastQ # <<>> /\ broadcastQ' = Tail(broadcastQ) /\ down' = Delivered(room, f)
      /\ UNCHANGED <<rows, room, registerQ, job, read, entered, had, up>>
      /\ UNCHANGED <<conn, used, joined, loaded, win, asked, full, guessed, lossy>>
  BY DEF HubBroadcast, pages
<1>2. broadcastQ \in Seq(Deletions)
  BY TypesAt
<1>3. f \in Deletions /\ f = broadcastQ[1] /\ 1 \in DOMAIN broadcastQ
  BY <1>1, <1>2, TailAt
<1>4. f \in Frames /\ f.kind = "delete"
  BY <1>3, FramesMade
<1>5. \A b \in Conns : down'[b] = IF b \in room /\ Attached(b) THEN Append(down[b], f) ELSE down[b]
  BY <1>1, <1>4, DeliveredAt
<1> QED BY <1>1, <1>3, <1>4, <1>5


-----------------------------------------------------------------------------
(***************************************************************************)
(* Sockets                                                                 *)
(***************************************************************************)

\* Which connections are in use, and which are current.
LEMMA SocketUsed ==
  ASSUME Types, SocketsKnown, NEW c \in Conns
  PROVE  /\ Attached(c) => c \in used
         /\ up[c] # <<>> \/ down[c] # <<>> \/ c \in room => Attached(c)
         /\ job[c] # Idle \/ c \in ToSet(registerQ) => c \in used
         /\ c \in used /\ Owner[c] \notin lossy => Attached(c)
<1>1. Owner[c] \in Users /\ c # None
  BY FeedConstants
<1>2. Attached(c) => c \in used
  BY <1>1 DEF SocketsKnown, Attached
<1> QED BY <1>2 DEF SocketsKnown

\* The page's socket is the current connection of its user.
LEMMA SocketOf ==
  ASSUME Types, SocketsKnown, NEW u \in Users, conn[u] # None
  PROVE  conn[u] \in Conns /\ Owner[conn[u]] = u /\ Attached(conn[u]) /\ conn[u] \in used
BY DEF Types, SocketsKnown, Attached

\* A step that opens and loses no socket.
LEMMA SocketsKept ==
  ASSUME Types, SocketsKnown, conn' = conn, used' = used, lossy \subseteq lossy',
         \A c \in Conns \ used : /\ job'[c] = job[c] /\ entered'[c] = entered[c]
                                 /\ c \in ToSet(registerQ') => c \in ToSet(registerQ),
         \A c \in Conns : ~Attached(c) => up'[c] = up[c] /\ down'[c] = down[c] /\ (c \in room' => c \in room),
         \A u \in Users : conn[u] = None => win'[u] = win[u]
  PROVE  SocketsKnown'
<1>1. \A c : Attached(c)' <=> Attached(c)
  BY DEF Attached
<1>2. \A u \in Users : conn'[u] # None => conn'[u] \in used' /\ Owner[conn'[u]] = u
  BY DEF SocketsKnown
<1>3. \A c \in Conns \ used' : job'[c] = Idle /\ c \notin ToSet(registerQ') /\ entered'[c] = 0
  BY DEF SocketsKnown
<1>4. \A c \in Conns : ~Attached(c)' => up'[c] = <<>> /\ down'[c] = <<>> /\ c \notin room'
  BY <1>1 DEF SocketsKnown
<1>5. \A c \in used' : Owner[c] \notin lossy' => Attached(c)'
  BY <1>1 DEF SocketsKnown
<1>6. \A u \in Users : u \notin lossy' /\ conn'[u] = None => win'[u] = <<>>
  BY DEF SocketsKnown
<1> QED BY <1>2, <1>3, <1>4, <1>5, <1>6 DEF SocketsKnown

\* The steps of the pages.
LEMMA SocketsPage ==
  ASSUME Types, Faithful, SocketsKnown, NEW u \in Users
  PROVE  /\ \A c \in Conns : OpenSocket(u, c) => SocketsKnown'
         /\ LoseSocket(u) => SocketsKnown'
         /\ \A t \in Texts : SendMessage(u, t) => SocketsKnown'
         /\ \A r \in Requests : AskAbout(u, r) => SocketsKnown'
         /\ Handle(u) => SocketsKnown'
<1>1. ASSUME NEW c \in Conns, OpenSocket(u, c)
      PROVE  SocketsKnown'
  <2>1. /\ conn[u] = None /\ c \notin used /\ Owner[c] = u /\ used' = used \cup {c}
        /\ conn'[u] = c /\ \A v \in Users : v # u => conn'[v] = conn[v]
        /\ \A b \in Conns : b # c => up'[b] = up[b]
        /\ UNCHANGED <<room, registerQ, job, entered, down, win, lossy>>
    BY <1>1, OpenDoes
  <2>2. c # None /\ None \notin Conns /\ \A b \in Conns : Owner[b] \in Users
    BY FeedConstants
  <2>3. Attached(c)' /\ \A b \in Conns : b # c => (Attached(b)' <=> Attached(b))
    <3>1. Attached(c)'
      BY <2>1 DEF Attached
    <3>2. ASSUME NEW b \in Conns, b # c
          PROVE  Attached(b)' <=> Attached(b)
      <4>1. CASE Owner[b] = u
        <5>1. conn'[u] # b /\ conn[u] # b
          BY <2>1, <2>2, <3>2
        <5> QED BY <4>1, <5>1 DEF Attached
      <4>2. CASE Owner[b] # u
        BY <2>1, <2>2, <4>2 DEF Attached
      <4> QED BY <4>1, <4>2
    <3> QED BY <3>1, <3>2
  <2>4. \A v \in Users : conn'[v] # None => conn'[v] \in used' /\ Owner[conn'[v]] = v
    BY <2>1 DEF SocketsKnown
  <2>5. \A b \in Conns \ used' : job'[b] = Idle /\ b \notin ToSet(registerQ') /\ entered'[b] = 0
    BY <2>1 DEF SocketsKnown
  <2>6. \A b \in Conns : ~Attached(b)' => up'[b] = <<>> /\ down'[b] = <<>> /\ b \notin room'
    BY <2>1, <2>3 DEF SocketsKnown
  <2>7. \A b \in used' : Owner[b] \notin lossy' => Attached(b)'
    <3>1. used \subseteq Conns
      BY DEF Types
    <3> QED BY <2>1, <2>3, <3>1 DEF SocketsKnown
  <2>8. \A v \in Users : v \notin lossy' /\ conn'[v] = None => win'[v] = <<>>
    BY <2>1, <2>2 DEF SocketsKnown
  <2> QED BY <2>4, <2>5, <2>6, <2>7, <2>8 DEF SocketsKnown
<1>2. ASSUME LoseSocket(u)
      PROVE  SocketsKnown'
  <2>1. PICK c : c = conn[u]
    OBVIOUS
  <2>2. /\ c \in Conns
        /\ conn'[u] = None /\ \A v \in Users : v # u => conn'[v] = conn[v]
        /\ up'[c] = <<>> /\ \A b \in Conns : b # c => up'[b] = up[b]
        /\ down'[c] = <<>> /\ \A b \in Conns : b # c => down'[b] = down[b]
        /\ room' = room \ {c} /\ lossy' = lossy \cup {u}
        /\ UNCHANGED <<registerQ, job, entered, used, win>>
    BY <1>2, <2>1, LoseDoes
  <2>3. Owner \in [Conns -> Users] /\ None \notin Conns /\ used \subseteq Conns
    BY FeedConstants DEF Types
  <2>4. Owner[c] = u
    BY <2>1, <2>2, <2>3 DEF SocketsKnown
  <2>5. \A b \in Conns : Owner[b] # u => (Attached(b)' <=> Attached(b))
    BY <2>2, <2>3 DEF Attached
  <2>6. \A b \in Conns : Owner[b] = u /\ b # c => ~Attached(b)
    BY <2>1 DEF Attached
  <2>7. \A v \in Users : conn'[v] # None => conn'[v] \in used' /\ Owner[conn'[v]] = v
    BY <2>2 DEF SocketsKnown
  <2>8. \A b \in Conns \ used' : job'[b] = Idle /\ b \notin ToSet(registerQ') /\ entered'[b] = 0
    BY <2>2 DEF SocketsKnown
  <2>9. \A b \in Conns : ~Attached(b)' => up'[b] = <<>> /\ down'[b] = <<>> /\ b \notin room'
    BY <2>2, <2>5, <2>6 DEF SocketsKnown
  <2>10. \A b \in used' : Owner[b] \notin lossy' => Attached(b)'
    BY <2>2, <2>3, <2>5 DEF SocketsKnown
  <2>11. \A v \in Users : v \notin lossy' /\ conn'[v] = None => win'[v] = <<>>
    BY <2>2 DEF SocketsKnown
  <2> QED BY <2>7, <2>8, <2>9, <2>10, <2>11 DEF SocketsKnown
<1>3. ASSUME NEW t \in Texts, SendMessage(u, t)
      PROVE  SocketsKnown'
  <2>1. PICK c : /\ c \in Conns /\ c = conn[u] /\ conn[u] # None
                 /\ \A v \in Users : v # u => win'[v] = win[v]
                 /\ \A b \in Conns : b # c => up'[b] = up[b]
                 /\ UNCHANGED <<room, registerQ, job, entered, down, conn, used, lossy>>
    BY <1>3, SendAll
  <2>2. Attached(c)
    BY <2>1, SocketOf
  <2>3. /\ \A b \in Conns : ~Attached(b) => up'[b] = up[b] /\ down'[b] = down[b] /\ (b \in room' => b \in room)
        /\ \A v \in Users : conn[v] = None => win'[v] = win[v]
    BY <2>1, <2>2
  <2>4. UNCHANGED <<registerQ, job, entered, conn, used, lossy>>
    BY <2>1
  <2> QED BY <2>3, <2>4, SocketsKept
<1>4. ASSUME NEW r \in Requests, AskAbout(u, r)
      PROVE  SocketsKnown'
  <2>1. PICK c : c = conn[u]
    OBVIOUS
  <2>2. /\ c \in Conns /\ \A b \in Conns : b # c => up'[b] = up[b]
        /\ UNCHANGED <<room, registerQ, job, entered, down, conn, used, win, lossy>>
    BY <1>4, <2>1, AskDoes
  <2>3. Attached(c)
    BY <2>1, <2>2, FeedConstants, SocketOf
  <2> QED BY <2>2, <2>3, SocketsKept
<1>5. ASSUME Handle(u)
      PROVE  SocketsKnown'
  <2>1. PICK c, f : c = conn[u] /\ f = down[c][1]
    OBVIOUS
  <2>2. /\ c \in Conns /\ \A b \in Conns : b # c => down'[b] = down[b]
        /\ \A v \in Users : v # u => win'[v] = win[v]
    BY <1>5, <2>1, HandleDoes
  <2>3. UNCHANGED <<room, registerQ, job, entered, up, conn, used, lossy>>
    BY <1>5, HandleKeeps
  <2>4. conn[u] # None
    BY <2>1, <2>2, FeedConstants
  <2>5. Attached(c)
    BY <2>1, <2>4, SocketOf
  <2> QED BY <2>2, <2>3, <2>4, <2>5, SocketsKept
<1> QED BY <1>1, <1>2, <1>3, <1>4, <1>5

\* A goroutine that takes a request is that of the current connection.
LEMMA TakerCurrent ==
  ASSUME Types, SocketsKnown, NEW c \in Conns, NEW kind, NEW next, Take(c, kind, next)
  PROVE  /\ Attached(c) /\ c \in used /\ \A b \in Conns : b # c => up'[b] = up[b] /\ job'[b] = job[b]
BY TakeAt, SocketUsed

\* The steps of the goroutines and the hub.
LEMMA SocketsConn ==
  ASSUME Types, Faithful, SocketsKnown, NEW c \in Conns
  PROVE  /\ HandleJoin(c) => SocketsKnown'
         /\ ReadHistory(c) => SocketsKnown'
         /\ HandleLoadHistory(c) => SocketsKnown'
         /\ Answer(c) => SocketsKnown'
         /\ HandleChatMessage(c) \/ HandleMessageEdit(c) \/ HandleMessageDelete(c) => SocketsKnown'
         /\ Refuse(c) => SocketsKnown'
         /\ BroadcastToRoom(c) => SocketsKnown'
         /\ Publish(c) => SocketsKnown'
<1>0. Idle.at = "idle"
  BY DEF Idle
<1>1. ASSUME HandleJoin(c)
      PROVE  SocketsKnown'
  <2>1. /\ Take(c, "join", [at |-> "greeting"]) /\ registerQ' = Append(registerQ, c)
        /\ UNCHANGED <<room, entered, down, conn, used, win, lossy>>
    BY <1>1, JoinDoes
  <2>2. Attached(c) /\ c \in used /\ \A b \in Conns : b # c => up'[b] = up[b] /\ job'[b] = job[b]
    BY <2>1, TakerCurrent
  <2>3. ToSet(registerQ') = ToSet(registerQ) \cup {c}
    BY <2>1, TypesAt, SetOf
  <2> QED BY <2>1, <2>2, <2>3, SocketsKept
<1>2. ASSUME ReadHistory(c)
      PROVE  SocketsKnown'
  <2>1. /\ job[c].at = "greeting" /\ \A b \in Conns : b # c => job'[b] = job[b]
        /\ UNCHANGED <<room, registerQ, entered, up, down, conn, used, win, lossy>>
    BY <1>2, ReadDoes
  <2>2. c \in used
    BY <1>0, <2>1, SocketUsed
  <2> QED BY <2>1, <2>2, SocketsKept
<1>3. ASSUME HandleLoadHistory(c)
      PROVE  SocketsKnown'
  <2>1. PICK next : /\ Take(c, "load", next)
                    /\ UNCHANGED <<room, registerQ, entered, down, conn, used, win, lossy>>
    BY <1>3, LoadDoes
  <2>2. Attached(c) /\ c \in used /\ \A b \in Conns : b # c => up'[b] = up[b] /\ job'[b] = job[b]
    BY <2>1, TakerCurrent
  <2> QED BY <2>1, <2>2, SocketsKept
<1>4. ASSUME Answer(c)
      PROVE  SocketsKnown'
  <2>1. PICK f : f = job[c].frame
    OBVIOUS
  <2>2. /\ job[c].at = "answering" /\ \A b \in Conns : b # c => job'[b] = job[b]
        /\ down'[c] = IF Attached(c) THEN Append(down[c], f) ELSE down[c]
        /\ \A b \in Conns : b # c => down'[b] = down[b]
        /\ UNCHANGED <<room, registerQ, entered, up, conn, used, win, lossy>>
    BY <1>4, <2>1, AnswerDoes
  <2>3. c \in used
    BY <1>0, <2>2, SocketUsed
  <2> QED BY <2>2, <2>3, SocketsKept
<1>5. ASSUME HandleChatMessage(c) \/ HandleMessageEdit(c) \/ HandleMessageDelete(c)
      PROVE  SocketsKnown'
  <2>1. PICK kind, next : Take(c, kind, next)
    BY <1>5 DEF HandleChatMessage, HandleMessageEdit, HandleMessageDelete
  <2>2. UNCHANGED <<room, registerQ, entered, down, conn, used, win, lossy>>
    BY <1>5, StoreKeeps
  <2>3. Attached(c) /\ c \in used /\ \A b \in Conns : b # c => up'[b] = up[b] /\ job'[b] = job[b]
    BY <2>1, TakerCurrent
  <2> QED BY <2>2, <2>3, SocketsKept
<1>6. ASSUME Refuse(c)
      PROVE  SocketsKnown'
  <2>1. /\ \E kind \in {"message", "edit", "delete"} : Take(c, kind, Idle)
        /\ lossy' = lossy \cup {Owner[c]}
        /\ UNCHANGED <<room, registerQ, entered, down, conn, used, win>>
    BY <1>6, RefuseDoes
  <2>2. Attached(c) /\ c \in used /\ \A b \in Conns : b # c => up'[b] = up[b] /\ job'[b] = job[b]
    BY <2>1, TakerCurrent
  <2> QED BY <2>1, <2>2, SocketsKept
<1>7. ASSUME BroadcastToRoom(c)
      PROVE  SocketsKnown'
  <2>1. PICK f : f = job[c].frame
    OBVIOUS
  <2>2. /\ job[c].at = "fanning" /\ \A b \in Conns : b # c => job'[b] = job[b]
        /\ \A b \in Conns : down'[b] = IF b \in room /\ Attached(b) THEN Append(down[b], f) ELSE down[b]
        /\ UNCHANGED <<room, registerQ, entered, up, conn, used, win, lossy>>
    BY <1>7, <2>1, FanDoes
  <2>3. c \in used
    BY <1>0, <2>2, SocketUsed
  <2> QED BY <2>2, <2>3, SocketsKept
<1>8. ASSUME Publish(c)
      PROVE  SocketsKnown'
  <2>1. PICK f : f = job[c].frame
    OBVIOUS
  <2>2. /\ job[c].at = "publishing" /\ \A b \in Conns : b # c => job'[b] = job[b]
        /\ lossy' = lossy \/ lossy' = Users
        /\ UNCHANGED <<room, registerQ, entered, up, down, conn, used, win>>
    BY <1>8, <2>1, PublishDoes
  <2>3. c \in used /\ lossy \subseteq lossy'
    BY <1>0, <2>2, SocketUsed DEF Types
  <2> QED BY <2>2, <2>3, SocketsKept
<1> QED BY <1>1, <1>2, <1>3, <1>4, <1>5, <1>6, <1>7, <1>8

\* The steps of the hub.
LEMMA SocketsHub ==
  ASSUME Types, Faithful, SocketsKnown
  PROVE  /\ HubRegister => SocketsKnown'
         /\ HubBroadcast => SocketsKnown'
<1>1. ASSUME HubRegister
      PROVE  SocketsKnown'
  <2>1. PICK c : c = Head(registerQ)
    OBVIOUS
  <2>2. /\ c \in Conns /\ c \in ToSet(registerQ) /\ ToSet(registerQ') \subseteq ToSet(registerQ)
        /\ \A d : d \in room' <=> (d \in room /\ Owner[d] # Owner[c]) \/ (d = c /\ Attached(c))
        /\ \A d \in Conns : d # c => entered'[d] = entered[d]
        /\ UNCHANGED <<job, up, down, conn, used, win, lossy>>
    BY <1>1, <2>1, RegisterDoes
  <2>3. c \in used
    BY <2>2, SocketUsed
  <2> QED BY <2>2, <2>3, SocketsKept
<1>2. ASSUME HubBroadcast
      PROVE  SocketsKnown'
  <2>1. PICK f : f = Head(broadcastQ)
    OBVIOUS
  <2>2. /\ \A b \in Conns : down'[b] = IF b \in room /\ Attached(b) THEN Append(down[b], f) ELSE down[b]
        /\ UNCHANGED <<room, registerQ, job, entered, up, conn, used, win, lossy>>
    BY <1>2, <2>1, HubDoes
  <2> QED BY <2>2, SocketsKept
<1> QED BY <1>1, <1>2

\* Every step keeps what is said of the sockets.
LEMMA SocketsStep ==
  ASSUME Types, Faithful, SocketsKnown, FeedNext
  PROVE  SocketsKnown'
BY FeedSteps, SocketsPage, SocketsConn, SocketsHub


-----------------------------------------------------------------------------
(***************************************************************************)
(* Joins                                                                   *)
(***************************************************************************)

\* A request goes to the end of what a page has asked.
LEMMA AsksGrow ==
  ASSUME Types, NEW c \in Conns, NEW r \in Requests, up'[c] = Append(up[c], r)
  PROVE  \E n \in Nat :
           /\ n \notin DOMAIN up[c] /\ DOMAIN up'[c] = DOMAIN up[c] \cup {n} /\ up'[c][n] = r
           /\ \A p \in DOMAIN up[c] : p < n /\ p \in Nat /\ up'[c][p] = up[c][p]
           /\ \A kind : Asks(c, kind)' = Asks(c, kind) \cup (IF r.kind = kind THEN {n} ELSE {})
<1> DEFINE n == Len(up[c]) + 1
<1>1. up[c] \in Seq(Requests)
  BY TypesAt
<1>2. /\ n \in Nat /\ DOMAIN up[c] = 1..Len(up[c]) /\ DOMAIN up'[c] = 1..n /\ up'[c][n] = r
      /\ \A p \in DOMAIN up[c] : p < n /\ p \in Nat /\ up'[c][p] = up[c][p]
  BY <1>1, AppendAt
<1>3. n \notin DOMAIN up[c] /\ DOMAIN up'[c] = DOMAIN up[c] \cup {n}
  BY <1>1, <1>2
<1> HIDE DEF n
<1>4. ASSUME NEW kind
      PROVE  Asks(c, kind)' = Asks(c, kind) \cup (IF r.kind = kind THEN {n} ELSE {})
  BY <1>2, <1>3 DEF Asks
<1> QED BY <1>2, <1>3, <1>4

\* It is of one kind.
LEMMA AsksSame ==
  ASSUME Types, NEW c \in Conns, NEW r \in Requests, up'[c] = Append(up[c], r), NEW kind, r.kind # kind
  PROVE  Asks(c, kind)' = Asks(c, kind)
<1>1. PICK n : /\ n \notin DOMAIN up[c] /\ DOMAIN up'[c] = DOMAIN up[c] \cup {n} /\ up'[c][n] = r
               /\ \A p \in DOMAIN up[c] : p < n /\ p \in Nat /\ up'[c][p] = up[c][p]
  BY AsksGrow
<1> QED BY <1>1 DEF Asks

\* The first request is taken.
LEMMA AsksShrink ==
  ASSUME Types, NEW c \in Conns, NEW kind, NEW next, Take(c, kind, next)
  PROVE  /\ up[c] # <<>> /\ 1 \in DOMAIN up[c]
         /\ \A p \in DOMAIN up'[c] : /\ p \in Nat /\ p + 1 \in DOMAIN up[c] /\ p + 1 # 1
                                     /\ up'[c][p] = up[c][p + 1]
         /\ \A p \in DOMAIN up[c] : p # 1 => p - 1 \in DOMAIN up'[c] /\ up'[c][p - 1] = up[c][p]
         /\ \A k : \A p \in Asks(c, k)' : p \in Nat /\ p + 1 \in Asks(c, k) /\ up'[c][p] = up[c][p + 1]
         /\ \A b \in Conns : \A k : b # c => Asks(b, k)' = Asks(b, k)
         /\ 1 \in Asks(c, kind)
<1>1. /\ up[c] # <<>> /\ 1 \in DOMAIN up[c] /\ up'[c] = Tail(up[c]) /\ up[c] \in Seq(Requests)
      /\ \A b \in Conns : b # c => up'[b] = up[b]
      /\ up[c][1].kind = kind
  BY TakeAt, TypesAt
<1>2. /\ \A p \in DOMAIN up'[c] : /\ p \in Nat /\ p + 1 \in DOMAIN up[c] /\ p + 1 # 1
                                  /\ up'[c][p] = up[c][p + 1]
      /\ \A p \in DOMAIN up[c] : p # 1 => p - 1 \in DOMAIN up'[c] /\ up'[c][p - 1] = up[c][p]
  BY <1>1, TailAt
<1>3. \A k : \A p \in Asks(c, k)' : p \in Nat /\ p + 1 \in Asks(c, k) /\ up'[c][p] = up[c][p + 1]
  BY <1>2 DEF Asks
<1>4. \A b \in Conns : \A k : b # c => Asks(b, k)' = Asks(b, k)
  BY <1>1 DEF Asks
<1> QED BY <1>1, <1>2, <1>3, <1>4 DEF Asks

\* A frame goes to the end of what is on its way.
LEMMA DownGrows ==
  ASSUME Types, NEW c \in Conns, NEW f \in Frames, down'[c] = Append(down[c], f)
  PROVE  \E n \in Nat :
           /\ n \notin DOMAIN down[c] /\ DOMAIN down'[c] = DOMAIN down[c] \cup {n} /\ down'[c][n] = f
           /\ \A p \in DOMAIN down[c] : p < n /\ p \in Nat /\ down'[c][p] = down[c][p]
           /\ \A kind : At(c, kind)' = At(c, kind) \cup (IF f.kind = kind THEN {n} ELSE {})
<1> DEFINE n == Len(down[c]) + 1
<1>1. down[c] \in Seq(Frames)
  BY TypesAt
<1>2. /\ n \in Nat /\ DOMAIN down[c] = 1..Len(down[c]) /\ DOMAIN down'[c] = 1..n /\ down'[c][n] = f
      /\ \A p \in DOMAIN down[c] : p < n /\ p \in Nat /\ down'[c][p] = down[c][p]
  BY <1>1, AppendAt
<1>3. n \notin DOMAIN down[c] /\ DOMAIN down'[c] = DOMAIN down[c] \cup {n}
  BY <1>1, <1>2
<1> HIDE DEF n
<1>4. ASSUME NEW kind
      PROVE  At(c, kind)' = At(c, kind) \cup (IF f.kind = kind THEN {n} ELSE {})
  BY <1>2, <1>3 DEF At
<1> QED BY <1>2, <1>3, <1>4

\* It is of one kind.
LEMMA DownSame ==
  ASSUME Types, NEW c \in Conns, NEW f \in Frames, down'[c] = down[c] \/ down'[c] = Append(down[c], f),
         NEW kind, f.kind # kind
  PROVE  At(c, kind)' = At(c, kind)
<1>1. CASE down'[c] = down[c]
  BY <1>1 DEF At
<1>2. CASE down'[c] = Append(down[c], f)
  <2>1. PICK n : /\ n \notin DOMAIN down[c] /\ DOMAIN down'[c] = DOMAIN down[c] \cup {n} /\ down'[c][n] = f
                 /\ \A p \in DOMAIN down[c] : p < n /\ p \in Nat /\ down'[c][p] = down[c][p]
    BY <1>2, DownGrows
  <2> QED BY <2>1 DEF At
<1> QED BY <1>1, <1>2

\* The first frame is handled.
LEMMA DownShrinks ==
  ASSUME Types, NEW c \in Conns, down[c] # <<>>, down'[c] = Tail(down[c])
  PROVE  /\ 1 \in DOMAIN down[c]
         /\ \A p \in DOMAIN down'[c] : /\ p \in Nat /\ p + 1 \in DOMAIN down[c] /\ p + 1 # 1
                                       /\ down'[c][p] = down[c][p + 1]
         /\ \A p \in DOMAIN down[c] : p # 1 => p \in Nat /\ p - 1 \in DOMAIN down'[c] /\ down'[c][p - 1] = down[c][p]
         /\ \A k : \A p \in At(c, k)' : p \in Nat /\ p + 1 \in At(c, k) /\ p + 1 # 1 /\ down'[c][p] = down[c][p + 1]
         /\ \A k : \A p \in At(c, k) : p # 1 => p \in Nat /\ p - 1 \in At(c, k)' /\ down'[c][p - 1] = down[c][p]
<1>1. down[c] \in Seq(Frames)
  BY TypesAt
<1>2. /\ 1 \in DOMAIN down[c]
      /\ \A p \in DOMAIN down'[c] : /\ p \in Nat /\ p + 1 \in DOMAIN down[c] /\ p + 1 # 1
                                    /\ down'[c][p] = down[c][p + 1]
      /\ \A p \in DOMAIN down[c] : p # 1 => p \in Nat /\ p - 1 \in DOMAIN down'[c] /\ down'[c][p - 1] = down[c][p]
  BY <1>1, TailAt
<1>3. \A k : \A p \in At(c, k)' : p \in Nat /\ p + 1 \in At(c, k) /\ p + 1 # 1 /\ down'[c][p] = down[c][p + 1]
  BY <1>2 DEF At
<1>4. \A k : \A p \in At(c, k) : p # 1 => p \in Nat /\ p - 1 \in At(c, k)' /\ down'[c][p - 1] = down[c][p]
  BY <1>2 DEF At
<1> QED BY <1>2, <1>3, <1>4

\* The entries after a frame was handled: old ones, some with another text, and new ones.
LEMMA TreatsEntries ==
  ASSUME NEW w \in Seq(Told), NEW f \in Frames, NEW u, NEW d, Treats(d, w, f, u)
  PROVE  \A i \in DOMAIN d :
           \/ \E j \in DOMAIN w : d[i].id = w[j].id /\ d[i].cid = w[j].cid /\ d[i].user = w[j].user
           \/ f.kind = "message" /\ d[i] = f.message
           \/ f.kind = "history" /\ \E q \in DOMAIN f.messages : d[i] = f.messages[q]
<1>1. ASSUME f.kind = "message"
      PROVE  \A i \in DOMAIN d : (\E j \in DOMAIN w : d[i] = w[j]) \/ d[i] = f.message
  <2> DEFINE m == f.message
  <2>0. Put(d, w, m) \/ Known(d, w, m) \/ Added(d, w, m)
    BY <1>1 DEF Treats
  <2> HIDE DEF m
  <2>1. CASE Put(d, w, m)
    BY <2>1 DEF Put, m
  <2>2. CASE Known(d, w, m)
    BY <2>2 DEF Known
  <2>3. CASE Added(d, w, m)
    <3>1. PICK e : From(d, w, e) /\ \A i \in DOMAIN d : e[i] = 0 <=> i = Len(d)
      BY <2>3 DEF Added
    <3>2. d[Len(d)] = m
      BY <2>3 DEF Added
    <3> QED BY <3>1, <3>2 DEF From, m
  <2> QED BY <2>0, <2>1, <2>2, <2>3
<1>2. ASSUME f.kind = "edit"
      PROVE  \A i \in DOMAIN d : i \in DOMAIN w /\ d[i].id = w[i].id /\ d[i].cid = w[i].cid /\ d[i].user = w[i].user
  <2>1. f.text \in TextOrNone
    BY <1>2, FrameKinds
  <2>2. d = w \/ d = EditMessageInPlace(w, f.id, f.text)
    BY <1>2 DEF Treats
  <2>3. CASE d = w
    BY <2>3
  <2>4. CASE d = EditMessageInPlace(w, f.id, f.text)
    BY <2>1, <2>4, EditWindow
  <2> QED BY <2>2, <2>3, <2>4
<1>3. ASSUME f.kind = "delete"
      PROVE  \A i \in DOMAIN d : \E j \in DOMAIN w : d[i] = w[j]
  BY <1>3 DEF Treats, Without, From
<1>4. ASSUME f.kind = "history"
      PROVE  \A i \in DOMAIN d : (\E j \in DOMAIN w : d[i] = w[j]) \/ \E q \in DOMAIN f.messages : d[i] = f.messages[q]
  <2> DEFINE p == f.messages
  <2>1. PICK cap, close : PageMerged(d, w, p, cap, close)
    BY <1>4 DEF Treats
  <2>2. PICK e : From(d, w, e) /\ \A i \in DOMAIN d : e[i] = 0 => d[i] \in ToSet(p)
    BY <2>1 DEF PageMerged
  <2>3. \A x \in ToSet(p) : \E q \in DOMAIN p : x = p[q]
    BY DEF ToSet
  <2> HIDE DEF p
  <2>4. \A i \in DOMAIN d : (\E j \in DOMAIN w : d[i] = w[j]) \/ \E q \in DOMAIN p : d[i] = p[q]
    BY <2>2, <2>3 DEF From
  <2> QED BY <2>4 DEF p
<1> QED BY <1>1, <1>2, <1>3, <1>4, FrameKinds

\* What is asked for other than a join is asked by a page that has joined.
LEMMA TakesJoined ==
  ASSUME Types, SocketsKnown, Joins, NEW c \in Conns, NEW kind, NEW next, Take(c, kind, next), kind # "join"
  PROVE  /\ Attached(c) /\ joined[Owner[c]] /\ Asks(c, "join") = {} /\ Asks(c, "join")' = {}
<1>1. Attached(c) /\ 1 \in DOMAIN up[c] /\ up[c][1].kind # "join" /\ Owner[c] \in Users
  BY TakerCurrent, TakeAt, FeedConstants
<1>2. joined[Owner[c]]
  BY <1>1 DEF Joins
<1>3. Asks(c, "join") = {}
  BY <1>1, <1>2 DEF Joins, Joining
<1> QED BY <1>1, <1>2, <1>3, AsksShrink

\* A step that neither opens, loses nor enters a connection.
LEMMA JoinsKept ==
  ASSUME Types, Joins,
         conn' = conn, joined' = joined, registerQ' = registerQ, room' = room, entered' = entered,
         lossy \subseteq lossy',
         \A c \in Conns : Asks(c, "join")' = Asks(c, "join") /\ (Asks(c, "join") # {} => job'[c] = job[c]),
         \A c \in Conns : Attached(c) /\ ~joined[Owner[c]] =>
            up'[c] = up[c] /\ job'[c].at \in {"idle", "greeting", "answering"},
         \A c \in Conns : Attached(c) /\ Joining(c)' => Joining(c) /\ At(c, "history")' = At(c, "history"),
         \A u \in Users : ~joined[u] => win'[u] = win[u]
  PROVE  Joins'
<1>0. /\ \A c : Attached(c)' <=> Attached(c)
      /\ \A c \in Conns : Owner[c] \in Users
  BY FeedConstants DEF Attached
<1>1. \A c \in Conns : Asks(c, "join")' # {} =>
       job'[c] = Idle /\ c \notin room' /\ c \notin ToSet(registerQ') /\ entered'[c] = 0
  BY DEF Joins
<1>2. \A c \in Conns : Attached(c)' /\ ~joined'[Owner[c]] =>
       /\ \A p \in DOMAIN up'[c] : p = 1 /\ up'[c][p].kind = "join"
       /\ job'[c].at \in {"idle", "greeting", "answering"}
       /\ Owner[c] \notin lossy' => \A k \in Ids(win'[Owner[c]]) : k > 0
  BY <1>0 DEF Joins
<1>3. \A c \in Conns : Attached(c)' /\ Joining(c)' => ~joined'[Owner[c]] /\ At(c, "history")' = {}
  BY <1>0 DEF Joins
<1>4. /\ \A i, j \in DOMAIN registerQ' : registerQ'[i] = registerQ'[j] => i = j
      /\ \A c \in ToSet(registerQ') : c \notin room'
  BY DEF Joins
<1>5. \A c \in Conns : Attached(c)' /\ Owner[c] \notin lossy' /\ Asks(c, "join")' = {} =>
       c \in room' \/ c \in ToSet(registerQ')
  BY <1>0 DEF Joins
<1> QED BY <1>1, <1>2, <1>3, <1>4, <1>5 DEF Joins

\* The window of a page that waits for its history shows messages of the store.
LEMMA StoredShown ==
  ASSUME Types, Faithful, SocketsKnown, Joins, NEW u \in Users, Handle(u), NEW c \in Conns, c = conn[u],
         ~joined[u], ~joined'[u], u \notin lossy
  PROVE  \A k \in Ids(win'[u]) : k > 0
<1>1. PICK f : f = down[c][1]
  OBVIOUS
<1>2. /\ c \in Conns /\ 1 \in DOMAIN down[c] /\ f \in Frames /\ Treats(win'[u], win[u], f, u)
      /\ joined' = [joined EXCEPT ![u] = @ \/ f.kind = "history"]
  BY <1>1, HandleDoes
<1>3. Attached(c) /\ Owner[c] = u /\ DOMAIN rows = 1..Len(rows) /\ Len(rows) \in Nat /\ win[u] \in Seq(Told)
  BY <1>2, FeedConstants, SocketOf, TypesAt
<1>4. f.kind # "history"
  BY <1>2 DEF Types
<1>5. \A k \in Ids(win[u]) : k > 0
  BY <1>3 DEF Joins
<1>6. f.kind = "message" => f.message.id > 0
  <2> HAVE f.kind = "message"
  <2>1. 1 \in At(c, "message")
    BY <1>1, <1>2 DEF At
  <2>2. f.message.id \in DOMAIN rows
    BY <1>1, <2>1 DEF Faithful, FaithFrames, Says, At, IsRow
  <2> QED BY <1>3, <2>2
<1>7. \A i \in DOMAIN win'[u] :
        \/ \E j \in DOMAIN win[u] : win'[u][i].id = win[u][j].id
        \/ f.kind = "message" /\ win'[u][i] = f.message
  BY <1>2, <1>3, <1>4, TreatsEntries
<1> QED BY <1>5, <1>6, <1>7 DEF Ids

\* The steps of the pages.
LEMMA JoinsPage ==
  ASSUME Types, Faithful, SocketsKnown, Joins, NEW u \in Users
  PROVE  /\ \A c \in Conns : OpenSocket(u, c) => Joins'
         /\ LoseSocket(u) => Joins'
         /\ \A t \in Texts : SendMessage(u, t) => Joins'
         /\ \A r \in Requests : AskAbout(u, r) /\ r.kind \in {"edit", "delete", "load"} => Joins'
         /\ Handle(u) => Joins'
<1>0. None \notin Conns /\ \A b \in Conns : Owner[b] \in Users /\ b # None
  BY FeedConstants
<1>1. ASSUME NEW c \in Conns, OpenSocket(u, c)
      PROVE  Joins'
  <2>1. /\ conn[u] = None /\ c \notin used /\ Owner[c] = u
        /\ conn'[u] = c /\ \A v \in Users : v # u => conn'[v] = conn[v]
        /\ ~joined'[u] /\ \A v \in Users : v # u => joined'[v] = joined[v]
        /\ up'[c] = <<[kind |-> "join"]>> /\ \A b \in Conns : b # c => up'[b] = up[b]
        /\ UNCHANGED <<room, registerQ, job, entered, down, win, lossy>>
    BY <1>1, OpenDoes
  <2>2. Attached(c)' /\ ~Attached(c)
    BY <1>0, <2>1 DEF Attached
  <2>3. job[c] = Idle /\ c \notin ToSet(registerQ) /\ entered[c] = 0 /\ down[c] = <<>> /\ c \notin room
    BY <2>1, <2>2 DEF SocketsKnown
  <2>4. \A b \in Conns : b # c /\ Attached(b)' => Owner[b] # u /\ Attached(b)
    BY <1>0, <2>1 DEF Attached
  <2>5. \A b \in Conns : b # c => /\ Asks(b, "join")' = Asks(b, "join") /\ (Joining(b)' <=> Joining(b))
                                  /\ At(b, "history")' = At(b, "history")
    BY <2>1 DEF Asks, Joining, At
  <2>6. DOMAIN up'[c] = {1} /\ up'[c][1] = [kind |-> "join"] /\ 1 \in Asks(c, "join")'
    BY <2>1 DEF Asks
  <2>7. \A b \in Conns : Asks(b, "join")' # {} =>
          job'[b] = Idle /\ b \notin room' /\ b \notin ToSet(registerQ') /\ entered'[b] = 0
    BY <2>1, <2>3, <2>5 DEF Joins
  <2>8. \A b \in Conns : Attached(b)' /\ ~joined'[Owner[b]] =>
          /\ \A p \in DOMAIN up'[b] : p = 1 /\ up'[b][p].kind = "join"
          /\ job'[b].at \in {"idle", "greeting", "answering"}
          /\ Owner[b] \notin lossy' => \A k \in Ids(win'[Owner[b]]) : k > 0
    <3>1. ASSUME NEW b \in Conns, Attached(b)', ~joined'[Owner[b]], b # c
          PROVE  /\ \A p \in DOMAIN up'[b] : p = 1 /\ up'[b][p].kind = "join"
                 /\ job'[b].at \in {"idle", "greeting", "answering"}
                 /\ Owner[b] \notin lossy' => \A k \in Ids(win'[Owner[b]]) : k > 0
      BY <1>0, <2>1, <2>4, <3>1 DEF Joins
    <3>2. u \notin lossy' => \A k \in Ids(win'[u]) : k > 0
      <4>1. u \notin lossy => win[u] = <<>>
        BY <2>1 DEF SocketsKnown
      <4>2. Ids(<<>>) = {}
        BY DEF Ids
      <4> QED BY <2>1, <4>1, <4>2
    <3>3. /\ \A p \in DOMAIN up'[c] : p = 1 /\ up'[c][p].kind = "join"
          /\ job'[c].at \in {"idle", "greeting", "answering"}
      BY <2>1, <2>3, <2>6 DEF Idle
    <3> QED BY <2>1, <3>1, <3>2, <3>3
  <2>9. \A b \in Conns : Attached(b)' /\ Joining(b)' => ~joined'[Owner[b]] /\ At(b, "history")' = {}
    <3>1. At(c, "history")' = {}
      BY <2>1, <2>3 DEF At
    <3> QED BY <1>0, <2>1, <2>4, <2>5, <3>1 DEF Joins
  <2>10. /\ \A i, j \in DOMAIN registerQ' : registerQ'[i] = registerQ'[j] => i = j
         /\ \A b \in ToSet(registerQ') : b \notin room'
    BY <2>1 DEF Joins
  <2>11. \A b \in Conns : Attached(b)' /\ Owner[b] \notin lossy' /\ Asks(b, "join")' = {} =>
           b \in room' \/ b \in ToSet(registerQ')
    BY <2>1, <2>4, <2>5, <2>6 DEF Joins
  <2> QED BY <2>7, <2>8, <2>9, <2>10, <2>11 DEF Joins
<1>2. ASSUME LoseSocket(u)
      PROVE  Joins'
  <2>1. PICK c : c = conn[u]
    OBVIOUS
  <2>2. /\ c \in Conns
        /\ conn'[u] = None /\ \A v \in Users : v # u => conn'[v] = conn[v]
        /\ up'[c] = <<>> /\ \A b \in Conns : b # c => up'[b] = up[b]
        /\ down'[c] = <<>> /\ \A b \in Conns : b # c => down'[b] = down[b]
        /\ room' = room \ {c} /\ lossy' = lossy \cup {u}
        /\ UNCHANGED <<registerQ, job, entered, joined, win>>
    BY <1>2, <2>1, LoseDoes
  <2>3. \A b \in Conns : Attached(b)' => Owner[b] # u /\ Attached(b) /\ b # c
    <3>1. Owner[c] = u
      BY <1>0, <2>1, <2>2, SocketOf
    <3> QED BY <1>0, <2>2, <3>1 DEF Attached
  <2>4. \A b \in Conns : b # c => /\ Asks(b, "join")' = Asks(b, "join") /\ (Joining(b)' <=> Joining(b))
                                  /\ At(b, "history")' = At(b, "history")
    BY <2>2 DEF Asks, Joining, At
  <2>5. Asks(c, "join")' = {}
    BY <2>2 DEF Asks
  <2>6. \A b \in Conns : Asks(b, "join")' # {} =>
          job'[b] = Idle /\ b \notin room' /\ b \notin ToSet(registerQ') /\ entered'[b] = 0
    BY <2>2, <2>4, <2>5 DEF Joins
  <2>7. \A b \in Conns : Attached(b)' /\ ~joined'[Owner[b]] =>
          /\ \A p \in DOMAIN up'[b] : p = 1 /\ up'[b][p].kind = "join"
          /\ job'[b].at \in {"idle", "greeting", "answering"}
          /\ Owner[b] \notin lossy' => \A k \in Ids(win'[Owner[b]]) : k > 0
    BY <2>2, <2>3 DEF Joins
  <2>8. \A b \in Conns : Attached(b)' /\ Joining(b)' => ~joined'[Owner[b]] /\ At(b, "history")' = {}
    BY <2>2, <2>3, <2>4 DEF Joins
  <2>9. /\ \A i, j \in DOMAIN registerQ' : registerQ'[i] = registerQ'[j] => i = j
        /\ \A b \in ToSet(registerQ') : b \notin room'
    BY <2>2 DEF Joins
  <2>10. \A b \in Conns : Attached(b)' /\ Owner[b] \notin lossy' /\ Asks(b, "join")' = {} =>
           b \in room' \/ b \in ToSet(registerQ')
    BY <2>2, <2>3, <2>4 DEF Joins
  <2> QED BY <2>6, <2>7, <2>8, <2>9, <2>10 DEF Joins
<1>3. ASSUME NEW c \in Conns, NEW r \in Requests, c = conn[u], joined[u],
             up'[c] = Append(up[c], r), r.kind # "join", \A b \in Conns : b # c => up'[b] = up[b],
             \A v \in Users : v # u => win'[v] = win[v],
             UNCHANGED <<room, registerQ, job, entered, down, conn, joined, lossy>>
      PROVE  Joins'
  <2>1. \A b \in Conns : Asks(b, "join")' = Asks(b, "join")
    <3>1. Asks(c, "join")' = Asks(c, "join")
      BY <1>3, AsksSame
    <3> QED BY <1>3, <3>1 DEF Asks
  <2>2. Owner[c] = u
    BY <1>0, <1>3, SocketOf
  <2>3. \A b \in Conns : Attached(b) /\ ~joined[Owner[b]] =>
          up'[b] = up[b] /\ job'[b].at \in {"idle", "greeting", "answering"}
    BY <1>3, <2>2 DEF Joins
  <2>4. \A b \in Conns : (Joining(b)' <=> Joining(b)) /\ At(b, "history")' = At(b, "history")
    BY <1>3, <2>1 DEF Joining, At
  <2>5. \A v \in Users : ~joined[v] => win'[v] = win[v]
    BY <1>3
  <2>6. UNCHANGED <<room, registerQ, entered, conn, joined, lossy, job>>
    BY <1>3
  <2> QED BY <2>1, <2>3, <2>4, <2>5, <2>6, JoinsKept
<1>4. ASSUME NEW t \in Texts, SendMessage(u, t)
      PROVE  Joins'
  <2>1. PICK c, r : /\ c \in Conns /\ r \in Requests /\ c = conn[u] /\ joined[u]
                    /\ up'[c] = Append(up[c], r) /\ r.kind = "message"
                    /\ \A b \in Conns : b # c => up'[b] = up[b]
                    /\ \A v \in Users : v # u => win'[v] = win[v]
                    /\ UNCHANGED <<room, registerQ, job, entered, down, conn, joined, lossy>>
    BY <1>4, SendAll
  <2>2. r.kind # "join"
    BY <2>1
  <2> QED BY <1>3, <2>1, <2>2
<1>5. ASSUME NEW r \in Requests, AskAbout(u, r), r.kind \in {"edit", "delete", "load"}
      PROVE  Joins'
  <2>1. PICK c : c = conn[u]
    OBVIOUS
  <2>2. /\ c \in Conns /\ joined[u]
        /\ up'[c] = Append(up[c], r) /\ \A b \in Conns : b # c => up'[b] = up[b]
        /\ UNCHANGED <<room, registerQ, job, entered, down, conn, joined, win, lossy>>
    BY <1>5, <2>1, AskDoes
  <2> QED BY <1>3, <1>5, <2>1, <2>2
<1>6. ASSUME Handle(u)
      PROVE  Joins'
  <2>1. PICK c, f : c = conn[u] /\ f = down[c][1]
    OBVIOUS
  <2>2. /\ c \in Conns /\ down[c] # <<>> /\ 1 \in DOMAIN down[c]
        /\ down'[c] = Tail(down[c]) /\ \A b \in Conns : b # c => down'[b] = down[b]
        /\ \A v \in Users : v # u => win'[v] = win[v]
        /\ joined' = [joined EXCEPT ![u] = @ \/ f.kind = "history"]
    BY <1>6, <2>1, HandleDoes
  <2>3. UNCHANGED <<room, registerQ, job, entered, up, conn, lossy>>
    BY <1>6, HandleKeeps
  <2>4. Attached(c) /\ Owner[c] = u /\ \A b : Attached(b)' <=> Attached(b)
    BY <1>0, <2>1, <2>2, <2>3, SocketOf DEF Attached
  <2>5. \A b \in Conns : Attached(b) /\ b # c => Owner[b] # u
    BY <2>1, <2>2 DEF Attached
  <2>6. /\ \A v \in Users : v # u => joined'[v] = joined[v]
        /\ joined[u] => joined'[u]
        /\ f.kind # "history" => joined'[u] = joined[u]
    BY <2>2 DEF Types
  <2>7. \A b \in Conns : /\ Asks(b, "join")' = Asks(b, "join") /\ (Joining(b)' <=> Joining(b))
    BY <2>3 DEF Asks, Joining
  <2>8. \A b \in Conns : Attached(b)' /\ ~joined'[Owner[b]] =>
          /\ \A p \in DOMAIN up'[b] : p = 1 /\ up'[b][p].kind = "join"
          /\ job'[b].at \in {"idle", "greeting", "answering"}
          /\ Owner[b] \notin lossy' => \A k \in Ids(win'[Owner[b]]) : k > 0
    <3> SUFFICES ASSUME NEW b \in Conns, Attached(b)', ~joined'[Owner[b]]
                 PROVE  /\ \A p \in DOMAIN up'[b] : p = 1 /\ up'[b][p].kind = "join"
                        /\ job'[b].at \in {"idle", "greeting", "answering"}
                        /\ Owner[b] \notin lossy' => \A k \in Ids(win'[Owner[b]]) : k > 0
      OBVIOUS
    <3>1. ~joined[Owner[b]] /\ Attached(b) /\ Owner[b] \in Users
      BY <1>0, <2>4, <2>6
    <3>2. /\ \A p \in DOMAIN up'[b] : p = 1 /\ up'[b][p].kind = "join"
          /\ job'[b].at \in {"idle", "greeting", "answering"}
      BY <2>3, <3>1 DEF Joins
    <3>3. CASE b = c
      <4>1. u \notin lossy => \A k \in Ids(win'[u]) : k > 0
        BY <1>6, <2>1, <2>2, <2>4, <3>1, <3>3, StoredShown
      <4> QED BY <2>3, <2>4, <3>2, <3>3, <4>1
    <3>4. CASE b # c
      BY <2>2, <2>3, <2>5, <3>1, <3>2, <3>4 DEF Joins
    <3> QED BY <3>3, <3>4
  <2>9. \A b \in Conns : Attached(b)' /\ Joining(b)' => ~joined'[Owner[b]] /\ At(b, "history")' = {}
    <3> SUFFICES ASSUME NEW b \in Conns, Attached(b)', Joining(b)'
                 PROVE  ~joined'[Owner[b]] /\ At(b, "history")' = {}
      OBVIOUS
    <3>1. ~joined[Owner[b]] /\ At(b, "history") = {} /\ Attached(b)
      BY <2>4, <2>7 DEF Joins
    <3>2. CASE b = c
      <4>1. f.kind # "history"
        BY <2>1, <2>2, <3>1, <3>2 DEF At
      <4>2. \A p \in At(c, "history")' : p + 1 \in At(c, "history")
        BY <2>2, DownShrinks
      <4> QED BY <2>4, <2>6, <3>1, <3>2, <4>1, <4>2
    <3>3. CASE b # c
      BY <1>0, <2>2, <2>5, <2>6, <3>1, <3>3 DEF At
    <3> QED BY <3>2, <3>3
  <2>10. \A b \in Conns : Asks(b, "join")' # {} =>
          job'[b] = Idle /\ b \notin room' /\ b \notin ToSet(registerQ') /\ entered'[b] = 0
    BY <2>3, <2>7 DEF Joins
  <2>11. /\ \A i, j \in DOMAIN registerQ' : registerQ'[i] = registerQ'[j] => i = j
         /\ \A b \in ToSet(registerQ') : b \notin room'
    BY <2>3 DEF Joins
  <2>12. \A b \in Conns : Attached(b)' /\ Owner[b] \notin lossy' /\ Asks(b, "join")' = {} =>
           b \in room' \/ b \in ToSet(registerQ')
    BY <2>3, <2>4, <2>7 DEF Joins
  <2> QED BY <2>8, <2>9, <2>10, <2>11, <2>12 DEF Joins
<1> QED BY <1>1, <1>2, <1>4, <1>5, <1>6

\* A goroutine that ends what it did asks for no join.
LEMMA BusyJoined ==
  ASSUME Types, Joins, NEW c \in Conns, job[c].at # "idle"
  PROVE  Asks(c, "join") = {}
<1>1. job[c] # Idle
  BY DEF Idle
<1> QED BY <1>1 DEF Joins

\* The steps of the goroutines.
LEMMA JoinsConn ==
  ASSUME Types, Faithful, SocketsKnown, Joins, NEW c \in Conns
  PROVE  /\ HandleJoin(c) => Joins'
         /\ ReadHistory(c) => Joins'
         /\ HandleLoadHistory(c) => Joins'
         /\ Answer(c) => Joins'
         /\ HandleChatMessage(c) \/ HandleMessageEdit(c) \/ HandleMessageDelete(c) => Joins'
         /\ Refuse(c) => Joins'
         /\ BroadcastToRoom(c) => Joins'
         /\ Publish(c) => Joins'
<1>0. \A b \in Conns : Owner[b] \in Users /\ Idle.at = "idle"
  BY FeedConstants DEF Idle
<1>1. ASSUME HandleJoin(c)
      PROVE  Joins'
  <2>1. /\ Take(c, "join", [at |-> "greeting"]) /\ registerQ' = Append(registerQ, c)
        /\ UNCHANGED <<room, entered, down, conn, joined, win, lossy>>
    BY <1>1, JoinDoes
  <2>2. /\ Attached(c) /\ 1 \in Asks(c, "join") /\ job'[c] = [at |-> "greeting"]
        /\ \A b \in Conns : b # c => up'[b] = up[b] /\ job'[b] = job[b]
        /\ \A b \in Conns : b # c => Asks(b, "join")' = Asks(b, "join")
    BY <2>1, TakerCurrent, TakeAt, AsksShrink
  <2>3. /\ Joining(c) /\ ~joined[Owner[c]] /\ At(c, "history") = {}
        /\ c \notin room /\ c \notin ToSet(registerQ)
    BY <2>2 DEF Joins, Joining
  <2>4. DOMAIN up'[c] = {} /\ Asks(c, "join")' = {}
    <3>1. \A p \in DOMAIN up[c] : p = 1
      BY <2>2, <2>3 DEF Joins
    <3>2. DOMAIN up'[c] = {}
      BY <2>1, <3>1, AsksShrink
    <3> QED BY <3>2 DEF Asks
  <2>5. /\ ToSet(registerQ') = ToSet(registerQ) \cup {c}
        /\ \A i, j \in DOMAIN registerQ' : registerQ'[i] = registerQ'[j] => i = j
    <3>1. registerQ \in Seq(Conns)
      BY TypesAt
    <3>2. /\ ToSet(registerQ') = ToSet(registerQ) \cup {c}
          /\ \A p \in DOMAIN registerQ : registerQ[p] \in ToSet(registerQ)
      BY <2>1, <3>1, SetOf
    <3>3. /\ registerQ'[Len(registerQ) + 1] = c
          /\ \A p \in DOMAIN registerQ : registerQ'[p] = registerQ[p]
          /\ \A p \in DOMAIN registerQ' : p \in DOMAIN registerQ \/ p = Len(registerQ) + 1
      BY <2>1, <3>1, AppendAt
    <3>4. \A i, j \in DOMAIN registerQ : registerQ[i] = registerQ[j] => i = j
      BY DEF Joins
    <3>5. \A p \in DOMAIN registerQ : registerQ'[p] # c
      BY <2>3, <3>2, <3>3
    <3> QED BY <3>2, <3>3, <3>4, <3>5
  <2>6. \A b : Attached(b)' <=> Attached(b)
    BY <2>1 DEF Attached
  <2>7. \A b \in Conns : Asks(b, "join")' # {} =>
          job'[b] = Idle /\ b \notin room' /\ b \notin ToSet(registerQ') /\ entered'[b] = 0
    BY <2>1, <2>2, <2>4, <2>5 DEF Joins
  <2>8. \A b \in Conns : Attached(b)' /\ ~joined'[Owner[b]] =>
          /\ \A p \in DOMAIN up'[b] : p = 1 /\ up'[b][p].kind = "join"
          /\ job'[b].at \in {"idle", "greeting", "answering"}
          /\ Owner[b] \notin lossy' => \A k \in Ids(win'[Owner[b]]) : k > 0
    BY <2>1, <2>2, <2>4, <2>6 DEF Joins
  <2>9. \A b \in Conns : Attached(b)' /\ Joining(b)' => ~joined'[Owner[b]] /\ At(b, "history")' = {}
    <3>1. At(c, "history")' = {}
      BY <2>1, <2>3 DEF At
    <3>2. ASSUME NEW b \in Conns, b # c, Attached(b)', Joining(b)'
          PROVE  ~joined'[Owner[b]] /\ At(b, "history")' = {}
      <4>1. Joining(b) /\ Attached(b) /\ At(b, "history")' = At(b, "history")
        BY <2>1, <2>2, <2>6, <3>2 DEF Joining, At
      <4> QED BY <2>1, <4>1 DEF Joins
    <3> QED BY <2>1, <2>3, <3>1, <3>2
  <2>10. \A b \in ToSet(registerQ') : b \notin room'
    BY <2>1, <2>3, <2>5 DEF Joins
  <2>11. \A b \in Conns : Attached(b)' /\ Owner[b] \notin lossy' /\ Asks(b, "join")' = {} =>
           b \in room' \/ b \in ToSet(registerQ')
    BY <2>1, <2>2, <2>5, <2>6 DEF Joins
  <2> QED BY <2>5, <2>7, <2>8, <2>9, <2>10, <2>11 DEF Joins
\* a step of the goroutine that takes no request
<1>2. ASSUME job[c].at # "idle", job'[c].at \in {"idle", "answering"},
             \A b \in Conns : b # c => job'[b] = job[b],
             \A b \in Conns : b # c => At(b, "history")' = At(b, "history"),
             lossy \subseteq lossy', UNCHANGED <<room, registerQ, entered, up, conn, joined, win>>
      PROVE  Joins'
  <2>1. Asks(c, "join") = {} /\ \A b \in Conns : Asks(b, "join")' = Asks(b, "join")
    BY <1>2, BusyJoined DEF Asks
  <2>2. \A b \in Conns : Attached(b) /\ ~joined[Owner[b]] =>
          up'[b] = up[b] /\ job'[b].at \in {"idle", "greeting", "answering"}
    BY <1>2 DEF Joins
  <2>3. \A b \in Conns : Attached(b) /\ Joining(b)' => Joining(b) /\ At(b, "history")' = At(b, "history")
    BY <1>2, <2>1 DEF Joining
  <2>4. \A b \in Conns : Asks(b, "join") # {} => job'[b] = job[b]
    BY <1>2, <2>1
  <2>5. UNCHANGED <<room, registerQ, entered, conn, joined, win>> /\ lossy \subseteq lossy'
    BY <1>2
  <2> QED BY <2>1, <2>2, <2>3, <2>4, <2>5, JoinsKept
\* a step of the goroutine that takes a request other than a join
<1>3. ASSUME NEW kind, NEW next, Take(c, kind, next), kind # "join", next.at # "greeting",
             lossy \subseteq lossy', UNCHANGED <<room, registerQ, entered, down, conn, joined, win>>
      PROVE  Joins'
  <2>1. Attached(c) /\ joined[Owner[c]] /\ Asks(c, "join") = {} /\ Asks(c, "join")' = {}
    BY <1>3, TakesJoined
  <2>2. /\ \A b \in Conns : b # c => up'[b] = up[b] /\ job'[b] = job[b]
        /\ job'[c] = next
    BY <1>3, TakeAt
  <2>3. \A b \in Conns : Asks(b, "join")' = Asks(b, "join")
    BY <2>1, <2>2 DEF Asks
  <2>4. \A b \in Conns : Attached(b) /\ ~joined[Owner[b]] =>
          up'[b] = up[b] /\ job'[b].at \in {"idle", "greeting", "answering"}
    BY <2>1, <2>2 DEF Joins
  <2>5. \A b \in Conns : Attached(b) /\ Joining(b)' => Joining(b) /\ At(b, "history")' = At(b, "history")
    BY <1>3, <2>1, <2>2, <2>3 DEF Joining, At
  <2>6. \A b \in Conns : Asks(b, "join") # {} => job'[b] = job[b]
    BY <2>1, <2>2
  <2>7. UNCHANGED <<room, registerQ, entered, conn, joined, win>> /\ lossy \subseteq lossy'
    BY <1>3
  <2> QED BY <2>3, <2>4, <2>5, <2>6, <2>7, JoinsKept
<1>4. ASSUME ReadHistory(c)
      PROVE  Joins'
  <2>1. PICK page : /\ job[c].at = "greeting" /\ job'[c] = [at |-> "answering", frame |-> page]
                    /\ \A b \in Conns : b # c => job'[b] = job[b]
                    /\ UNCHANGED <<room, registerQ, entered, up, down, conn, joined, win, lossy>>
    BY ZenonT(40), <1>4, ReadDoes
  <2>2. job'[c].at = "answering" /\ \A b : At(b, "history")' = At(b, "history")
    BY <2>1 DEF At
  <2> QED BY <1>2, <2>1, <2>2
<1>5. ASSUME HandleLoadHistory(c)
      PROVE  Joins'
  <2>1. PICK page : /\ Take(c, "load", [at |-> "answering", frame |-> page])
                    /\ UNCHANGED <<room, registerQ, entered, down, conn, joined, win, lossy>>
    BY <1>5, LoadDoes
  <2>2. PICK next : next = [at |-> "answering", frame |-> page]
    OBVIOUS
  <2>3. Take(c, "load", next) /\ next.at # "greeting"
    BY <2>1, <2>2
  <2> QED BY <1>3, <2>1, <2>3
<1>6. ASSUME Answer(c)
      PROVE  Joins'
  <2>1. PICK f : f = job[c].frame
    OBVIOUS
  <2>2. /\ job[c].at = "answering" /\ job'[c] = Idle /\ \A b \in Conns : b # c => job'[b] = job[b]
        /\ \A b \in Conns : b # c => down'[b] = down[b]
        /\ UNCHANGED <<room, registerQ, entered, up, conn, joined, win, lossy>>
    BY <1>6, <2>1, AnswerDoes
  <2>3. \A b \in Conns : b # c => At(b, "history")' = At(b, "history")
    BY <2>2 DEF At
  <2> QED BY <1>0, <1>2, <2>2, <2>3
<1>7. ASSUME HandleChatMessage(c) \/ HandleMessageEdit(c) \/ HandleMessageDelete(c)
      PROVE  Joins'
  <2>1. PICK kind, next : Take(c, kind, next) /\ kind # "join" /\ next.at # "greeting"
    <3>1. CASE HandleChatMessage(c)
      <4>1. PICK f : Take(c, "message", [at |-> "fanning", frame |-> f])
        BY <3>1 DEF HandleChatMessage
      <4> QED BY <4>1
    <3>2. CASE HandleMessageEdit(c)
      <4>1. PICK f : Take(c, "edit", [at |-> "fanning", frame |-> f])
        BY <3>2 DEF HandleMessageEdit
      <4> QED BY <4>1
    <3>3. CASE HandleMessageDelete(c)
      <4>1. PICK f : Take(c, "delete", [at |-> "publishing", frame |-> f])
        BY <3>3 DEF HandleMessageDelete
      <4> QED BY <4>1
    <3> QED BY <1>7, <3>1, <3>2, <3>3
  <2>2. UNCHANGED <<room, registerQ, entered, down, conn, joined, win, lossy>>
    BY <1>7, StoreKeeps
  <2> QED BY <1>3, <2>1, <2>2
<1>8. ASSUME Refuse(c)
      PROVE  Joins'
  <2>1. PICK kind \in {"message", "edit", "delete"} : Take(c, kind, Idle)
    BY <1>8, RefuseDoes
  <2>2. /\ lossy \subseteq lossy'
        /\ UNCHANGED <<room, registerQ, entered, down, conn, joined, win>>
    BY <1>8, RefuseDoes
  <2>3. kind # "join" /\ Idle.at # "greeting"
    BY <1>0
  <2> QED BY <1>3, <2>1, <2>2, <2>3
<1>9. ASSUME BroadcastToRoom(c)
      PROVE  Joins'
  <2>1. PICK f : f = job[c].frame
    OBVIOUS
  <2>2. /\ job[c].at = "fanning" /\ f \in Frames /\ (f.kind = "message" \/ f.kind = "edit")
        /\ job'[c] = Idle /\ \A b \in Conns : b # c => job'[b] = job[b]
        /\ \A b \in Conns : down'[b] = IF b \in room /\ Attached(b) THEN Append(down[b], f) ELSE down[b]
        /\ UNCHANGED <<room, registerQ, entered, up, conn, joined, win, lossy>>
    BY <1>9, <2>1, FanDoes
  <2>3. ASSUME NEW b \in Conns
        PROVE  At(b, "history")' = At(b, "history")
    <3>1. f.kind # "history"
      BY <2>2
    <3> QED BY <2>2, <3>1, DownSame
  <2>4. job[c].at # "idle" /\ job'[c].at = "idle"
    BY <1>0, <2>2
  <2> QED BY <1>2, <2>2, <2>3, <2>4
<1>10. ASSUME Publish(c)
      PROVE  Joins'
  <2>1. PICK f : f = job[c].frame
    OBVIOUS
  <2>2. /\ job[c].at = "publishing" /\ job'[c] = Idle /\ \A b \in Conns : b # c => job'[b] = job[b]
        /\ lossy' = lossy \/ lossy' = Users
        /\ UNCHANGED <<room, registerQ, entered, up, down, conn, joined, win>>
    BY <1>10, <2>1, PublishDoes
  <2>3. lossy \subseteq lossy' /\ \A b : At(b, "history")' = At(b, "history")
    BY <2>2 DEF At, Types
  <2> QED BY <1>0, <1>2, <2>2, <2>3
<1> QED BY <1>1, <1>4, <1>5, <1>6, <1>7, <1>8, <1>9, <1>10

\* The steps of the hub.
LEMMA JoinsHub ==
  ASSUME Types, Faithful, SocketsKnown, Joins
  PROVE  /\ HubRegister => Joins'
         /\ HubBroadcast => Joins'
<1>0. \A b \in Conns : Owner[b] \in Users
  BY FeedConstants
<1>1. ASSUME HubRegister
      PROVE  Joins'
  <2>1. PICK c : c = Head(registerQ)
    OBVIOUS
  <2>2. /\ c \in Conns /\ registerQ # <<>> /\ registerQ' = Tail(registerQ)
        /\ c \in ToSet(registerQ) /\ ToSet(registerQ') \subseteq ToSet(registerQ)
        /\ ToSet(registerQ) = {c} \cup ToSet(registerQ')
        /\ \A d : d \in room' <=> (d \in room /\ Owner[d] # Owner[c]) \/ (d = c /\ Attached(c))
        /\ \A d \in Conns : d # c => entered'[d] = entered[d]
        /\ UNCHANGED <<job, up, down, conn, joined, win, lossy>>
    BY <1>1, <2>1, RegisterDoes
  <2>3. /\ \A i, j \in DOMAIN registerQ' : registerQ'[i] = registerQ'[j] => i = j
        /\ c \notin ToSet(registerQ')
    <3>1. registerQ \in Seq(Conns)
      BY TypesAt
    <3>2. /\ 1 \in DOMAIN registerQ /\ registerQ[1] = c
          /\ \A p \in DOMAIN registerQ' : /\ p \in Nat /\ p + 1 \in DOMAIN registerQ
                                          /\ registerQ'[p] = registerQ[p + 1] /\ p + 1 # 1
      BY <2>1, <2>2, <3>1, TailAt
    <3>3. \A i, j \in DOMAIN registerQ : registerQ[i] = registerQ[j] => i = j
      BY DEF Joins
    <3>4. \A i, j \in DOMAIN registerQ' : registerQ'[i] = registerQ'[j] => i = j
      <4> SUFFICES ASSUME NEW i \in DOMAIN registerQ', NEW j \in DOMAIN registerQ', registerQ'[i] = registerQ'[j]
                   PROVE  i = j
        OBVIOUS
      <4>1. i + 1 = j + 1 /\ i \in Nat /\ j \in Nat
        BY <3>2, <3>3
      <4> QED BY <4>1
    <3>5. \A p \in DOMAIN registerQ' : registerQ'[p] # c
      BY <3>2, <3>3
    <3> QED BY <3>4, <3>5 DEF ToSet
  <2>4. \A b : /\ Attached(b)' <=> Attached(b)
               /\ Asks(b, "join")' = Asks(b, "join") /\ (Joining(b)' <=> Joining(b))
               /\ At(b, "history")' = At(b, "history")
    BY <2>2 DEF Attached, Asks, Joining, At
  <2>5. \A b \in Conns : Asks(b, "join")' # {} =>
          job'[b] = Idle /\ b \notin room' /\ b \notin ToSet(registerQ') /\ entered'[b] = 0
    BY <2>2, <2>4 DEF Joins
  <2>6. \A b \in Conns : Attached(b)' /\ ~joined'[Owner[b]] =>
          /\ \A p \in DOMAIN up'[b] : p = 1 /\ up'[b][p].kind = "join"
          /\ job'[b].at \in {"idle", "greeting", "answering"}
          /\ Owner[b] \notin lossy' => \A k \in Ids(win'[Owner[b]]) : k > 0
    BY <2>2, <2>4 DEF Joins
  <2>7. \A b \in Conns : Attached(b)' /\ Joining(b)' => ~joined'[Owner[b]] /\ At(b, "history")' = {}
    BY <2>2, <2>4 DEF Joins
  <2>8. \A b \in ToSet(registerQ') : b \notin room'
    BY <2>2, <2>3 DEF Joins
  <2>9. ASSUME NEW b \in Conns, Attached(b)', Owner[b] \notin lossy', Asks(b, "join")' = {}
        PROVE  b \in room' \/ b \in ToSet(registerQ')
    <3>1. b \in room \/ b \in ToSet(registerQ)
      BY <2>2, <2>4, <2>9 DEF Joins
    <3>2. CASE b = c
      BY <2>2, <2>4, <2>9, <3>2
    <3>3. CASE b # c /\ b \in room
      <4>1. Owner[b] # Owner[c]
        <5> SUFFICES ASSUME Owner[b] = Owner[c]
                     PROVE  FALSE
          OBVIOUS
        <5>1. Attached(c) /\ Attached(b)
          BY <2>2, <2>4, <2>9, SocketUsed
        <5> QED BY <3>3, <5>1 DEF Attached
      <4> QED BY <2>2, <3>3, <4>1
    <3>4. CASE b # c /\ b \in ToSet(registerQ)
      BY <2>2, <3>4
    <3> QED BY <3>1, <3>2, <3>3, <3>4
  <2> QED BY <2>3, <2>5, <2>6, <2>7, <2>8, <2>9 DEF Joins
<1>2. ASSUME HubBroadcast
      PROVE  Joins'
  <2>1. PICK f : f = Head(broadcastQ)
    OBVIOUS
  <2>2. /\ f \in Frames /\ f.kind = "delete"
        /\ \A b \in Conns : down'[b] = IF b \in room /\ Attached(b) THEN Append(down[b], f) ELSE down[b]
        /\ UNCHANGED <<room, registerQ, job, entered, up, conn, joined, win, lossy>>
    BY <1>2, <2>1, HubDoes
  <2>3. ASSUME NEW b \in Conns
        PROVE  At(b, "history")' = At(b, "history")
    <3>1. f.kind # "history"
      BY <2>2
    <3> QED BY <2>2, <3>1, DownSame
  <2>4. \A b : Asks(b, "join")' = Asks(b, "join") /\ (Joining(b)' <=> Joining(b))
    BY <2>2 DEF Asks, Joining
  <2>5. \A b \in Conns : Attached(b) /\ ~joined[Owner[b]] =>
          up'[b] = up[b] /\ job'[b].at \in {"idle", "greeting", "answering"}
    BY <2>2 DEF Joins
  <2>6. UNCHANGED <<room, registerQ, entered, conn, joined, win, lossy, job>>
    BY <2>2
  <2> QED BY <2>3, <2>4, <2>5, <2>6, JoinsKept
<1> QED BY <1>1, <1>2

\* Every step keeps what is said of the joins.
LEMMA JoinsStep ==
  ASSUME Types, Faithful, SocketsKnown, Joins, FeedNext
  PROVE  Joins'
BY FeedSteps, JoinsPage, JoinsConn, JoinsHub


-----------------------------------------------------------------------------
(***************************************************************************)
(* Requests and rows                                                       *)
(***************************************************************************)

\* Requests other than joins are those there were, without the first one where sh says so.
Fewer(sh) ==
  /\ sh \in [Conns -> {0, 1}]
  /\ \A c \in Conns : \A p \in DOMAIN up'[c] :
       up'[c][p].kind # "join" =>
         p \in Nat /\ p + sh[c] \in DOMAIN up[c] /\ up'[c][p] = up[c][p + sh[c]]

\* A taken request.
LEMMA TakeFewer ==
  ASSUME Types, NEW c \in Conns, NEW kind, NEW next, Take(c, kind, next)
  PROVE  Fewer([b \in Conns |-> IF b = c THEN 1 ELSE 0])
<1> DEFINE sh == [b \in Conns |-> IF b = c THEN 1 ELSE 0]
<1>1. /\ \A p \in DOMAIN up'[c] : p \in Nat /\ p + 1 \in DOMAIN up[c] /\ up'[c][p] = up[c][p + 1]
      /\ \A b \in Conns : b # c => up'[b] = up[b]
  BY AsksShrink, TakeAt
<1>2. sh \in [Conns -> {0, 1}] /\ sh[c] = 1 /\ \A b \in Conns : b # c => sh[b] = 0
  OBVIOUS
<1>3. \A b \in Conns : \A p \in DOMAIN up[b] : p \in Nat /\ p + 0 = p
  BY TypesAt
<1> HIDE DEF sh
<1>4. Fewer(sh)
  BY <1>1, <1>2, <1>3 DEF Fewer
<1> QED BY <1>4 DEF sh

\* Requests that stay, and those of a socket that is lost or new.
LEMMA StayFewer ==
  ASSUME Types,
         \A c \in Conns : \/ up'[c] = up[c] \/ up'[c] = <<>> \/ up'[c] = <<[kind |-> "join"]>>
  PROVE  Fewer([b \in Conns |-> 0])
<1> DEFINE sh == [b \in Conns |-> 0]
<1>1. sh \in [Conns -> {0, 1}] /\ \A b \in Conns : sh[b] = 0
  OBVIOUS
<1>2. \A b \in Conns : \A p \in DOMAIN up[b] : p \in Nat /\ p + 0 = p
  BY TypesAt
<1> HIDE DEF sh
<1>3. ASSUME NEW c \in Conns, NEW p \in DOMAIN up'[c], up'[c][p].kind # "join"
      PROVE  p \in Nat /\ p + 0 \in DOMAIN up[c] /\ up'[c][p] = up[c][p + 0]
  <2>1. up'[c] # <<>> /\ up'[c] # <<[kind |-> "join"]>>
    BY <1>3
  <2> QED BY <1>2, <1>3, <2>1
<1>4. Fewer(sh)
  BY <1>1, <1>3 DEF Fewer
<1> QED BY <1>4 DEF sh

\* What becomes of the requests.
LEMMA UpSteps ==
  ASSUME Types, Faithful, FeedNext
  PROVE  \/ \E u \in Users, t \in Texts : SendMessage(u, t)
         \/ \E u \in Users, r \in Requests :
              /\ AskAbout(u, r) /\ r.kind \in {"edit", "delete", "load"}
              /\ r.kind \in {"edit", "delete"} => r.id \in Own(u) /\ r.id > 0
         \/ \E sh : Fewer(sh)
<1>1. ASSUME NEW c \in Conns, NEW kind, NEW next, Take(c, kind, next)
      PROVE  \E sh : Fewer(sh)
  BY <1>1, TakeFewer
<1>2. ASSUME up' = up
      PROVE  \E sh : Fewer(sh)
  BY <1>2, StayFewer
<1>3. ASSUME NEW u \in Users, NEW c \in Conns, OpenSocket(u, c)
      PROVE  \E sh : Fewer(sh)
  <2>1. up'[c] = <<[kind |-> "join"]>> /\ \A b \in Conns : b # c => up'[b] = up[b]
    BY <1>3, OpenDoes
  <2> QED BY <2>1, StayFewer
<1>4. ASSUME NEW u \in Users, LoseSocket(u)
      PROVE  \E sh : Fewer(sh)
  <2>1. PICK c : c = conn[u]
    OBVIOUS
  <2>2. up'[c] = <<>> /\ \A b \in Conns : b # c => up'[b] = up[b]
    BY <1>4, <2>1, LoseDoes
  <2> QED BY <2>2, StayFewer
<1>5. ASSUME NEW u \in Users, Handle(u)
      PROVE  \E sh : Fewer(sh)
  BY <1>2, <1>5, HandleKeeps
<1>6. ASSUME NEW c \in Conns
      PROVE  /\ HandleJoin(c) => \E sh : Fewer(sh)
             /\ ReadHistory(c) => \E sh : Fewer(sh)
             /\ HandleLoadHistory(c) => \E sh : Fewer(sh)
             /\ Answer(c) => \E sh : Fewer(sh)
             /\ HandleChatMessage(c) => \E sh : Fewer(sh)
             /\ Refuse(c) => \E sh : Fewer(sh)
             /\ HandleMessageEdit(c) => \E sh : Fewer(sh)
             /\ BroadcastToRoom(c) => \E sh : Fewer(sh)
             /\ HandleMessageDelete(c) => \E sh : Fewer(sh)
             /\ Publish(c) => \E sh : Fewer(sh)
  <2>1. HandleJoin(c) => \E sh : Fewer(sh)
    BY <1>1 DEF HandleJoin
  <2>2. ReadHistory(c) => \E sh : Fewer(sh)
    BY <1>2 DEF ReadHistory
  <2>3. HandleLoadHistory(c) => \E sh : Fewer(sh)
    BY <1>1 DEF HandleLoadHistory
  <2>4. Answer(c) => \E sh : Fewer(sh)
    BY <1>2 DEF Answer
  <2>5. HandleChatMessage(c) => \E sh : Fewer(sh)
    BY <1>1 DEF HandleChatMessage
  <2>6. Refuse(c) => \E sh : Fewer(sh)
    BY <1>1 DEF Refuse
  <2>7. HandleMessageEdit(c) => \E sh : Fewer(sh)
    BY <1>1 DEF HandleMessageEdit
  <2>8. BroadcastToRoom(c) => \E sh : Fewer(sh)
    BY <1>2 DEF BroadcastToRoom
  <2>9. HandleMessageDelete(c) => \E sh : Fewer(sh)
    BY <1>1 DEF HandleMessageDelete
  <2>10. Publish(c) => \E sh : Fewer(sh)
    BY <1>2 DEF Publish
  <2> QED BY <2>1, <2>2, <2>3, <2>4, <2>5, <2>6, <2>7, <2>8, <2>9, <2>10
<1>7. /\ HubRegister => \E sh : Fewer(sh)
      /\ HubBroadcast => \E sh : Fewer(sh)
  BY <1>2 DEF HubRegister, HubBroadcast
<1> QED BY <1>3, <1>4, <1>5, <1>6, <1>7, FeedSteps

\* Rows that keep all but their text and that they are there.
SameRows ==
  /\ Len(rows') = Len(rows) /\ DOMAIN rows' = DOMAIN rows /\ RowsGrow

\* What becomes of the rows.
LEMMA RowSteps ==
  ASSUME Types, Faithful, FeedNext
  PROVE  SameRows \/ \E c \in Conns : HandleChatMessage(c)
<1>1. ASSUME rows' = rows
      PROVE  SameRows
  BY <1>1 DEF SameRows, RowsGrow
<1>2. ASSUME NEW u \in Users
      PROVE  /\ \A c \in Conns : OpenSocket(u, c) => rows' = rows
             /\ LoseSocket(u) => rows' = rows
             /\ \A t \in Texts : SendMessage(u, t) => rows' = rows
             /\ \A r \in Requests : AskAbout(u, r) => rows' = rows
             /\ Handle(u) => rows' = rows
  BY DEF OpenSocket, LoseSocket, SendMessage, AskAbout, Handle, server
<1>3. ASSUME NEW c \in Conns
      PROVE  /\ HandleJoin(c) => rows' = rows
             /\ ReadHistory(c) => rows' = rows
             /\ HandleLoadHistory(c) => rows' = rows
             /\ Answer(c) => rows' = rows
             /\ Refuse(c) => rows' = rows
             /\ BroadcastToRoom(c) => rows' = rows
             /\ Publish(c) => rows' = rows
  BY DEF HandleJoin, ReadHistory, HandleLoadHistory, Answer, Refuse, BroadcastToRoom, Publish
<1>4. ASSUME NEW c \in Conns, HandleMessageEdit(c)
      PROVE  SameRows
  BY <1>4, EditDoes DEF SameRows
<1>5. ASSUME NEW c \in Conns, HandleMessageDelete(c)
      PROVE  SameRows
  BY <1>5, DeletionDoes DEF SameRows
<1>6. HubRegister \/ HubBroadcast => rows' = rows
  BY DEF HubRegister, HubBroadcast
<1> QED BY <1>1, <1>2, <1>3, <1>4, <1>5, <1>6, FeedSteps

\* The pages ask more and more.
LEMMA AskedGrows ==
  ASSUME Types, Faithful, FeedNext
  PROVE  asked' \in Nat /\ asked' >= asked /\ asked \in Nat
<1>1. ASSUME NEW u \in Users
      PROVE  /\ \A c \in Conns : OpenSocket(u, c) => asked' = asked
             /\ LoseSocket(u) => asked' = asked
             /\ \A t \in Texts : SendMessage(u, t) => asked' = asked + 1
             /\ \A r \in Requests : AskAbout(u, r) => asked' = asked + 1
             /\ Handle(u) => asked' = asked
  BY DEF OpenSocket, LoseSocket, SendMessage, AskAbout, Handle
<1>2. ASSUME NEW c \in Conns
      PROVE  /\ HandleJoin(c) => asked' = asked
             /\ ReadHistory(c) => asked' = asked
             /\ HandleLoadHistory(c) => asked' = asked
             /\ Answer(c) => asked' = asked
             /\ Refuse(c) => asked' = asked
             /\ BroadcastToRoom(c) => asked' = asked
             /\ Publish(c) => asked' = asked
  BY DEF HandleJoin, ReadHistory, HandleLoadHistory, Answer, Refuse, BroadcastToRoom, Publish, pages
<1>3. ASSUME NEW c \in Conns
      PROVE  HandleChatMessage(c) \/ HandleMessageEdit(c) \/ HandleMessageDelete(c) => asked' = asked
  BY DEF HandleChatMessage, HandleMessageEdit, HandleMessageDelete, pages
<1>4. HubRegister \/ HubBroadcast => asked' = asked
  BY DEF HubRegister, HubBroadcast, pages
<1>5. asked' = asked \/ asked' = asked + 1
  BY <1>1, <1>2, <1>3, <1>4, FeedSteps
<1> QED BY <1>5, TypesAt

\* Ids of more requests.
LEMMA MoreIds ==
  ASSUME NEW a \in Nat, NEW b \in Nat, b >= a
  PROVE  (-a)..(-1) \subseteq (-b)..(-1) /\ (-a)..0 \subseteq (-b)..0 /\ (-a)..(-1) \subseteq (-a)..0
OBVIOUS

\* An id a page is about to give to a message.
CidAsked(c, p) ==
  /\ up[c][p].cid \in (-asked)..(-1)
  /\ \A i \in DOMAIN rows : rows[i].cid # up[c][p].cid
  /\ \A d \in Conns : \A q \in Asks(d, "message") : up[d][q].cid = up[c][p].cid => c = d /\ p = q

\* A page asks for something else.
LEMMA AsksNoMessage ==
  ASSUME Types, NEW c \in Conns, NEW r \in Requests, up'[c] = Append(up[c], r), r.kind # "message",
         \A b \in Conns : b # c => up'[b] = up[b]
  PROVE  \A b \in Conns : /\ Asks(b, "message")' = Asks(b, "message")
                          /\ \A p \in Asks(b, "message") : up'[b][p] = up[b][p]
<1>1. \A p \in DOMAIN up[c] : up'[c][p] = up[c][p]
  BY AsksGrow
<1>2. Asks(c, "message")' = Asks(c, "message")
  BY AsksSame
<1> QED BY <1>1, <1>2 DEF Asks

\* A page's message has an id of its own.
LEMMA CidsSend ==
  ASSUME Types, Faithful, Cids, NEW u \in Users, NEW t \in Texts, SendMessage(u, t)
  PROVE  Cids'
<1>1. PICK c, r, k : /\ c \in Conns /\ r \in Requests /\ k \in Int /\ k = -(asked + 1) /\ r.kind = "message" /\ r.cid = k
                     /\ up'[c] = Append(up[c], r) /\ \A b \in Conns : b # c => up'[b] = up[b]
                     /\ asked' = asked + 1 /\ UNCHANGED rows
  BY SendAll
<1>2. PICK n : /\ n \notin DOMAIN up[c] /\ DOMAIN up'[c] = DOMAIN up[c] \cup {n} /\ up'[c][n] = r
               /\ \A p \in DOMAIN up[c] : up'[c][p] = up[c][p]
  BY <1>1, AsksGrow
<1>3. asked \in Nat /\ asked' \in Nat /\ asked' = asked + 1
  BY <1>1, TypesAt
<1>4. \A b \in Conns : \A p \in Asks(b, "message")' :
        \/ p \in Asks(b, "message") /\ up'[b][p] = up[b][p]
        \/ b = c /\ p = n /\ up'[b][p].cid = k
  BY <1>1, <1>2 DEF Asks
<1>5. k = -asked' /\ k < 0 /\ \A x \in (-asked)..0 : x \in Int /\ x # k /\ x \in (-asked')..0
  BY <1>1, <1>3
<1>6. (-asked)..(-1) \subseteq (-asked)..0 /\ (-asked)..(-1) \subseteq (-asked')..(-1) /\ k \in (-asked')..(-1)
  BY <1>3, <1>5
<1>7. \A i \in DOMAIN rows : rows[i].cid \in (-asked)..0
  BY DEF Cids
<1>8. \A b \in Conns : \A p \in Asks(b, "message") : CidAsked(b, p) /\ up[b][p].cid # k
  BY <1>5, <1>6 DEF Cids, CidAsked
<1>9. ASSUME NEW b \in Conns, NEW p \in Asks(b, "message")'
      PROVE  /\ up'[b][p].cid \in (-asked')..(-1)
             /\ \A i \in DOMAIN rows' : rows'[i].cid # up'[b][p].cid
             /\ \A d \in Conns : \A q \in Asks(d, "message")' : up'[d][q].cid = up'[b][p].cid => b = d /\ p = q
  <2>1. CASE p \in Asks(b, "message") /\ up'[b][p] = up[b][p]
    BY <1>1, <1>4, <1>6, <1>8, <2>1 DEF CidAsked
  <2>2. CASE b = c /\ p = n /\ up'[b][p].cid = k
    <3>1. \A d \in Conns : \A q \in Asks(d, "message")' : up'[d][q].cid = k => d = c /\ q = n
      BY <1>4, <1>8
    <3> QED BY <1>1, <1>5, <1>6, <1>7, <2>2, <3>1
  <2> QED BY <1>4, <1>9, <2>1, <2>2
<1>10. Len(Stored) <= Len(rows')
  BY <1>1 DEF Cids
<1>11. \A i \in DOMAIN rows' : rows'[i].cid \in (-asked')..0 /\ (rows'[i].cid = 0 <=> i <= Len(Stored))
  BY <1>1, <1>5 DEF Cids
<1>12. \A i, j \in DOMAIN rows' : rows'[i].cid # 0 /\ rows'[i].cid = rows'[j].cid => i = j
  BY <1>1 DEF Cids
<1> QED BY <1>9, <1>10, <1>11, <1>12 DEF Cids

\* The id goes from the request to the row.
LEMMA CidsChat ==
  ASSUME Types, Faithful, Cids, FeedNext, NEW c \in Conns, HandleChatMessage(c)
  PROVE  Cids'
<1>0. PICK n : n = Len(rows) + 1
  OBVIOUS
<1>1. PICK next : /\ Take(c, "message", next) /\ Len(rows') = n /\ DOMAIN rows' = DOMAIN rows \cup {n}
                  /\ n \notin DOMAIN rows /\ \A i \in DOMAIN rows : rows'[i] = rows[i]
                  /\ rows'[n].cid = up[c][1].cid
  <2>1. /\ \E next : Take(c, "message", next)
        /\ Len(rows') = n /\ DOMAIN rows' = DOMAIN rows \cup {n} /\ n \notin DOMAIN rows
        /\ \A i \in DOMAIN rows : rows'[i] = rows[i]
        /\ rows'[n] = NewRow(c)
    BY <1>0, ChatDoes
  <2>2. NewRow(c).cid = up[c][1].cid
    BY DEF NewRow
  <2> QED BY <2>1, <2>2
<1>2. /\ 1 \in Asks(c, "message")
      /\ \A p \in Asks(c, "message")' : p \in Nat /\ p + 1 \in Asks(c, "message") /\ up'[c][p] = up[c][p + 1]
      /\ \A b \in Conns : b # c => Asks(b, "message")' = Asks(b, "message") /\ up'[b] = up[b]
  BY <1>1, AsksShrink, TakeAt
<1>3. asked \in Nat /\ asked' \in Nat /\ asked' >= asked
  BY AskedGrows
<1>4. (-asked)..(-1) \subseteq (-asked')..(-1) /\ (-asked)..0 \subseteq (-asked')..0 /\ (-asked)..(-1) \subseteq (-asked)..0
  BY <1>3, MoreIds
<1>5. Len(rows) \in Nat /\ Len(Stored) \in Nat /\ Len(Stored) <= Len(rows) /\ n > Len(Stored) /\ n \in Nat
  BY <1>0, TypesAt, FeedConstants DEF Cids
<1>6. PICK k : k = up[c][1].cid
  OBVIOUS
<1>7. k \in (-asked)..(-1) /\ k # 0 /\ \A i \in DOMAIN rows : rows[i].cid # k
  BY <1>2, <1>3, <1>6 DEF Cids
<1>8. \A b \in Conns : \A p \in Asks(b, "message") : CidAsked(b, p)
  BY DEF Cids, CidAsked
<1>9. \A b \in Conns : \A p \in Asks(b, "message") : up[b][p].cid = k => b = c /\ p = 1
  BY <1>2, <1>6, <1>8 DEF CidAsked
<1>10. \A b \in Conns : \A p \in Asks(b, "message")' : up'[b][p].cid # k
  <2> SUFFICES ASSUME NEW b \in Conns, NEW p \in Asks(b, "message")', up'[b][p].cid = k
               PROVE  FALSE
    OBVIOUS
  <2>1. CASE b = c
    <3>1. p \in Nat /\ p + 1 = 1
      BY <1>2, <1>9, <2>1
    <3>2. 0 \in Asks(c, "message")'
      BY <2>1, <3>1
    <3>3. up'[c] \in Seq(Requests)
      BY <1>1, TakeAt
    <3> QED BY <3>2, <3>3, EmptyAt DEF Asks
  <2>2. CASE b # c
    BY <1>2, <1>9, <2>2
  <2> QED BY <2>1, <2>2
<1>11. ASSUME NEW b \in Conns, NEW p \in Asks(b, "message")'
       PROVE  \E q \in Asks(b, "message") :
                up'[b][p] = up[b][q] /\ p \in Nat /\ q = p + (IF b = c THEN 1 ELSE 0)
  <2>1. CASE b = c
    BY <1>2, <1>11, <2>1
  <2>2. CASE b # c
    <3>1. p \in DOMAIN up[b]
      BY <1>2, <1>11, <2>2 DEF Asks
    <3> QED BY <1>2, <1>11, <2>2, <3>1, TypesAt
  <2> QED BY <2>1, <2>2
<1>12. ASSUME NEW b \in Conns, NEW p \in Asks(b, "message")'
       PROVE  /\ up'[b][p].cid \in (-asked')..(-1)
              /\ \A i \in DOMAIN rows' : rows'[i].cid # up'[b][p].cid
              /\ \A d \in Conns : \A q \in Asks(d, "message")' : up'[d][q].cid = up'[b][p].cid => b = d /\ p = q
  <2>1. PICK pp \in Asks(b, "message") : up'[b][p] = up[b][pp] /\ p \in Nat /\ pp = p + (IF b = c THEN 1 ELSE 0)
    BY <1>11, <1>12
  <2>2. CidAsked(b, pp) /\ up'[b][p].cid # k
    BY <1>8, <1>10, <1>12
  <2>3. up'[b][p].cid \in (-asked')..(-1)
    BY <1>4, <2>1, <2>2 DEF CidAsked
  <2>4. \A i \in DOMAIN rows' : rows'[i].cid # up'[b][p].cid
    BY <1>1, <1>6, <2>1, <2>2 DEF CidAsked
  <2>5. ASSUME NEW d \in Conns, NEW q \in Asks(d, "message")', up'[d][q].cid = up'[b][p].cid
        PROVE  b = d /\ p = q
    <3>1. PICK qq \in Asks(d, "message") : up'[d][q] = up[d][qq] /\ q \in Nat /\ qq = q + (IF d = c THEN 1 ELSE 0)
      BY <1>11, <2>5
    <3>2. b = d /\ pp = qq
      BY <2>1, <2>2, <2>5, <3>1 DEF CidAsked
    <3> QED BY <2>1, <3>1, <3>2
  <2> QED BY <2>3, <2>4, <2>5
<1>13. Len(Stored) <= Len(rows')
  BY <1>1, <1>5
<1>14. ASSUME NEW i \in DOMAIN rows'
       PROVE  rows'[i].cid \in (-asked')..0 /\ (rows'[i].cid = 0 <=> i <= Len(Stored))
  <2>1. CASE i = n
    BY <1>1, <1>4, <1>5, <1>6, <1>7, <2>1
  <2>2. CASE i \in DOMAIN rows
    BY <1>1, <1>4, <2>2 DEF Cids
  <2> QED BY <1>1, <1>14, <2>1, <2>2
<1>15. ASSUME NEW i \in DOMAIN rows', NEW j \in DOMAIN rows', rows'[i].cid # 0, rows'[i].cid = rows'[j].cid
       PROVE  i = j
  BY <1>1, <1>6, <1>7, <1>15 DEF Cids
<1> QED BY <1>12, <1>13, <1>14, <1>15 DEF Cids

\* Other steps give no id.
LEMMA CidsKept ==
  ASSUME Types, Faithful, Cids, FeedNext, SameRows, NEW sh \in [Conns -> {0, 1}],
         \A c \in Conns : \A p \in Asks(c, "message")' :
            p \in Nat /\ p + sh[c] \in Asks(c, "message") /\ up'[c][p] = up[c][p + sh[c]]
  PROVE  Cids'
<1>1. asked \in Nat /\ asked' \in Nat /\ asked' >= asked
  BY AskedGrows
<1>2. (-asked)..(-1) \subseteq (-asked')..(-1) /\ (-asked)..0 \subseteq (-asked')..0
  BY <1>1, MoreIds
<1>3. DOMAIN rows' = DOMAIN rows /\ Len(rows') = Len(rows) /\ \A i \in DOMAIN rows : rows'[i].cid = rows[i].cid
  BY DEF SameRows, RowsGrow
<1>4. \A b \in Conns : \A p \in Asks(b, "message") : CidAsked(b, p)
  BY DEF Cids, CidAsked
<1>5. ASSUME NEW b \in Conns, NEW p \in Asks(b, "message")'
      PROVE  /\ up'[b][p].cid \in (-asked')..(-1)
             /\ \A i \in DOMAIN rows' : rows'[i].cid # up'[b][p].cid
             /\ \A d \in Conns : \A q \in Asks(d, "message")' : up'[d][q].cid = up'[b][p].cid => b = d /\ p = q
  <2>1. CidAsked(b, p + sh[b]) /\ up'[b][p] = up[b][p + sh[b]] /\ p \in Nat
    BY <1>4, <1>5
  <2>2. up'[b][p].cid \in (-asked')..(-1) /\ \A i \in DOMAIN rows' : rows'[i].cid # up'[b][p].cid
    BY <1>2, <1>3, <2>1 DEF CidAsked
  <2>3. ASSUME NEW d \in Conns, NEW q \in Asks(d, "message")', up'[d][q].cid = up'[b][p].cid
        PROVE  b = d /\ p = q
    <3>1. q \in Nat /\ q + sh[d] \in Asks(d, "message") /\ up'[d][q] = up[d][q + sh[d]]
      BY <2>3
    <3>2. b = d /\ p + sh[b] = q + sh[d]
      BY <2>1, <2>3, <3>1 DEF CidAsked
    <3>3. sh[b] \in Int
      OBVIOUS
    <3> QED BY <2>1, <3>1, <3>2, <3>3
  <2> QED BY <2>2, <2>3
<1>6. Len(Stored) <= Len(rows')
  BY <1>3 DEF Cids
<1>7. \A i \in DOMAIN rows' : rows'[i].cid \in (-asked')..0 /\ (rows'[i].cid = 0 <=> i <= Len(Stored))
  BY <1>2, <1>3 DEF Cids
<1>8. \A i, j \in DOMAIN rows' : rows'[i].cid # 0 /\ rows'[i].cid = rows'[j].cid => i = j
  BY <1>3 DEF Cids
<1> QED BY <1>5, <1>6, <1>7, <1>8 DEF Cids

\* Every step keeps what is said of the ids that pages gave.
LEMMA CidsStep ==
  ASSUME Types, Faithful, Cids, FeedNext
  PROVE  Cids'
<1>1. CASE \E c \in Conns : HandleChatMessage(c)
  BY <1>1, CidsChat
<1>2. CASE SameRows
  <2>1. CASE \E u \in Users, t \in Texts : SendMessage(u, t)
    BY <2>1, CidsSend
  <2>2. ASSUME NEW u \in Users, NEW r \in Requests, AskAbout(u, r), r.kind \in {"edit", "delete", "load"}
        PROVE  Cids'
    <3>1. PICK c : c = conn[u]
      OBVIOUS
    <3>2. c \in Conns /\ up'[c] = Append(up[c], r) /\ \A b \in Conns : b # c => up'[b] = up[b]
      BY <2>2, <3>1, AskDoes
    <3>3. r.kind # "message"
      BY <2>2
    <3>4. \A b \in Conns : /\ Asks(b, "message")' = Asks(b, "message")
                           /\ \A p \in Asks(b, "message") : up'[b][p] = up[b][p]
      BY <3>2, <3>3, AsksNoMessage
    <3> DEFINE sh == [b \in Conns |-> 0]
    <3>5. sh \in [Conns -> {0, 1}] /\ \A b \in Conns : sh[b] = 0
      OBVIOUS
    <3>6. \A b \in Conns : \A p \in Asks(b, "message") : p \in Nat /\ p + 0 = p
      BY TypesAt DEF Asks
    <3> HIDE DEF sh
    <3> QED BY <1>2, <3>4, <3>5, <3>6, CidsKept
  <2>3. CASE \E sh : Fewer(sh)
    <3>1. PICK sh : Fewer(sh)
      BY <2>3
    <3>2. \A c \in Conns : \A p \in Asks(c, "message")' :
            p \in Nat /\ p + sh[c] \in Asks(c, "message") /\ up'[c][p] = up[c][p + sh[c]]
      BY <3>1 DEF Asks, Fewer
    <3>3. sh \in [Conns -> {0, 1}]
      BY <3>1 DEF Fewer
    <3> QED BY <1>2, <3>2, <3>3, CidsKept
  <2> QED BY <2>1, <2>2, <2>3, UpSteps
<1> QED BY <1>1, <1>2, RowSteps


-----------------------------------------------------------------------------
(***************************************************************************)
(* Nothing is said that is not so                                          *)
(***************************************************************************)

\* The store grows.
LEMMA StoreGrows ==
  ASSUME Types, Faithful, FeedNext
  PROVE  RowsGrow /\ Len(rows) \in Nat /\ Len(rows') \in Nat /\ Len(rows) <= Len(rows')
<1>1. CASE SameRows
  BY <1>1, TypesAt DEF SameRows
<1>2. ASSUME NEW c \in Conns, HandleChatMessage(c)
      PROVE  RowsGrow /\ Len(rows) \in Nat /\ Len(rows') \in Nat /\ Len(rows) <= Len(rows')
  <2>1. PICK n : n = Len(rows) + 1
    OBVIOUS
  <2>2. RowsGrow /\ Len(rows') = n
    BY <1>2, <2>1, ChatDoes
  <2> QED BY <2>1, <2>2, TypesAt
<1> QED BY <1>1, <1>2, RowSteps

\* What was read, entered and had as history.
LEMMA CountSteps ==
  ASSUME Types, Faithful, FeedNext
  PROVE  \A c \in Conns :
           /\ read'[c] \in {read[c], Len(rows)} /\ entered'[c] \in {entered[c], Len(rows)}
           /\ had[c] \subseteq had'[c] /\ had'[c] \subseteq had[c] \cup DOMAIN rows
<1>1. ASSUME UNCHANGED <<read, entered, had>>
      PROVE  \A c \in Conns :
               /\ read'[c] \in {read[c], Len(rows)} /\ entered'[c] \in {entered[c], Len(rows)}
               /\ had[c] \subseteq had'[c] /\ had'[c] \subseteq had[c] \cup DOMAIN rows
  BY <1>1
<1>2. ASSUME NEW u \in Users
      PROVE  /\ \A c \in Conns : OpenSocket(u, c) => UNCHANGED <<read, entered, had>>
             /\ LoseSocket(u) => UNCHANGED <<read, entered, had>>
             /\ \A t \in Texts : SendMessage(u, t) => UNCHANGED <<read, entered, had>>
             /\ \A r \in Requests : AskAbout(u, r) => UNCHANGED <<read, entered, had>>
             /\ Handle(u) => UNCHANGED <<read, entered, had>>
  BY DEF OpenSocket, LoseSocket, SendMessage, AskAbout, Handle, server
<1>3. ASSUME NEW c \in Conns
      PROVE  /\ HandleJoin(c) => UNCHANGED <<read, entered, had>>
             /\ Answer(c) => UNCHANGED <<read, entered, had>>
             /\ HandleChatMessage(c) => UNCHANGED <<read, entered, had>>
             /\ Refuse(c) => UNCHANGED <<read, entered, had>>
             /\ HandleMessageEdit(c) => UNCHANGED <<read, entered, had>>
             /\ BroadcastToRoom(c) => UNCHANGED <<read, entered, had>>
             /\ HandleMessageDelete(c) => UNCHANGED <<read, entered, had>>
             /\ Publish(c) => UNCHANGED <<read, entered, had>>
  BY DEF HandleJoin, Answer, HandleChatMessage, Refuse, HandleMessageEdit, BroadcastToRoom,
         HandleMessageDelete, Publish
<1>4. HubBroadcast => UNCHANGED <<read, entered, had>>
  BY DEF HubBroadcast
<1>5. ASSUME NEW c \in Conns, ReadHistory(c)
      PROVE  \A b \in Conns :
               /\ read'[b] \in {read[b], Len(rows)} /\ entered'[b] \in {entered[b], Len(rows)}
               /\ had[b] \subseteq had'[b] /\ had'[b] \subseteq had[b] \cup DOMAIN rows
  <2>1. PICK page : /\ Ids(page) \subseteq DOMAIN rows
                    /\ \A b \in Conns : b # c => job'[b] = job[b] /\ read'[b] = read[b] /\ had'[b] = had[b]
                    /\ read'[c] = Len(rows) /\ had'[c] = had[c] \cup Ids(page)
                    /\ entered' = entered
    BY <1>5, ReadDoes
  <2> QED BY <2>1
<1>6. ASSUME NEW c \in Conns, HandleLoadHistory(c)
      PROVE  \A b \in Conns :
               /\ read'[b] \in {read[b], Len(rows)} /\ entered'[b] \in {entered[b], Len(rows)}
               /\ had[b] \subseteq had'[b] /\ had'[b] \subseteq had[b] \cup DOMAIN rows
  <2>1. PICK page : /\ Ids(page) \subseteq DOMAIN rows
                    /\ had'[c] = had[c] \cup Ids(page) /\ \A b \in Conns : b # c => had'[b] = had[b]
                    /\ UNCHANGED <<read, entered>>
    BY <1>6, LoadDoes
  <2> QED BY <2>1
<1>7. ASSUME HubRegister
      PROVE  \A b \in Conns :
               /\ read'[b] \in {read[b], Len(rows)} /\ entered'[b] \in {entered[b], Len(rows)}
               /\ had[b] \subseteq had'[b] /\ had'[b] \subseteq had[b] \cup DOMAIN rows
  <2>1. PICK c : c = Head(registerQ)
    OBVIOUS
  <2>2. /\ c \in Conns /\ entered'[c] = Len(rows) /\ \A d \in Conns : d # c => entered'[d] = entered[d]
        /\ UNCHANGED <<read, had>>
    BY <1>7, <2>1, RegisterDoes
  <2> QED BY <2>2
<1> QED BY <1>1, <1>2, <1>3, <1>4, <1>5, <1>6, <1>7, FeedSteps

\* What is true of a row stays so.
LEMMA SaysStays ==
  ASSUME RowsGrow, NEW c \in Conns, had[c] \subseteq had'[c], NEW f, Says(c, f)
  PROVE  Says(c, f)'
BY DEF Says, IsRow, RowsGrow

\* Counts are of rows.
LEMMA CountsStep ==
  ASSUME Types, Faithful, FeedNext
  PROVE  FaithCounts'
<1>1. ASSUME NEW c \in Conns
      PROVE  read'[c] <= Len(rows') /\ entered'[c] <= Len(rows') /\ had'[c] \subseteq DOMAIN rows'
  <2>1. /\ read[c] <= Len(rows) /\ entered[c] <= Len(rows) /\ had[c] \subseteq DOMAIN rows
        /\ read[c] \in Nat /\ entered[c] \in Nat
    BY TypesAt DEF Faithful, FaithCounts
  <2>2. Len(rows) \in Nat /\ Len(rows') \in Nat /\ Len(rows) <= Len(rows') /\ DOMAIN rows \subseteq DOMAIN rows'
    BY StoreGrows DEF RowsGrow
  <2>3. /\ read'[c] \in {read[c], Len(rows)} /\ entered'[c] \in {entered[c], Len(rows)}
        /\ had'[c] \subseteq had[c] \cup DOMAIN rows
    BY CountSteps
  <2>4. had'[c] \subseteq DOMAIN rows'
    BY <2>1, <2>2, <2>3
  <2>5. read'[c] <= Len(rows') /\ entered'[c] <= Len(rows')
    BY <2>1, <2>2, <2>3
  <2> QED BY <2>4, <2>5
<1> QED BY <1>1 DEF FaithCounts

\* Frames are those there were, and one that says what is true.
Brought ==
  \A c \in Conns : \A p \in DOMAIN down'[c] :
    (\E q \in DOMAIN down[c] : down'[c][p] = down[c][q]) \/ \E g : down'[c][p] = g /\ Says(c, g)

\* A frame is appended for some.
LEMMA AppendBrought ==
  ASSUME Types, Faithful, NEW f \in Frames,
         \A c \in Conns : down'[c] = down[c] \/ (down'[c] = Append(down[c], f) /\ Says(c, f))
  PROVE  Brought
<1> SUFFICES ASSUME NEW c \in Conns, NEW p \in DOMAIN down'[c]
             PROVE  (\E q \in DOMAIN down[c] : down'[c][p] = down[c][q]) \/ \E g : down'[c][p] = g /\ Says(c, g)
  BY DEF Brought
<1>1. CASE down'[c] = down[c]
  BY <1>1
<1>2. CASE down'[c] = Append(down[c], f) /\ Says(c, f)
  <2>1. PICK n : /\ DOMAIN down'[c] = DOMAIN down[c] \cup {n} /\ down'[c][n] = f
                 /\ \A q \in DOMAIN down[c] : down'[c][q] = down[c][q]
    BY <1>2, DownGrows
  <2> QED BY <1>2, <2>1
<1> QED BY <1>1, <1>2

\* What becomes of the frames.
LEMMA DownSteps ==
  ASSUME Types, Faithful, FeedNext
  PROVE  Brought
<1>1. ASSUME down' = down
      PROVE  Brought
  BY <1>1 DEF Brought
<1>2. ASSUME NEW u \in Users
      PROVE  /\ \A c \in Conns : OpenSocket(u, c) => down' = down
             /\ \A t \in Texts : SendMessage(u, t) => down' = down
             /\ \A r \in Requests : AskAbout(u, r) => down' = down
  BY DEF OpenSocket, SendMessage, AskAbout
<1>3. ASSUME NEW c \in Conns
      PROVE  /\ HandleJoin(c) => down' = down
             /\ ReadHistory(c) => down' = down
             /\ HandleLoadHistory(c) => down' = down
             /\ HandleChatMessage(c) => down' = down
             /\ Refuse(c) => down' = down
             /\ HandleMessageEdit(c) => down' = down
             /\ HandleMessageDelete(c) => down' = down
             /\ Publish(c) => down' = down
  BY DEF HandleJoin, ReadHistory, HandleLoadHistory, HandleChatMessage, Refuse, HandleMessageEdit,
         HandleMessageDelete, Publish
<1>4. HubRegister => down' = down
  BY DEF HubRegister
<1>5. ASSUME NEW u \in Users, LoseSocket(u)
      PROVE  Brought
  <2>1. PICK c : c = conn[u]
    OBVIOUS
  <2>2. down'[c] = <<>> /\ \A b \in Conns : b # c => down'[b] = down[b]
    BY <1>5, <2>1, LoseDoes
  <2> QED BY <2>2 DEF Brought
<1>6. ASSUME NEW u \in Users, Handle(u)
      PROVE  Brought
  <2>1. PICK c, f : c = conn[u] /\ f = down[c][1]
    OBVIOUS
  <2>2. c \in Conns /\ down[c] # <<>> /\ down'[c] = Tail(down[c]) /\ \A b \in Conns : b # c => down'[b] = down[b]
    BY <1>6, <2>1, HandleDoes
  <2>3. \A p \in DOMAIN down'[c] : p + 1 \in DOMAIN down[c] /\ down'[c][p] = down[c][p + 1]
    BY <2>2, DownShrinks
  <2> QED BY <2>2, <2>3 DEF Brought
<1>7. ASSUME NEW c \in Conns, Answer(c)
      PROVE  Brought
  <2>1. PICK f : f = job[c].frame
    OBVIOUS
  <2>2. /\ job[c].at = "answering" /\ f \in Frames
        /\ down'[c] = IF Attached(c) THEN Append(down[c], f) ELSE down[c]
        /\ \A b \in Conns : b # c => down'[b] = down[b]
    BY <1>7, <2>1, AnswerDoes
  <2>3. Says(c, f)
    BY <2>1, <2>2 DEF Faithful, FaithJobs
  <2> QED BY <2>2, <2>3, AppendBrought
<1>8. ASSUME NEW c \in Conns, BroadcastToRoom(c)
      PROVE  Brought
  <2>1. PICK f : f = job[c].frame
    OBVIOUS
  <2>2. /\ job[c].at = "fanning" /\ f \in Frames /\ (f.kind = "message" \/ f.kind = "edit")
        /\ \A b \in Conns : down'[b] = IF b \in room /\ Attached(b) THEN Append(down[b], f) ELSE down[b]
    BY <1>8, <2>1, FanDoes
  <2>3. Says(c, f)
    BY <2>1, <2>2 DEF Faithful, FaithJobs
  <2>4. \A b \in Conns : Says(b, f)
    BY <2>2, <2>3 DEF Says
  <2> QED BY <2>2, <2>4, AppendBrought
<1>9. ASSUME HubBroadcast
      PROVE  Brought
  <2>1. PICK f : f = Head(broadcastQ)
    OBVIOUS
  <2>2. /\ f \in Frames /\ f.kind = "delete" /\ f = broadcastQ[1] /\ 1 \in DOMAIN broadcastQ
        /\ \A b \in Conns : down'[b] = IF b \in room /\ Attached(b) THEN Append(down[b], f) ELSE down[b]
    BY <1>9, <2>1, HubDoes
  <2>3. \A b \in Conns : Says(b, f)
    BY <2>2 DEF Says, Faithful, FaithQueue
  <2> QED BY <2>2, <2>3, AppendBrought
<1> QED BY <1>1, <1>2, <1>3, <1>4, <1>5, <1>6, <1>7, <1>8, <1>9, FeedSteps

\* Frames say what is true.
LEMMA FramesStep ==
  ASSUME Types, Faithful, FeedNext
  PROVE  FaithFrames'
<1>1. ASSUME NEW c \in Conns, NEW p \in DOMAIN down'[c]
      PROVE  \E g : down'[c][p] = g /\ Says(c, g)'
  <2>1. RowsGrow /\ had[c] \subseteq had'[c]
    BY StoreGrows, CountSteps
  <2>2. \E g : down'[c][p] = g /\ Says(c, g)
    <3>1. (\E q \in DOMAIN down[c] : down'[c][p] = down[c][q]) \/ \E g : down'[c][p] = g /\ Says(c, g)
      BY DownSteps DEF Brought
    <3>2. \A q \in DOMAIN down[c] : Says(c, down[c][q])
      BY DEF Faithful, FaithFrames
    <3> QED BY <3>1, <3>2
  <2>3. PICK g : down'[c][p] = g /\ Says(c, g)
    BY <2>2
  <2>4. Says(c, g)'
    BY <2>1, <2>3, SaysStays
  <2> QED BY <2>3, <2>4
<1>2. \A c \in Conns : \A p \in DOMAIN down'[c] : \E g : down'[c][p] = g /\ Says(c, g)'
  BY <1>1
<1> QED BY <1>2 DEF FaithFrames, Says, IsRow

\* The queue has deletions of deleted rows.
LEMMA QueueStep ==
  ASSUME Types, Faithful, FeedNext
  PROVE  FaithQueue'
<1>1. RowsGrow
  BY StoreGrows
<1>2. \A i \in DOMAIN broadcastQ : broadcastQ[i].id \in DOMAIN rows' /\ rows'[broadcastQ[i].id].gone
  BY <1>1 DEF Faithful, FaithQueue, RowsGrow
<1>3. CASE broadcastQ' = broadcastQ
  BY <1>2, <1>3 DEF FaithQueue
<1>4. ASSUME NEW c \in Conns, Publish(c)
      PROVE  FaithQueue'
  <2>1. PICK f : f = job[c].frame
    OBVIOUS
  <2>2. /\ job[c].at = "publishing" /\ f \in Deletions
        /\ broadcastQ' = Append(broadcastQ, f) \/ broadcastQ' = broadcastQ
        /\ rows' = rows
    BY <1>4, <2>1, PublishDoes
  <2>3. f.id \in DOMAIN rows /\ rows[f.id].gone
    BY <2>1, <2>2, FramesMade DEF Faithful, FaithJobs, Says
  <2>4. CASE broadcastQ' = Append(broadcastQ, f)
    <3>1. broadcastQ \in Seq(Deletions)
      BY TypesAt
    <3>2. \A i \in DOMAIN broadcastQ' : broadcastQ'[i] = f \/ (i \in DOMAIN broadcastQ /\ broadcastQ'[i] = broadcastQ[i])
      BY <2>2, <2>4, <3>1, AppendAt
    <3> QED BY <1>2, <2>2, <2>3, <3>2 DEF FaithQueue
  <2> QED BY <1>3, <2>2, <2>4
<1>5. ASSUME HubBroadcast
      PROVE  FaithQueue'
  <2>1. broadcastQ # <<>> /\ broadcastQ' = Tail(broadcastQ) /\ broadcastQ \in Seq(Deletions)
    BY <1>5, TypesAt DEF HubBroadcast
  <2>2. \A i \in DOMAIN broadcastQ' : i + 1 \in DOMAIN broadcastQ /\ broadcastQ'[i] = broadcastQ[i + 1]
    BY <2>1, TailAt
  <2> QED BY <1>2, <2>2 DEF FaithQueue
<1>6. ASSUME NEW u \in Users
      PROVE  /\ \A c \in Conns : OpenSocket(u, c) => broadcastQ' = broadcastQ
             /\ LoseSocket(u) => broadcastQ' = broadcastQ
             /\ \A t \in Texts : SendMessage(u, t) => broadcastQ' = broadcastQ
             /\ \A r \in Requests : AskAbout(u, r) => broadcastQ' = broadcastQ
             /\ Handle(u) => broadcastQ' = broadcastQ
  BY DEF OpenSocket, LoseSocket, SendMessage, AskAbout, Handle, server
<1>7. ASSUME NEW c \in Conns
      PROVE  /\ HandleJoin(c) => broadcastQ' = broadcastQ
             /\ ReadHistory(c) => broadcastQ' = broadcastQ
             /\ HandleLoadHistory(c) => broadcastQ' = broadcastQ
             /\ Answer(c) => broadcastQ' = broadcastQ
             /\ HandleChatMessage(c) => broadcastQ' = broadcastQ
             /\ Refuse(c) => broadcastQ' = broadcastQ
             /\ HandleMessageEdit(c) => broadcastQ' = broadcastQ
             /\ BroadcastToRoom(c) => broadcastQ' = broadcastQ
             /\ HandleMessageDelete(c) => broadcastQ' = broadcastQ
  BY DEF HandleJoin, ReadHistory, HandleLoadHistory, Answer, HandleChatMessage, Refuse, HandleMessageEdit,
         BroadcastToRoom, HandleMessageDelete
<1>8. HubRegister => broadcastQ' = broadcastQ
  BY DEF HubRegister
<1> QED BY <1>3, <1>4, <1>5, <1>6, <1>7, <1>8, FeedSteps

\* Pages ask about rows of their own.
LEMMA RequestsStep ==
  ASSUME Types, SocketsKnown, Faithful, FeedNext
  PROVE  FaithRequests'
<1>1. RowsGrow
  BY StoreGrows
<1>2. \A c \in Conns : \A p \in DOMAIN up[c] : up[c][p].kind \in {"edit", "delete"} =>
        up[c][p].id \in DOMAIN rows' /\ rows'[up[c][p].id].user = Owner[c]
  BY <1>1 DEF Faithful, FaithRequests, RowsGrow, Asks
<1>3. ASSUME \A c \in Conns : \A p \in DOMAIN up'[c] : up'[c][p].kind \in {"edit", "delete"} =>
               \/ \E q \in DOMAIN up[c] : up'[c][p] = up[c][q]
               \/ up'[c][p].id \in DOMAIN rows' /\ rows'[up'[c][p].id].user = Owner[c]
      PROVE  FaithRequests'
  BY <1>2, <1>3 DEF FaithRequests, Asks
<1>4. ASSUME NEW u \in Users, NEW t \in Texts, SendMessage(u, t)
      PROVE  FaithRequests'
  <2>1. PICK c, r : /\ c \in Conns /\ r \in Requests /\ r.kind = "message" /\ up'[c] = Append(up[c], r)
                    /\ \A b \in Conns : b # c => up'[b] = up[b]
    BY <1>4, SendAll
  <2>2. PICK n : /\ DOMAIN up'[c] = DOMAIN up[c] \cup {n} /\ up'[c][n] = r
                 /\ \A p \in DOMAIN up[c] : up'[c][p] = up[c][p]
    BY <2>1, AsksGrow
  <2> QED BY <1>3, <2>1, <2>2
<1>5. ASSUME NEW u \in Users, NEW r \in Requests, AskAbout(u, r), r.kind \in {"edit", "delete", "load"},
             r.kind \in {"edit", "delete"} => r.id \in Own(u) /\ r.id > 0
      PROVE  FaithRequests'
  <2>1. PICK c : c = conn[u]
    OBVIOUS
  <2>2. c \in Conns /\ up'[c] = Append(up[c], r) /\ \A b \in Conns : b # c => up'[b] = up[b]
    BY <1>5, <2>1, AskDoes
  <2>3. PICK n : /\ DOMAIN up'[c] = DOMAIN up[c] \cup {n} /\ up'[c][n] = r
                 /\ \A p \in DOMAIN up[c] : up'[c][p] = up[c][p]
    BY <2>2, AsksGrow
  <2>4. r.kind \in {"edit", "delete"} => r.id \in DOMAIN rows' /\ rows'[r.id].user = Owner[c]
    <3> HAVE r.kind \in {"edit", "delete"}
    <3>1. PICK i \in DOMAIN win[u] : win[u][i].user = u /\ win[u][i].id = r.id /\ r.id > 0
      BY <1>5 DEF Own
    <3>2. Shows(u, win[u][i]) /\ win[u][i].id \in Int
      BY TypesAt DEF Faithful, FaithWindows
    <3>3. IsRow(win[u][i])
      BY <3>1, <3>2 DEF Shows
    <3>4. Owner[c] = u
      BY <2>1, <2>2, FeedConstants, SocketOf
    <3> QED BY <1>1, <3>1, <3>3, <3>4 DEF IsRow, RowsGrow
  <2> QED BY <1>3, <2>2, <2>3, <2>4
<1>6. ASSUME NEW sh, Fewer(sh)
      PROVE  FaithRequests'
  <2>1. \A c \in Conns : \A p \in DOMAIN up'[c] :
          up'[c][p].kind # "join" => p + sh[c] \in DOMAIN up[c] /\ up'[c][p] = up[c][p + sh[c]]
    BY <1>6 DEF Fewer
  <2>2. \A c \in Conns : \A p \in DOMAIN up'[c] : up'[c][p].kind \in {"edit", "delete"} =>
          \E q \in DOMAIN up[c] : up'[c][p] = up[c][q]
    BY <2>1
  <2> QED BY <1>3, <2>2
<1> QED BY <1>4, <1>5, <1>6, UpSteps

\* What an entry shows stays true.
LEMMA ShowsStays ==
  ASSUME RowsGrow, asked \in Nat, asked' \in Nat, asked' >= asked, NEW u, NEW m \in Told, Shows(u, m)
  PROVE  Shows(u, m)'
<1>1. (-asked)..0 \subseteq (-asked')..0
  BY MoreIds
<1>2. m.id >= -asked => m.id >= -asked'
  BY DEF Told
<1> QED BY <1>1, <1>2 DEF Shows, IsRow, RowsGrow

\* An entry of which only the text differs shows the same.
LEMMA ShowsAlike ==
  ASSUME NEW u, NEW m, NEW n, Shows(u, m), n.id = m.id, n.cid = m.cid, n.user = m.user
  PROVE  Shows(u, n)
BY DEF Shows, IsRow

\* What becomes of the windows.
ShownEntries ==
  \A u \in Users : \A i \in DOMAIN win'[u] : \E g \in Told : win'[u][i] = g /\ Shows(u, g)'

\* A page handles a frame.
LEMMA HandleShows ==
  ASSUME Types, Faithful, Cids, FeedNext, NEW u \in Users, Handle(u)
  PROVE  ShownEntries
<1>1. PICK c, f : c = conn[u] /\ f = down[c][1]
  OBVIOUS
<1>2. /\ c \in Conns /\ 1 \in DOMAIN down[c] /\ f \in Frames /\ Treats(win'[u], win[u], f, u)
      /\ \A v \in Users : v # u => win'[v] = win[v]
  BY <1>1, HandleDoes
<1>3. RowsGrow /\ asked \in Nat /\ asked' \in Nat /\ asked' >= asked
  BY StoreGrows, AskedGrows
<1>4. \A v \in Users : \A i \in DOMAIN win[v] : win[v][i] \in Told /\ Shows(v, win[v][i])
  BY TypesAt DEF Faithful, FaithWindows
<1>5. Says(c, f) /\ win[u] \in Seq(Told) /\ DOMAIN rows = 1..Len(rows) /\ Len(rows) \in Nat
  BY <1>1, <1>2, TypesAt DEF Faithful, FaithFrames
<1>6. win'[u] \in Seq(Told)
  BY <1>2 DEF Treats
<1>7. \A i \in DOMAIN win'[u] : win'[u][i] \in Told
  BY <1>6, EntriesAre
<1>8. \A v \in Users : \A g \in Told : Shows(v, g) => Shows(v, g)'
  BY <1>3, ShowsStays
<1>9. ASSUME NEW i \in DOMAIN win'[u]
      PROVE  \E g \in Told : win'[u][i] = g /\ Shows(u, g)
  <2>1. \/ \E j \in DOMAIN win[u] : win'[u][i].id = win[u][j].id /\ win'[u][i].cid = win[u][j].cid
                                    /\ win'[u][i].user = win[u][j].user
        \/ f.kind = "message" /\ win'[u][i] = f.message
        \/ f.kind = "history" /\ \E q \in DOMAIN f.messages : win'[u][i] = f.messages[q]
    BY <1>2, <1>5, TreatsEntries
  <2>2. PICK g \in Told : win'[u][i] = g
    BY <1>7
  <2>3. CASE \E j \in DOMAIN win[u] : g.id = win[u][j].id /\ g.cid = win[u][j].cid /\ g.user = win[u][j].user
    <3>1. PICK j \in DOMAIN win[u] : g.id = win[u][j].id /\ g.cid = win[u][j].cid /\ g.user = win[u][j].user
      BY <2>3
    <3>2. Shows(u, g)
      BY <1>4, <3>1, ShowsAlike
    <3> QED BY <2>2, <3>2
  <2>4. CASE f.kind = "message" /\ g = f.message
    <3>1. IsRow(g) /\ g.cid = rows[g.id].cid
      BY <1>5, <2>4 DEF Says
    <3>2. g.id \in DOMAIN rows /\ ~(g.id < 0)
      BY <1>5, <3>1 DEF IsRow
    <3>3. g.cid \in (-asked)..0
      BY <3>1, <3>2 DEF Cids
    <3> QED BY <2>2, <3>1, <3>2, <3>3 DEF Shows
  <2>5. CASE f.kind = "history" /\ \E q \in DOMAIN f.messages : g = f.messages[q]
    <3>1. IsRow(g) /\ g.cid = 0
      BY <1>5, <2>5 DEF Says
    <3>2. g.id \in DOMAIN rows /\ ~(g.id < 0)
      BY <1>5, <3>1 DEF IsRow
    <3>3. 0 \in (-asked)..0
      BY <1>3
    <3> QED BY <2>2, <3>1, <3>2, <3>3 DEF Shows
  <2> QED BY <2>1, <2>2, <2>3, <2>4, <2>5
<1>10. ASSUME NEW v \in Users, NEW i \in DOMAIN win'[v]
       PROVE  \E g \in Told : win'[v][i] = g /\ Shows(v, g)'
  <2>1. \E g \in Told : win'[v][i] = g /\ Shows(v, g)
    BY <1>2, <1>4, <1>9, <1>10
  <2> QED BY <1>8, <2>1
<1> QED BY <1>10 DEF ShownEntries

\* Every step keeps what windows show.
LEMMA WindowsStep ==
  ASSUME Types, Faithful, Cids, FeedNext
  PROVE  FaithWindows'
<1>1. RowsGrow /\ asked \in Nat /\ asked' \in Nat /\ asked' >= asked
  BY StoreGrows, AskedGrows
<1>2. \A v \in Users : \A i \in DOMAIN win[v] : win[v][i] \in Told /\ Shows(v, win[v][i])
  BY TypesAt DEF Faithful, FaithWindows
<1>3. \A v \in Users : \A g \in Told : Shows(v, g) => Shows(v, g)'
  BY <1>1, ShowsStays
<1>4. \A v \in Users : \A i \in DOMAIN win[v] : \E g \in Told : win[v][i] = g /\ Shows(v, g)'
  BY <1>2, <1>3
<1>5. win' = win => ShownEntries
  BY <1>4 DEF ShownEntries
<1>6. ASSUME NEW u \in Users, NEW t \in Texts, SendMessage(u, t)
      PROVE  ShownEntries
  <2>1. PICK k, m : /\ k \in Int /\ k = -(asked + 1) /\ m \in Told /\ m.id = k /\ m.cid = k /\ m.user = u
                    /\ asked' = asked + 1
                    /\ \A v \in Users : v # u => win'[v] = win[v]
                    /\ win'[u] \in Seq(Told)
                    /\ Put(win'[u], win[u], m) \/ Known(win'[u], win[u], m) \/ Added(win'[u], win[u], m)
    BY <1>6, SendAll
  <2>2. Shows(u, m)'
    <3>1. k = -asked' /\ k < 0 /\ k \in (-asked')..0
      BY <1>1, <2>1
    <3>2. m.cid \in (-asked')..0 /\ (m.id < 0 => m.user = u /\ m.id >= -asked') /\ ~(m.id >= 0)
      BY <2>1, <3>1
    <3> QED BY <3>2 DEF Shows
  <2>3. \A i \in DOMAIN win'[u] : win'[u][i] = m \/ \E j \in DOMAIN win[u] : win'[u][i] = win[u][j]
    <3>1. CASE Put(win'[u], win[u], m)
      BY <3>1 DEF Put
    <3>2. CASE Known(win'[u], win[u], m)
      BY <3>2 DEF Known
    <3>3. CASE Added(win'[u], win[u], m)
      <4>1. PICK e : From(win'[u], win[u], e) /\ \A i \in DOMAIN win'[u] : e[i] = 0 <=> i = Len(win'[u])
        BY <3>3 DEF Added
      <4>2. win'[u][Len(win'[u])] = m
        BY <3>3 DEF Added
      <4> QED BY <4>1, <4>2 DEF From
    <3> QED BY <2>1, <3>1, <3>2, <3>3
  <2>4. ASSUME NEW v \in Users, NEW i \in DOMAIN win'[v]
        PROVE  \E g \in Told : win'[v][i] = g /\ Shows(v, g)'
    BY <1>4, <2>1, <2>2, <2>3, <2>4
  <2> QED BY <2>4 DEF ShownEntries
<1>7. ASSUME NEW u \in Users
      PROVE  /\ \A c \in Conns : OpenSocket(u, c) => win' = win
             /\ LoseSocket(u) => win' = win
             /\ \A r \in Requests : AskAbout(u, r) => win' = win
             /\ Handle(u) => ShownEntries
  BY HandleShows DEF OpenSocket, LoseSocket, AskAbout
<1>8. ASSUME NEW c \in Conns
      PROVE  /\ HandleJoin(c) => win' = win
             /\ ReadHistory(c) => win' = win
             /\ HandleLoadHistory(c) => win' = win
             /\ Answer(c) => win' = win
             /\ HandleChatMessage(c) => win' = win
             /\ Refuse(c) => win' = win
             /\ HandleMessageEdit(c) => win' = win
             /\ BroadcastToRoom(c) => win' = win
             /\ HandleMessageDelete(c) => win' = win
             /\ Publish(c) => win' = win
  BY DEF HandleJoin, ReadHistory, HandleLoadHistory, Answer, HandleChatMessage, Refuse, HandleMessageEdit,
         BroadcastToRoom, HandleMessageDelete, Publish, pages
<1>9. HubRegister \/ HubBroadcast => win' = win
  BY DEF HubRegister, HubBroadcast, pages
<1>10. ShownEntries
  BY <1>5, <1>6, <1>7, <1>8, <1>9, FeedSteps
<1> QED BY <1>10 DEF ShownEntries, FaithWindows, Shows, IsRow

\* What a goroutine holds is true.
Holds(c, j) ==
  /\ j.at \in {"answering", "fanning", "publishing"} => Says(c, j.frame)
  /\ j.at = "fanning" /\ j.frame.kind = "message" => j.frame.message.user = Owner[c]
  /\ j.at = "fanning" /\ j.frame.kind = "edit" =>
       j.frame.id \in DOMAIN rows /\ rows[j.frame.id].user = Owner[c]

\* It stays so.
LEMMA HoldsStays ==
  ASSUME RowsGrow, NEW c \in Conns, had[c] \subseteq had'[c], NEW j, Holds(c, j)
  PROVE  Holds(c, j)'
<1>1. j.at \in {"answering", "fanning", "publishing"} => Says(c, j.frame)'
  BY SaysStays DEF Holds
<1> QED BY <1>1 DEF Holds, RowsGrow

\* Every step keeps what goroutines hold.
LEMMA JobsStep ==
  ASSUME Types, Faithful, Cids, FeedNext
  PROVE  FaithJobs'
<1>1. RowsGrow /\ \A c \in Conns : had[c] \subseteq had'[c]
  BY StoreGrows, CountSteps
<1>2. \A c \in Conns : Holds(c, job[c])
  BY DEF Faithful, FaithJobs, Holds, Fans
<1>3. \A c \in Conns : \A j : Holds(c, j) => Holds(c, j)'
  BY <1>1, HoldsStays
<1>4. ASSUME \A c \in Conns : \E j : job'[c] = j /\ Holds(c, j)'
      PROVE  FaithJobs'
  BY SMTT(40), <1>4 DEF FaithJobs, Holds, Fans, Says, IsRow
<1>5. \A c \in Conns : \E j : job[c] = j /\ Holds(c, j)'
  BY <1>2, <1>3
<1>6. ASSUME job' = job
      PROVE  FaithJobs'
  BY <1>4, <1>5, <1>6
<1>7. ASSUME NEW c \in Conns, NEW j, job'[c] = j, Holds(c, j)', \A b \in Conns : b # c => job'[b] = job[b]
      PROVE  FaithJobs'
  BY <1>4, <1>5, <1>7
<1>8. \A c \in Conns : Holds(c, Idle)' /\ Holds(c, [at |-> "greeting"])'
  BY DEF Holds, Idle
<1>9. ASSUME NEW c \in Conns, NEW page \in Seq(Told), IsPage(page), Ids(page) \subseteq had'[c],
             \A i \in DOMAIN page : page[i].id \in DOMAIN rows /\ page[i].user = rows[page[i].id].user,
             NEW j, j = [at |-> "answering", frame |-> [kind |-> "history", messages |-> page]]
      PROVE  Holds(c, j)'
  <2>1. \A i \in DOMAIN page : /\ page[i].id \in DOMAIN rows' /\ page[i].user = rows'[page[i].id].user
                               /\ page[i].cid = 0 /\ page[i].id \in had'[c]
    BY <1>1, <1>9 DEF RowsGrow, IsPage, Ids
  <2>2. j.at = "answering" /\ j.frame.kind = "history" /\ j.frame.messages = page
    BY <1>9
  <2> QED BY <2>1, <2>2 DEF Holds, Says, IsRow
<1>10. ASSUME NEW c \in Conns, ReadHistory(c)
       PROVE  FaithJobs'
  <2>1. PICK page : /\ page \in Seq(Told) /\ IsPage(page)
                    /\ \A i \in DOMAIN page : page[i].id \in DOMAIN rows /\ page[i].user = rows[page[i].id].user
                    /\ job'[c] = [at |-> "answering", frame |-> [kind |-> "history", messages |-> page]]
                    /\ \A b \in Conns : b # c => job'[b] = job[b] /\ read'[b] = read[b] /\ had'[b] = had[b]
                    /\ had'[c] = had[c] \cup Ids(page)
    BY <1>10, ReadDoes
  <2>2. PICK j : j = [at |-> "answering", frame |-> [kind |-> "history", messages |-> page]]
    OBVIOUS
  <2>3. Holds(c, j)'
    BY <1>9, <2>1, <2>2
  <2> QED BY <1>7, <2>1, <2>2, <2>3
<1>11. ASSUME NEW c \in Conns, HandleLoadHistory(c)
       PROVE  FaithJobs'
  <2>1. PICK page : /\ page \in Seq(Told) /\ IsPage(page)
                    /\ \A i \in DOMAIN page : page[i].id \in DOMAIN rows /\ page[i].user = rows[page[i].id].user
                    /\ Take(c, "load", [at |-> "answering", frame |-> [kind |-> "history", messages |-> page]])
                    /\ had'[c] = had[c] \cup Ids(page)
    BY <1>11, LoadDoes
  <2>2. PICK j : j = [at |-> "answering", frame |-> [kind |-> "history", messages |-> page]]
    OBVIOUS
  <2>3. Holds(c, j)'
    BY <1>9, <2>1, <2>2
  <2>4. Take(c, "load", j)
    BY <2>1, <2>2
  <2>5. job'[c] = j /\ \A b \in Conns : b # c => job'[b] = job[b]
    BY <2>4, TakeAt
  <2> QED BY <1>7, <2>3, <2>5
<1>12. ASSUME NEW c \in Conns, HandleChatMessage(c)
       PROVE  FaithJobs'
  <2>1. PICK n : n = Len(rows) + 1
    OBVIOUS
  <2>2. PICK m, next : /\ m = [id |-> n, cid |-> up[c][1].cid, user |-> Owner[c], text |-> up[c][1].text]
                       /\ next = [at |-> "fanning", frame |-> [kind |-> "message", message |-> m]]
    OBVIOUS
  <2>3. Take(c, "message", next) /\ DOMAIN rows' = DOMAIN rows \cup {n} /\ rows'[n] = NewRow(c)
    BY <1>12, <2>1, <2>2, ChatDoes
  <2>4. m.id = n /\ m.cid = rows'[n].cid /\ m.user = rows'[n].user /\ m.user = Owner[c]
    BY <2>2, <2>3 DEF NewRow
  <2>5. m.cid # 0
    <3>1. 1 \in Asks(c, "message")
      BY <2>3, AsksShrink
    <3>2. up[c][1].cid \in (-asked)..(-1) /\ asked \in Nat
      BY <3>1, TypesAt DEF Cids
    <3>3. up[c][1].cid # 0
      BY <3>2
    <3> QED BY <2>2, <3>3
  <2>6. next.at = "fanning" /\ next.frame.kind = "message" /\ next.frame.message = m
    BY <2>2
  <2>7. Holds(c, next)'
    BY <2>3, <2>4, <2>5, <2>6 DEF Holds, Says, IsRow
  <2>8. job'[c] = next /\ \A b \in Conns : b # c => job'[b] = job[b]
    BY <2>3, TakeAt
  <2> QED BY <1>7, <2>7, <2>8
<1>13. ASSUME NEW c \in Conns, HandleMessageEdit(c)
       PROVE  FaithJobs'
  <2>1. PICK id, f, next : /\ id = up[c][1].id
                           /\ f = [kind |-> "edit", id |-> id,
                                   text |-> IF rows[id].gone THEN "" ELSE up[c][1].text]
                           /\ next = [at |-> "fanning", frame |-> f]
    OBVIOUS
  <2>2. Take(c, "edit", next) /\ id \in DOMAIN rows /\ rows[id].user = Owner[c]
    BY <1>13, <2>1, EditDoes
  <2>3. id \in DOMAIN rows' /\ rows'[id].user = Owner[c]
    BY <1>1, <2>2 DEF RowsGrow
  <2>4. next.at = "fanning" /\ next.frame.kind = "edit" /\ next.frame.id = id
    BY <2>1
  <2>5. Holds(c, next)'
    BY <2>3, <2>4 DEF Holds, Says
  <2>6. job'[c] = next /\ \A b \in Conns : b # c => job'[b] = job[b]
    BY <2>2, TakeAt
  <2> QED BY <1>7, <2>5, <2>6
<1>14. ASSUME NEW c \in Conns, HandleMessageDelete(c)
       PROVE  FaithJobs'
  <2>1. PICK id, f, next : /\ id = up[c][1].id
                           /\ f = [kind |-> "delete", id |-> id]
                           /\ next = [at |-> "publishing", frame |-> f]
    OBVIOUS
  <2>2. Take(c, "delete", next) /\ id \in DOMAIN rows' /\ rows'[id].gone
    <3>1. Take(c, "delete", next) /\ DOMAIN rows' = DOMAIN rows /\ id \in DOMAIN rows /\ rows'[id].gone
      BY <1>14, <2>1, DeletionDoes
    <3> QED BY <3>1
  <2>4. next.at = "publishing" /\ next.frame.kind = "delete" /\ next.frame.id = id
    BY <2>1
  <2>5. Holds(c, next)'
    BY <2>2, <2>4 DEF Holds, Says
  <2>6. job'[c] = next /\ \A b \in Conns : b # c => job'[b] = job[b]
    BY <2>2, TakeAt
  <2> QED BY <1>7, <2>5, <2>6
<1>15. ASSUME NEW c \in Conns, HandleJoin(c)
       PROVE  FaithJobs'
  <2>1. PICK j : j = [at |-> "greeting"]
    OBVIOUS
  <2>2. Take(c, "join", j)
    BY <1>15, <2>1, JoinDoes
  <2>3. Holds(c, j)'
    BY <2>1 DEF Holds
  <2>4. job'[c] = j /\ \A b \in Conns : b # c => job'[b] = job[b]
    BY <2>2, TakeAt
  <2> QED BY <1>7, <2>3, <2>4
<1>16. ASSUME NEW c \in Conns, Answer(c) \/ BroadcastToRoom(c) \/ Publish(c) \/ Refuse(c)
       PROVE  FaithJobs'
  <2>1. PICK j : j = Idle
    OBVIOUS
  <2>2. job'[c] = j /\ \A b \in Conns : b # c => job'[b] = job[b]
    <3>1. CASE Answer(c) \/ BroadcastToRoom(c) \/ Publish(c)
      <4>1. job' = [job EXCEPT ![c] = Idle]
        BY <3>1 DEF Answer, BroadcastToRoom, Publish
      <4> QED BY <2>1, <4>1, JobEnds
    <3>2. CASE Refuse(c)
      <4>1. PICK kind : Take(c, kind, Idle)
        BY <3>2 DEF Refuse
      <4> QED BY <2>1, <4>1, TakeAt
    <3> QED BY <1>16, <3>1, <3>2
  <2> QED BY <1>7, <1>8, <2>1, <2>2
<1>17. ASSUME NEW u \in Users
       PROVE  /\ \A c \in Conns : OpenSocket(u, c) => job' = job
              /\ LoseSocket(u) => job' = job
              /\ \A t \in Texts : SendMessage(u, t) => job' = job
              /\ \A r \in Requests : AskAbout(u, r) => job' = job
              /\ Handle(u) => job' = job
  BY DEF OpenSocket, LoseSocket, SendMessage, AskAbout, Handle, server
<1>18. HubRegister \/ HubBroadcast => job' = job
  BY DEF HubRegister, HubBroadcast
<1> QED BY <1>6, <1>10, <1>11, <1>12, <1>13, <1>14, <1>15, <1>16, <1>17, <1>18, FeedSteps

\* Every step keeps what is told true.
LEMMA FaithfulStep ==
  ASSUME Types, SocketsKnown, Cids, Faithful, FeedNext
  PROVE  Faithful'
BY CountsStep, WindowsStep, FramesStep, JobsStep, QueueStep, RequestsStep DEF Faithful


-----------------------------------------------------------------------------
(***************************************************************************)
(* Own entries                                                             *)
(***************************************************************************)

\* Entry i of d is entry e[i] of w, or one with another text, or a new one if e[i] is 0.
Alike(d, w, e) ==
  /\ e \in [DOMAIN d -> {0} \cup DOMAIN w]
  /\ \A i \in DOMAIN d : e[i] # 0 => d[i].id = w[e[i]].id /\ d[i].cid = w[e[i]].cid /\ d[i].user = w[e[i]].user
  /\ \A i, j \in DOMAIN d : i < j /\ e[i] # 0 /\ e[j] # 0 => e[i] < e[j]

\* Entries that only moved are alike.
LEMMA FromAlike ==
  ASSUME NEW d, NEW w, NEW e, From(d, w, e)
  PROVE  Alike(d, w, e)
BY DEF From, Alike

\* The entries are alike, but for new ones that the set holds.
Renewed(d, w, S) == \E e : Alike(d, w, e) /\ \A i \in DOMAIN d : e[i] = 0 => d[i] \in S

\* A window is like itself.
LEMMA SelfAlike ==
  ASSUME NEW w \in Seq(Told), NEW d \in Seq(Told), DOMAIN d = DOMAIN w,
         \A i \in DOMAIN w : d[i].id = w[i].id /\ d[i].cid = w[i].cid /\ d[i].user = w[i].user
  PROVE  \E e : Alike(d, w, e) /\ \A i \in DOMAIN d : e[i] # 0
<1> DEFINE e == [i \in DOMAIN d |-> i]
<1>1. 0 \notin DOMAIN w
  BY EmptyAt
<1>2. Alike(d, w, e) /\ \A i \in DOMAIN d : e[i] # 0
  BY <1>1 DEF Alike
<1> QED BY <1>2

\* A message in the place of an entry.
LEMMA PutAlike ==
  ASSUME NEW w \in Seq(Told), NEW m, NEW at \in DOMAIN w, NEW d,
         DOMAIN d = DOMAIN w, d[at] = m, \A i \in DOMAIN w : i # at => d[i] = w[i]
  PROVE  Renewed(d, w, {m})
<1> DEFINE e == [i \in DOMAIN d |-> IF i = at THEN 0 ELSE i]
<1>2. 0 \notin DOMAIN w
  BY EmptyAt
<1>3. Alike(d, w, e) /\ \A i \in DOMAIN d : e[i] = 0 => d[i] \in {m}
  BY <1>2 DEF Alike
<1> HIDE DEF e
<1> QED BY <1>3 DEF Renewed

\* The entries that a live message leaves, and the message.
LEMMA LiveOrigin ==
  ASSUME NEW w \in Seq(Told), NEW m \in Told, NEW d \in Seq(Told), Put(d, w, m) \/ Known(d, w, m) \/ Added(d, w, m)
  PROVE  \E e : Alike(d, w, e) /\ \A i \in DOMAIN d : e[i] = 0 => d[i] = m
<1>1. CASE Put(d, w, m)
  <2>1. PICK at \in DOMAIN w : d = [w EXCEPT ![at] = m]
    BY <1>1 DEF Put
  <2>2. DOMAIN d = DOMAIN w /\ d[at] = m /\ \A i \in DOMAIN w : i # at => d[i] = w[i]
    BY <2>1, InPlace
  <2>3. Renewed(d, w, {m})
    BY <2>1, <2>2, PutAlike
  <2> QED BY <2>3 DEF Renewed
<1>2. CASE Known(d, w, m)
  <2>1. d = w
    BY <1>2 DEF Known
  <2> QED BY <2>1, SelfAlike
<1>3. CASE Added(d, w, m)
  <2>1. PICK e : From(d, w, e) /\ \A i \in DOMAIN d : e[i] = 0 <=> i = Len(d)
    BY <1>3 DEF Added
  <2>2. d[Len(d)] = m
    BY <1>3 DEF Added
  <2> QED BY <2>1, <2>2, FromAlike
<1> QED BY <1>1, <1>2, <1>3

\* Where the entries come from after a frame was handled.
LEMMA TreatsOrigin ==
  ASSUME NEW w \in Seq(Told), NEW f \in Frames, NEW u, NEW d, Treats(d, w, f, u)
  PROVE  \E e : /\ Alike(d, w, e)
                /\ \A i \in DOMAIN d : e[i] = 0 =>
                     \/ f.kind = "message" /\ d[i] = f.message
                     \/ f.kind = "history" /\ \E q \in DOMAIN f.messages : d[i] = f.messages[q]
<1>0. d \in Seq(Told)
  BY DEF Treats
<1>1. CASE f.kind = "message"
  <2>1. f.message \in Told
    BY <1>1, FrameKinds
  <2>2. PICK m : m = f.message
    OBVIOUS
  <2>3. Put(d, w, m) \/ Known(d, w, m) \/ Added(d, w, m)
    BY <1>1, <2>2 DEF Treats
  <2>4. PICK e : Alike(d, w, e) /\ \A i \in DOMAIN d : e[i] = 0 => d[i] = m
    BY <1>0, <2>1, <2>2, <2>3, LiveOrigin
  <2> QED BY <1>1, <2>2, <2>4
<1>2. CASE f.kind = "edit"
  <2>1. f.text \in TextOrNone
    BY <1>2, FrameKinds
  <2>2. d = w \/ d = EditMessageInPlace(w, f.id, f.text)
    BY <1>2 DEF Treats
  <2>3. CASE d = w
    BY <2>3, SelfAlike
  <2>4. CASE d = EditMessageInPlace(w, f.id, f.text)
    <3>1. /\ DOMAIN d = DOMAIN w
          /\ \A i \in DOMAIN w : d[i].id = w[i].id /\ d[i].cid = w[i].cid /\ d[i].user = w[i].user
      BY <2>1, <2>4, EditWindow
    <3> QED BY <1>0, <3>1, SelfAlike
  <2> QED BY <2>2, <2>3, <2>4
<1>3. CASE f.kind = "delete"
  <2>1. PICK e : From(d, w, e) /\ \A i \in DOMAIN d : e[i] # 0
    BY <1>3 DEF Treats, Without
  <2> QED BY <2>1, FromAlike
<1>4. CASE f.kind = "history"
  <2> DEFINE p == f.messages
  <2>1. PICK cap, close : PageMerged(d, w, p, cap, close)
    BY <1>4 DEF Treats
  <2>2. PICK e : From(d, w, e) /\ \A i \in DOMAIN d : e[i] = 0 => d[i] \in ToSet(p)
    BY <2>1 DEF PageMerged
  <2>3. \A x \in ToSet(p) : \E q \in DOMAIN p : x = p[q]
    BY DEF ToSet
  <2> HIDE DEF p
  <2>4. \A i \in DOMAIN d : e[i] = 0 => \E q \in DOMAIN p : d[i] = p[q]
    BY <2>2, <2>3
  <2> QED BY <1>4, <2>2, <2>4, FromAlike DEF p
<1> QED BY <1>1, <1>2, <1>3, <1>4, FrameKinds

\* Positions that are from different ones are different.
LEMMA AlikeOnce ==
  ASSUME NEW w \in Seq(Told), NEW d \in Seq(Told), NEW e, Alike(d, w, e),
         NEW i \in DOMAIN d, NEW j \in DOMAIN d, e[i] # 0, e[j] # 0, e[i] = e[j]
  PROVE  i = j
<1>1. DOMAIN w \subseteq Nat /\ i \in Nat /\ j \in Nat
  OBVIOUS
<1>2. e[i] \in Nat
  BY <1>1 DEF Alike
<1>3. ~(i < j) /\ ~(j < i)
  BY <1>2 DEF Alike
<1> QED BY <1>1, <1>3

\* What a page is told by a frame is of the store.
LEMMA ToldIds ==
  ASSUME Types, Faithful, NEW c \in Conns, NEW p \in DOMAIN down[c], NEW f, f = down[c][p]
  PROVE  /\ f.kind = "message" => /\ f.message \in Told /\ f.message.id \in DOMAIN rows /\ f.message.id > 0
                                  /\ f.message.cid = rows[f.message.id].cid /\ f.message.cid # 0
                                  /\ f.message.user = rows[f.message.id].user
         /\ f.kind = "history" => /\ f.messages \in Seq(Told)
                                  /\ \A i \in DOMAIN f.messages : 
                                       /\ f.messages[i].id \in DOMAIN rows /\ f.messages[i].id > 0
                                       /\ f.messages[i].id \in had[c] /\ f.messages[i].cid = 0
                                       /\ f.messages[i].user = rows[f.messages[i].id].user
<1>1. Says(c, f)
  BY DEF Faithful, FaithFrames
<1>2. \A x \in DOMAIN rows : x > 0
  BY TypesAt
<1>3. f \in Frames
  BY TypesAt
<1> QED BY <1>1, <1>2, <1>3, FrameKinds DEF Says, IsRow

\* Entries that are not of the store are those there were.
OldOptimists ==
  \A u \in Users : \E e : /\ Alike(win'[u], win[u], e)
                          /\ \A i \in DOMAIN win'[u] : e[i] = 0 => win'[u][i].id > 0

\* The steps that show no message before its answer.
LEMMA OptimistSteps ==
  ASSUME Types, Faithful, FeedNext
  PROVE  OldOptimists \/ \E u \in Users, t \in Texts : SendMessage(u, t)
<1>1. \A u \in Users : win'[u] = win[u] =>
        \E e : Alike(win'[u], win[u], e) /\ \A i \in DOMAIN win'[u] : e[i] = 0 => win'[u][i].id > 0
  <2> SUFFICES ASSUME NEW u \in Users
               PROVE  \E e : Alike(win[u], win[u], e) /\ \A i \in DOMAIN win[u] : e[i] # 0
    OBVIOUS
  <2> QED BY TypesAt, SelfAlike
<1>2. win' = win => OldOptimists
  BY <1>1 DEF OldOptimists
<1>3. ASSUME NEW u \in Users, Handle(u)
      PROVE  OldOptimists
  <2>1. PICK c, f : c = conn[u] /\ f = down[c][1]
    OBVIOUS
  <2>2. /\ c \in Conns /\ 1 \in DOMAIN down[c] /\ f \in Frames /\ Treats(win'[u], win[u], f, u)
        /\ \A v \in Users : v # u => win'[v] = win[v]
    BY <1>3, <2>1, HandleDoes
  <2>6. PICK d, w : d = win'[u] /\ w = win[u]
    OBVIOUS
  <2>7. w \in Seq(Told) /\ Treats(d, w, f, u)
    BY <2>2, <2>6, TypesAt
  <2>3. PICK e : /\ Alike(d, w, e)
                 /\ \A i \in DOMAIN d : e[i] = 0 =>
                     \/ f.kind = "message" /\ d[i] = f.message
                     \/ f.kind = "history" /\ \E q \in DOMAIN f.messages : d[i] = f.messages[q]
    BY <2>2, <2>7, TreatsOrigin
  <2>8. /\ f.kind = "message" => f.message.id > 0
        /\ f.kind = "history" => \A q \in DOMAIN f.messages : f.messages[q].id > 0
    BY ZenonT(40), <2>1, <2>2, ToldIds
  <2>4. \A i \in DOMAIN d : e[i] = 0 => d[i].id > 0
    BY <2>3, <2>8
  <2>5. \E x : Alike(d, w, x) /\ \A i \in DOMAIN d : x[i] = 0 => d[i].id > 0
    BY <2>3, <2>4
  <2> QED BY <1>1, <2>2, <2>5, <2>6 DEF OldOptimists
<1>7. ASSUME NEW u \in Users
      PROVE  /\ \A c \in Conns : OpenSocket(u, c) => win' = win
             /\ LoseSocket(u) => win' = win
             /\ \A r \in Requests : AskAbout(u, r) => win' = win
  BY DEF OpenSocket, LoseSocket, AskAbout
<1>8. ASSUME NEW c \in Conns
      PROVE  /\ HandleJoin(c) => win' = win
             /\ ReadHistory(c) => win' = win
             /\ HandleLoadHistory(c) => win' = win
             /\ Answer(c) => win' = win
             /\ HandleChatMessage(c) => win' = win
             /\ Refuse(c) => win' = win
             /\ HandleMessageEdit(c) => win' = win
             /\ BroadcastToRoom(c) => win' = win
             /\ HandleMessageDelete(c) => win' = win
             /\ Publish(c) => win' = win
  BY DEF HandleJoin, ReadHistory, HandleLoadHistory, Answer, HandleChatMessage, Refuse, HandleMessageEdit,
         BroadcastToRoom, HandleMessageDelete, Publish, pages
<1>9. HubRegister \/ HubBroadcast => win' = win
  BY DEF HubRegister, HubBroadcast, pages
<1> QED BY <1>2, <1>3, <1>7, <1>8, <1>9, FeedSteps

\* The windows after a step.
LEMMA WindowAfter ==
  ASSUME Types', NEW u \in Users
  PROVE  win'[u] \in Seq(Told) /\ \A i \in DOMAIN win'[u] : win'[u][i].id \in Int /\ win'[u][i] \in Told
<1>1. win'[u] \in Seq(Told)
  BY DEF Types
<1>2. \A i \in DOMAIN win'[u] : win'[u][i] \in Told
  BY <1>1
<1> QED BY <1>1, <1>2 DEF Told

\* An entry that is not of the store was there before.
LEMMA OldEntry ==
  ASSUME Types, Types', OldOptimists, NEW u \in Users, NEW i \in DOMAIN win'[u], win'[u][i].id < 0
  PROVE  \E j \in DOMAIN win[u] : win[u][j].id = win'[u][i].id
<1>1. PICK e : Alike(win'[u], win[u], e) /\ \A q \in DOMAIN win'[u] : e[q] = 0 => win'[u][q].id > 0
  BY DEF OldOptimists
<1>2. win'[u][i].id \in Int
  BY WindowAfter
<1>3. e[i] # 0
  BY <1>1, <1>2
<1> QED BY <1>1, <1>3 DEF Alike

\* If no message is shown before its answer, there still is one of each.
LEMMA OwnOnceKept ==
  ASSUME Types, Types', OldOptimists, OwnOnce
  PROVE  OwnOnce'
<1> SUFFICES ASSUME NEW u \in Users, NEW i \in DOMAIN win'[u], NEW j \in DOMAIN win'[u],
                    win'[u][i].id < 0, win'[u][i].id = win'[u][j].id
             PROVE  i = j
  BY DEF OwnOnce
<1>1. PICK e : Alike(win'[u], win[u], e) /\ \A q \in DOMAIN win'[u] : e[q] = 0 => win'[u][q].id > 0
  BY DEF OldOptimists
<1>2. win'[u][i].id \in Int /\ win'[u] \in Seq(Told) /\ win[u] \in Seq(Told)
  BY TypesAt, WindowAfter
<1>3. e[i] # 0 /\ e[j] # 0
  BY <1>1, <1>2
<1>4. e[i] \in DOMAIN win[u] /\ e[j] \in DOMAIN win[u]
  BY <1>1, <1>3 DEF Alike
<1>5. win[u][e[i]].id = win'[u][i].id /\ win[u][e[j]].id = win'[u][j].id
  BY <1>1, <1>3 DEF Alike
<1>6. e[i] = e[j]
  BY <1>4, <1>5 DEF OwnOnce
<1>7. Alike(win'[u], win[u], e)
  BY <1>1
<1>8. PICK d, w : d = win'[u] /\ w = win[u]
  OBVIOUS
<1> QED BY <1>2, <1>3, <1>6, <1>7, <1>8, AlikeOnce

\* Rows and requests of entries that were there before.
LEMMA OwnRowsKept ==
  ASSUME Types, Types', OldOptimists, OwnRows, RowsGrow, DOMAIN rows' = DOMAIN rows
  PROVE  OwnRows'
<1> SUFFICES ASSUME NEW u \in Users, NEW i \in DOMAIN win'[u], NEW r \in DOMAIN rows',
                    win'[u][i].id < 0, rows'[r].cid = win'[u][i].id
             PROVE  rows'[r].user = u
  BY DEF OwnRows
<1>1. PICK j \in DOMAIN win[u] : win[u][j].id = win'[u][i].id
  BY OldEntry
<1> QED BY <1>1 DEF OwnRows, RowsGrow

\* Requests of those entries stay their user's if there are no new ones.
LEMMA OwnAsksKept ==
  ASSUME Types, Types', OldOptimists, OwnAsks,
         \A c \in Conns : \A p \in Asks(c, "message")' :
            \E q \in Asks(c, "message") : up'[c][p].cid = up[c][q].cid
  PROVE  OwnAsks'
<1> SUFFICES ASSUME NEW u \in Users, NEW i \in DOMAIN win'[u], NEW c \in Conns, NEW p \in Asks(c, "message")',
                    win'[u][i].id < 0, up'[c][p].cid = win'[u][i].id
             PROVE  Owner[c] = u
  BY DEF OwnAsks
<1>1. PICK j \in DOMAIN win[u] : win[u][j].id = win'[u][i].id
  BY OldEntry
<1> QED BY <1>1 DEF OwnAsks

\* A message that the page shows before its answer is at the end, and new.
LEMMA SendAdds ==
  ASSUME Types, Faithful, NEW u \in Users, NEW d \in Seq(Told), NEW m \in Told, m.id = -(asked + 1), m.cid = m.id,
         Put(d, win[u], m) \/ Known(d, win[u], m) \/ Added(d, win[u], m)
  PROVE  /\ Added(d, win[u], m)
         /\ \A i \in DOMAIN win[u] : win[u][i].id # m.id
<1>1. asked \in Nat /\ m.id < 0
  BY TypesAt
<1>2. \A i \in DOMAIN win[u] : win[u][i].id # m.id
  <2> TAKE i \in DOMAIN win[u]
  <2>1. Shows(u, win[u][i]) /\ win[u][i].id \in Int
    BY TypesAt DEF Faithful, FaithWindows
  <2> QED BY <1>1, <2>1 DEF Shows
<1>3. ~Put(d, win[u], m)
  BY <1>1, <1>2 DEF Put
<1>4. ~Known(d, win[u], m)
  BY <1>2 DEF Known, Ids
<1> QED BY <1>2, <1>3, <1>4

\* No page shows an entry that was not yet made.
LEMMA OthersEntries ==
  ASSUME Types, Faithful, NEW u \in Users, NEW i \in DOMAIN win[u]
  PROVE  win[u][i].id # -(asked + 1)
<1>1. asked \in Nat
  BY TypesAt
<1>2. Shows(u, win[u][i]) /\ win[u][i].id \in Int
  BY TypesAt DEF Faithful, FaithWindows
<1> QED BY <1>1, <1>2 DEF Shows

\* Sending a message.
LEMMA OwnSend ==
  ASSUME Types, Types', SocketsKnown, Cids, Faithful, OwnEntries, NEW u \in Users, NEW t \in Texts, SendMessage(u, t)
  PROVE  OwnEntries'
<1>1. PICK c, k, m, r :
           /\ c \in Conns /\ k \in Int /\ m \in Told /\ r \in Requests
           /\ c = conn[u] /\ conn[u] # None /\ k = -(asked + 1) /\ k < 0
           /\ m.id = k /\ m.cid = k /\ m.user = u
           /\ r.kind = "message" /\ r.cid = k
           /\ \A v \in Users : v # u => win'[v] = win[v]
           /\ win'[u] \in Seq(Told)
           /\ Put(win'[u], win[u], m) \/ Known(win'[u], win[u], m) \/ Added(win'[u], win[u], m)
           /\ up'[c] = Append(up[c], r) /\ \A b \in Conns : b # c => up'[b] = up[b]
           /\ rows' = rows
  BY SendAll
<1>2. PICK d : d = win'[u]
  OBVIOUS
<1>3. Added(d, win[u], m) /\ \A i \in DOMAIN win[u] : win[u][i].id # k
  BY <1>1, <1>2, SendAdds
<1>4. PICK e : From(d, win[u], e) /\ \A i \in DOMAIN d : e[i] = 0 <=> i = Len(d)
  BY <1>3 DEF Added
<1>5. d[Len(d)] = m
  BY <1>3 DEF Added
<1>6. \A i \in DOMAIN d : i # Len(d) => e[i] # 0 /\ e[i] \in DOMAIN win[u] /\ d[i] = win[u][e[i]]
  BY <1>4 DEF From
<1>7. OwnOnce'
  <2> SUFFICES ASSUME NEW v \in Users, NEW i \in DOMAIN win'[v], NEW j \in DOMAIN win'[v],
                      win'[v][i].id < 0, win'[v][i].id = win'[v][j].id
               PROVE  i = j
    BY DEF OwnOnce
  <2>1. CASE v # u
    BY <1>1, <2>1 DEF OwnEntries, OwnOnce
  <2>2. CASE v = u /\ (i = Len(d) \/ j = Len(d))
    BY SMTT(40), <1>1, <1>2, <1>3, <1>5, <1>6, <2>2
  <2>3. CASE v = u /\ i # Len(d) /\ j # Len(d)
    <3>1. e[i] # 0 /\ e[j] # 0 /\ e[i] = e[j]
      BY <1>2, <1>6, <2>3 DEF OwnEntries, OwnOnce
    <3>2. Alike(d, win[u], e)
      BY <1>4, FromAlike
    <3>3. PICK w : w = win[u] /\ w \in Seq(Told)
      BY TypesAt
    <3> QED BY <1>1, <1>2, <2>3, <3>1, <3>2, <3>3, AlikeOnce
  <2> QED BY <2>1, <2>2, <2>3
<1>8. OwnRows'
  <2> SUFFICES ASSUME NEW v \in Users, NEW i \in DOMAIN win'[v], NEW q \in DOMAIN rows,
                      win'[v][i].id < 0, rows[q].cid = win'[v][i].id
               PROVE  rows[q].user = v
    BY <1>1 DEF OwnRows
  <2>1. CASE v # u
    BY <1>1, <2>1 DEF OwnEntries, OwnRows
  <2>2. CASE v = u /\ i = Len(d)
    BY <1>1, <1>2, <1>5, <2>2, TypesAt DEF Cids
  <2>3. CASE v = u /\ i # Len(d)
    BY <1>2, <1>6, <2>3 DEF OwnEntries, OwnRows
  <2> QED BY <2>1, <2>2, <2>3
<1>9. OwnAsks'
  <2> SUFFICES ASSUME NEW v \in Users, NEW i \in DOMAIN win'[v], NEW b \in Conns, NEW p \in Asks(b, "message")',
                      win'[v][i].id < 0, up'[b][p].cid = win'[v][i].id
               PROVE  Owner[b] = v
    BY DEF OwnAsks
  <2>0. PICK n \in Nat : up'[c][n] = r /\ (\A x \in DOMAIN up[c] : up'[c][x] = up[c][x])
                         /\ Asks(c, "message")' = Asks(c, "message") \cup {n}
    BY SMTT(40), <1>1, AsksGrow
  <2>1. Owner[c] = u
    BY <1>1, SocketOf
  <2>2. CASE b = c /\ p = n
    <3>1. win'[v][i].id = k
      BY <1>1, <2>0, <2>2
    <3>2. CASE v # u
      <4>1. i \in DOMAIN win[v] /\ win[v][i].id = k
        BY <1>1, <3>1, <3>2
      <4>2. win[v][i].id # -(asked + 1)
        BY <4>1, OthersEntries
      <4> QED BY <1>1, <4>1, <4>2
    <3> QED BY <2>1, <2>2, <3>2
  <2>3. CASE ~(b = c /\ p = n)
    <3>1. p \in Asks(b, "message") /\ up'[b][p] = up[b][p]
      <4>1. CASE b = c
        <5>1. p \in Asks(c, "message")
          BY <2>0, <2>3, <4>1
        <5>2. p \in DOMAIN up[c]
          BY <5>1 DEF Asks
        <5> QED BY <2>0, <4>1, <5>1, <5>2
      <4>2. CASE b # c
        <5>1. up'[b] = up[b]
          BY <1>1, <4>2
        <5> QED BY <5>1 DEF Asks
      <4> QED BY <4>1, <4>2
    <3>2. up[b][p].cid # k
      BY <1>1, <3>1, TypesAt DEF Cids
    <3>3. \E j \in DOMAIN win[v] : win[v][j].id = win'[v][i].id
      BY <1>1, <1>2, <1>5, <1>6, <3>1, <3>2
    <3> QED BY <3>1, <3>3 DEF OwnEntries, OwnAsks
  <2> QED BY <2>2, <2>3
<1> QED BY <1>7, <1>8, <1>9 DEF OwnEntries

\* A message is stored.
LEMMA OwnChat ==
  ASSUME Types, Types', OwnEntries, OldOptimists, NEW c \in Conns, HandleChatMessage(c)
  PROVE  OwnRows'
<1>0. PICK n : n = Len(rows) + 1
  OBVIOUS
<1>1. /\ DOMAIN rows' = DOMAIN rows \cup {n} /\ (\A i \in DOMAIN rows : rows'[i] = rows[i])
      /\ rows'[n] = NewRow(c)
  BY <1>0, ChatDoes
<1>2. \E next : Take(c, "message", next)
  BY DEF HandleChatMessage
<1>3. 1 \in Asks(c, "message")
  BY <1>2, AsksShrink
<1> SUFFICES ASSUME NEW u \in Users, NEW i \in DOMAIN win'[u], NEW r \in DOMAIN rows',
                    win'[u][i].id < 0, rows'[r].cid = win'[u][i].id
             PROVE  rows'[r].user = u
  BY DEF OwnRows
<1>4. PICK j \in DOMAIN win[u] : win[u][j].id = win'[u][i].id
  BY OldEntry
<1>5. CASE r \in DOMAIN rows
  BY <1>1, <1>4, <1>5 DEF OwnEntries, OwnRows
<1>6. CASE r = n
  <2>1. rows'[r].cid = up[c][1].cid /\ rows'[r].user = Owner[c]
    BY <1>1, <1>6 DEF NewRow
  <2> QED BY <1>3, <1>4, <2>1 DEF OwnEntries, OwnAsks
<1> QED BY <1>1, <1>5, <1>6

\* The entries' own step.
LEMMA OwnStep ==
  ASSUME Types, SocketsKnown, Cids, Faithful, OwnEntries, FeedNext
  PROVE  OwnEntries'
<1>0. Types'
  BY TypesStep
<1>1. CASE \E u \in Users, t \in Texts : SendMessage(u, t)
  BY <1>0, <1>1, OwnSend
<1>2. CASE OldOptimists
  <2>1. OwnOnce'
    BY <1>0, <1>2, OwnOnceKept DEF OwnEntries
  <2>2. OwnRows'
    <3>1. CASE SameRows
      <4>1. RowsGrow /\ DOMAIN rows' = DOMAIN rows
        BY <3>1 DEF SameRows
      <4> QED BY <1>0, <1>2, <4>1, OwnRowsKept DEF OwnEntries
    <3>2. CASE \E c \in Conns : HandleChatMessage(c)
      BY <1>0, <1>2, <3>2, OwnChat
    <3> QED BY <3>1, <3>2, RowSteps
  <2>3. OwnAsks'
    <3>1. CASE \E u \in Users, r \in Requests : AskAbout(u, r) /\ r.kind \in {"edit", "delete", "load"}
      <4>1. PICK u \in Users, r \in Requests : AskAbout(u, r) /\ r.kind \in {"edit", "delete", "load"}
        BY <3>1
      <4>2. PICK c : c = conn[u]
        OBVIOUS
      <4>3. c \in Conns /\ up'[c] = Append(up[c], r) /\ \A b \in Conns : b # c => up'[b] = up[b]
        BY <4>1, <4>2, AskDoes
      <4>4. \A b \in Conns : /\ Asks(b, "message")' = Asks(b, "message")
                             /\ \A p \in Asks(b, "message") : up'[b][p] = up[b][p]
        BY <4>1, <4>3, AsksNoMessage
      <4>5. \A b \in Conns : \A p \in Asks(b, "message")' :
               \E q \in Asks(b, "message") : up'[b][p].cid = up[b][q].cid
        BY <4>4
      <4> QED BY <1>0, <1>2, <4>5, OwnAsksKept DEF OwnEntries
    <3>2. CASE \E sh : Fewer(sh)
      <4>1. PICK sh : Fewer(sh)
        BY <3>2
      <4>2. \A b \in Conns : \A p \in Asks(b, "message")' :
               \E q \in Asks(b, "message") : up'[b][p].cid = up[b][q].cid
        <5> SUFFICES ASSUME NEW b \in Conns, NEW p \in Asks(b, "message")'
                     PROVE  \E q \in Asks(b, "message") : up'[b][p].cid = up[b][q].cid
          OBVIOUS
        <5>1. p \in DOMAIN up'[b] /\ up'[b][p].kind = "message"
          BY DEF Asks
        <5>2. p + sh[b] \in DOMAIN up[b] /\ up'[b][p] = up[b][p + sh[b]]
          BY <4>1, <5>1 DEF Fewer
        <5> QED BY <5>1, <5>2 DEF Asks
      <4> QED BY <1>0, <1>2, <4>2, OwnAsksKept DEF OwnEntries
    <3>3. CASE \E u \in Users, t \in Texts : SendMessage(u, t)
      BY <1>1, <3>3 DEF OwnEntries
    <3> QED BY <3>1, <3>2, <3>3, UpSteps
  <2> QED BY <2>1, <2>2, <2>3 DEF OwnEntries
<1> QED BY <1>1, <1>2, OptimistSteps


-----------------------------------------------------------------------------
(***************************************************************************)
(* Entries wait for their row                                              *)
(***************************************************************************)

\* What an entry waits for is not lost.
Awaits(c) ==
  /\ read'[c] = read[c]
  /\ \A p \in Asks(c, "message") : \E q \in Asks(c, "message")' : up'[c][q].cid = up[c][p].cid
  /\ \A r \in DOMAIN rows : Bound(c, r) => Bound(c, r)'

\* What an entry waits for stays if nothing of it is taken.
LEMMA PendingKept ==
  ASSUME RowsGrow, NEW c \in Conns, NEW k, Pending(c, k), Awaits(c)
  PROVE  Pending(c, k)'
BY DEF Pending, Awaits, RowsGrow

\* A page's entries wait if they did.
LEMMA OptimistsKept ==
  ASSUME Types, Types', OldOptimists, Optimists,
         \A c \in Conns : Attached(c)' /\ Owner[c] \notin lossy' =>
            /\ Attached(c) /\ Owner[c] \notin lossy
            /\ \A k \in Ids(win[Owner[c]]) : k < 0 /\ k \in Ids(win'[Owner[c]]) /\ Pending(c, k) => Pending(c, k)'
  PROVE  Optimists'
<1> SUFFICES ASSUME NEW c \in Conns, Attached(c)', Owner[c] \notin lossy', NEW k \in Ids(win'[Owner[c]]), k < 0
             PROVE  Pending(c, k)'
  BY DEF Optimists
<1>1. PICK i \in DOMAIN win'[Owner[c]] : win'[Owner[c]][i].id = k
  BY DEF Ids
<1>2. PICK u \in Users : u = Owner[c]
  BY TypesAt
<1>3. \E j \in DOMAIN win[u] : win[u][j].id = win'[u][i].id
  BY <1>1, <1>2, OldEntry
<1>4. k \in Ids(win[Owner[c]])
  BY <1>1, <1>2, <1>3 DEF Ids
<1> QED BY <1>4 DEF Optimists

\* Frames that are added take nothing away.
LEMMA DownKeeps ==
  ASSUME Types, NEW c \in Conns, NEW f \in Frames, down'[c] = down[c] \/ down'[c] = Append(down[c], f), NEW kind
  PROVE  \A p \in At(c, kind) : p \in At(c, kind)' /\ down'[c][p] = down[c][p]
<1>1. CASE down'[c] = down[c]
  BY <1>1 DEF At
<1>2. CASE down'[c] = Append(down[c], f)
  <2>1. PICK n \in Nat : /\ \A p \in DOMAIN down[c] : down'[c][p] = down[c][p]
                         /\ At(c, kind)' = At(c, kind) \cup (IF f.kind = kind THEN {n} ELSE {})
    BY <1>2, DownGrows
  <2> QED BY <2>1 DEF At
<1> QED BY <1>1, <1>2

\* Requests that are taken, but for the first.
LEMMA AsksKeep ==
  ASSUME Types, NEW c \in Conns, NEW kind, NEW next, Take(c, kind, next), kind # "message"
  PROVE  \A b \in Conns : \A p \in Asks(b, "message") : \E q \in Asks(b, "message")' : up'[b][q].cid = up[b][p].cid
<1>1. ASSUME NEW p \in Asks(c, "message")
      PROVE  \E q \in Asks(c, "message")' : up'[c][q].cid = up[c][p].cid
  <2>1. p # 1 /\ p \in DOMAIN up[c] /\ up[c][p].kind = "message"
    BY TakeAt DEF Asks
  <2>2. p - 1 \in DOMAIN up'[c] /\ up'[c][p - 1] = up[c][p]
    BY <2>1, AsksShrink
  <2> QED BY <2>1, <2>2 DEF Asks
<1>2. \A b \in Conns : b # c => up'[b] = up[b]
  BY TakeAt
<1>3. \A b \in Conns : b # c => Asks(b, "message")' = Asks(b, "message")
  BY <1>2 DEF Asks
<1> QED BY <1>1, <1>2, <1>3

\* Steps of the server that deliver and take nothing an entry waits for.
LEMMA AwaitsKept ==
  ASSUME Types, NEW c \in Conns, NEW f \in Frames, down'[c] = down[c] \/ down'[c] = Append(down[c], f),
         read'[c] = read[c], entered'[c] = entered[c],
         \A p \in Asks(c, "message") : \E q \in Asks(c, "message")' : up'[c][q].cid = up[c][p].cid,
         Fans(c, "message") => job'[c] = job[c], c \in ToSet(registerQ) => c \in ToSet(registerQ')
  PROVE  Awaits(c)
<1>1. \A p \in At(c, "message") : p \in At(c, "message")' /\ down'[c][p] = down[c][p]
  BY DownKeeps
<1>2. ASSUME NEW r \in DOMAIN rows, Bound(c, r)
      PROVE  Bound(c, r)'
  <2>1. CASE Fans(c, "message") /\ job[c].frame.message.id = r
    BY <2>1 DEF Bound, Fans
  <2>2. CASE \E p \in At(c, "message") : down[c][p].message.id = r
    BY <1>1, <2>2 DEF Bound
  <2>3. CASE c \in ToSet(registerQ) \/ r <= entered[c]
    BY <2>3 DEF Bound
  <2> QED BY <1>2, <2>1, <2>2, <2>3 DEF Bound
<1> QED BY <1>2 DEF Awaits

\* Steps that leave the windows.
LEMMA OptimistsStill ==
  ASSUME Types, Optimists, RowsGrow, win' = win, conn' = conn, lossy \subseteq lossy',
         \A c \in Conns : Attached(c) /\ Owner[c] \notin lossy' =>
           Awaits(c) \/ \A k \in Ids(win[Owner[c]]) : ~(k < 0)
  PROVE  Optimists'
<1> SUFFICES ASSUME NEW c \in Conns, Attached(c)', Owner[c] \notin lossy', NEW k \in Ids(win'[Owner[c]]), k < 0
             PROVE  Pending(c, k)'
  BY DEF Optimists
<1>1. Attached(c) /\ Owner[c] \notin lossy /\ k \in Ids(win[Owner[c]])
  BY DEF Attached
<1>2. Pending(c, k) /\ Awaits(c)
  BY <1>1 DEF Optimists
<1> QED BY <1>2, PendingKept

\* Requests that stay.
LEMMA AsksStay ==
  ASSUME up' = up
  PROVE  \A c \in Conns : \A p \in Asks(c, "message") : \E q \in Asks(c, "message")' : up'[c][q].cid = up[c][p].cid
BY DEF Asks

\* A goroutine that takes a request was fanning nothing.
LEMMA IdleFans ==
  ASSUME Types, NEW c \in Conns, job[c] = Idle \/ job[c].at \in {"greeting", "answering", "publishing"}
  PROVE  \A kind : ~Fans(c, kind)
BY DEF Fans, Idle

\* The requests that are taken, but for messages.
LEMMA OptimistsTakes ==
  ASSUME Types, SocketsKnown, Joins, Faithful, Optimists, FeedNext, NEW c \in Conns,
         NEW kind, NEW next, Take(c, kind, next), kind # "message",
         win' = win, conn' = conn, lossy \subseteq lossy', down' = down, read' = read, entered' = entered,
         ToSet(registerQ) \subseteq ToSet(registerQ')
  PROVE  Optimists'
<1>1. RowsGrow
  BY StoreGrows
<1>2. \A b \in Conns : \A p \in Asks(b, "message") : \E q \in Asks(b, "message")' : up'[b][q].cid = up[b][p].cid
  BY AsksKeep
<1>3. ASSUME NEW b \in Conns
      PROVE  Awaits(b)
  <2>1. Fans(b, "message") => job'[b] = job[b]
    BY TakeAt, IdleFans
  <2>2. [kind |-> "delete", id |-> 0] \in Frames
    BY FramesMade
  <2> QED BY <1>2, <2>1, <2>2, AwaitsKept
<1> QED BY <1>1, <1>3, OptimistsStill

\* A message is stored: its entry waits for the fan-out.
LEMMA OptimistsChat ==
  ASSUME Types, SocketsKnown, Joins, Faithful, Optimists, FeedNext, NEW c \in Conns, HandleChatMessage(c)
  PROVE  Optimists'
<1>0. PICK n : n = Len(rows) + 1
  OBVIOUS
<1> DEFINE m == [id |-> n, cid |-> up[c][1].cid, user |-> Owner[c], text |-> up[c][1].text]
           next == [at |-> "fanning", frame |-> [kind |-> "message", message |-> m]]
<1>1. /\ Take(c, "message", next) /\ DOMAIN rows' = DOMAIN rows \cup {n} /\ n \in Nat
      /\ rows'[n] = NewRow(c) /\ RowsGrow
  BY <1>0, ChatDoes
<1>9. next.at = "fanning" /\ next.frame.kind = "message" /\ next.frame.message.id = n
  OBVIOUS
<1> HIDE DEF m, next
<1>2. /\ UNCHANGED <<registerQ, read, entered, down>>
      /\ UNCHANGED <<conn, win, lossy>>
  BY StoreKeeps
<1>3. /\ job'[c] = next /\ \A b \in Conns : b # c => job'[b] = job[b] /\ up'[b] = up[b]
      /\ job[c] = Idle
  BY <1>1, TakeAt
<1>4. \A r \in DOMAIN rows, b \in Conns : Bound(b, r) => Bound(b, r)'
  <2> SUFFICES ASSUME NEW r \in DOMAIN rows, NEW b \in Conns, Bound(b, r)
               PROVE  Bound(b, r)'
    OBVIOUS
  <2>1. ~Fans(c, "message")
    BY <1>3, IdleFans
  <2>2. b = c => ~Fans(b, "message")
    BY <2>1
  <2>3. Fans(b, "message") => Fans(b, "message")' /\ job'[b] = job[b]
    BY <1>3, <2>2 DEF Fans
  <2>4. At(b, "message")' = At(b, "message")
    BY <1>2 DEF At
  <2> QED BY <1>2, <2>3, <2>4 DEF Bound
<1>5. Bound(c, n)'
  <2>1. job'[c].at = "fanning" /\ job'[c].frame.kind = "message" /\ job'[c].frame.message.id = n
    BY <1>3, <1>9
  <2> QED BY <2>1 DEF Bound, Fans
<1> SUFFICES ASSUME NEW b \in Conns, Attached(b)', Owner[b] \notin lossy', NEW k \in Ids(win'[Owner[b]]), k < 0
             PROVE  Pending(b, k)'
  BY DEF Optimists
<1>6. Pending(b, k)
  BY <1>2 DEF Attached, Optimists
<1>7. CASE \E r \in DOMAIN rows : rows[r].cid = k /\ read[b] < r /\ Bound(b, r)
  BY <1>1, <1>2, <1>4, <1>7 DEF Pending, RowsGrow
<1>8. CASE \E p \in Asks(b, "message") : up[b][p].cid = k
  <2>1. PICK p \in Asks(b, "message") : up[b][p].cid = k
    BY <1>8
  <2>2. CASE b = c /\ p = 1
    <3>1. rows'[n].cid = k
      BY <1>1, <2>1, <2>2 DEF NewRow
    <3>2. read'[b] < n
      BY <1>0, <1>2, TypesAt DEF Faithful, FaithCounts
    <3> QED BY <1>1, <1>5, <2>2, <3>1, <3>2 DEF Pending
  <2>3. CASE b = c /\ p # 1
    <3>1. p \in DOMAIN up[c] /\ up[c][p].kind = "message"
      BY <2>1, <2>3 DEF Asks
    <3>2. p - 1 \in DOMAIN up'[c] /\ up'[c][p - 1] = up[c][p]
      BY <1>1, <2>3, <3>1, AsksShrink
    <3> QED BY <2>1, <2>3, <3>1, <3>2 DEF Asks, Pending
  <2>4. CASE b # c
    <3>1. up'[b] = up[b]
      BY <1>3, <2>4
    <3> QED BY <2>1, <3>1 DEF Asks, Pending
  <2> QED BY <2>2, <2>3, <2>4
<1> QED BY <1>6, <1>7, <1>8 DEF Pending

\* A fan-out reaches a page that is in the room; one that is not has the message in the gap.
LEMMA OptimistsFan ==
  ASSUME Types, SocketsKnown, Joins, Faithful, Optimists, FeedNext, NEW c \in Conns, BroadcastToRoom(c)
  PROVE  Optimists'
<1>0. PICK f : f = job[c].frame
  OBVIOUS
<1>1. /\ job[c].at = "fanning" /\ f \in Frames
      /\ \A b \in Conns : b # c => job'[b] = job[b]
      /\ \A b \in Conns : down'[b] = IF b \in room /\ Attached(b) THEN Append(down[b], f) ELSE down[b]
      /\ UNCHANGED <<rows, room, registerQ, broadcastQ, read, entered, had, up>>
      /\ UNCHANGED <<conn, used, joined, loaded, win, asked, full, guessed, lossy>>
  BY <1>0, FanDoes
<1>2. RowsGrow
  BY StoreGrows
<1>3. \A b \in Conns : \A p \in Asks(b, "message") : \E q \in Asks(b, "message")' : up'[b][q].cid = up[b][p].cid
  BY <1>1, AsksStay
<1>4. ASSUME NEW b \in Conns, Attached(b), Owner[b] \notin lossy
      PROVE  Awaits(b)
  <2>1. down'[b] = down[b] \/ down'[b] = Append(down[b], f)
    BY <1>1
  <2>2. CASE b # c \/ ~Fans(c, "message")
    BY <1>1, <1>3, <2>1, <2>2, AwaitsKept
  <2>3. CASE b = c /\ Fans(c, "message") /\ c \notin room
    <3>1. Asks(c, "join") = {}
      BY <1>1, BusyJoined
    <3>2. c \in ToSet(registerQ)
      BY <1>4, <2>3, <3>1 DEF Joins
    <3>3. c \in ToSet(registerQ')
      BY <1>1, <3>2
    <3>4. \A r \in DOMAIN rows : Bound(b, r)'
      BY <2>3, <3>3 DEF Bound
    <3> QED BY <1>1, <1>3, <3>4 DEF Awaits
  <2>4. CASE b = c /\ Fans(c, "message") /\ c \in room
    <3>1. down'[c] = Append(down[c], f)
      BY <1>1, <1>4, <2>4
    <3>2. PICK n \in Nat : At(c, "message")' = At(c, "message") \cup {n} /\ down'[c][n] = f
      <4>1. f.kind = "message"
        BY <1>0, <2>4 DEF Fans
      <4> QED BY <1>1, <3>1, <4>1, DownGrows
    <3>3. \A p \in At(c, "message") : p \in At(c, "message")' /\ down'[c][p] = down[c][p]
      BY <1>1, <3>1, DownKeeps
    <3>4. ASSUME NEW r \in DOMAIN rows, Bound(b, r)
          PROVE  Bound(b, r)'
      <4>1. CASE Fans(b, "message") /\ job[b].frame.message.id = r
        BY <1>0, <2>4, <3>2, <4>1 DEF Bound
      <4>2. CASE \E p \in At(b, "message") : down[b][p].message.id = r
        BY <2>4, <3>3, <4>2 DEF Bound
      <4>3. CASE b \in ToSet(registerQ) \/ r <= entered[b]
        BY <1>1, <4>3 DEF Bound
      <4> QED BY <3>4, <4>1, <4>2, <4>3 DEF Bound
    <3> QED BY <1>1, <1>3, <3>4 DEF Awaits
  <2> QED BY <2>2, <2>3, <2>4
<1> QED BY <1>1, <1>2, <1>4, OptimistsStill

\* The other steps of a connection's goroutine.
LEMMA OptimistsConn ==
  ASSUME Types, SocketsKnown, Joins, Faithful, Optimists, FeedNext, NEW c \in Conns
  PROVE  /\ HandleJoin(c) => Optimists'
         /\ ReadHistory(c) => Optimists'
         /\ HandleLoadHistory(c) => Optimists'
         /\ Answer(c) => Optimists'
         /\ HandleMessageEdit(c) \/ HandleMessageDelete(c) => Optimists'
         /\ Refuse(c) => Optimists'
         /\ Publish(c) => Optimists'
<1>0. RowsGrow
  BY StoreGrows
<1>1. ASSUME HandleJoin(c)
      PROVE  Optimists'
  <2>1. /\ Take(c, "join", [at |-> "greeting"]) /\ registerQ' = Append(registerQ, c)
        /\ UNCHANGED <<rows, room, broadcastQ, read, entered, had>>
        /\ UNCHANGED <<down, conn, used, joined, loaded, win, asked, full, guessed, lossy>>
    BY <1>1, JoinDoes
  <2>2. ToSet(registerQ) \subseteq ToSet(registerQ')
    BY <2>1, SetOf, TypesAt
  <2> QED BY <2>1, <2>2, OptimistsTakes
<1>2. ASSUME ReadHistory(c)
      PROVE  Optimists'
  <2>1. /\ job[c].at = "greeting"
        /\ \A b \in Conns : b # c => job'[b] = job[b] /\ read'[b] = read[b]
        /\ UNCHANGED <<rows, room, registerQ, broadcastQ, entered, up, down>>
        /\ UNCHANGED <<conn, used, joined, loaded, win, asked, full, guessed, lossy>>
    BY <1>2, ReadDoes
  <2>2. \A b \in Conns : \A p \in Asks(b, "message") : \E q \in Asks(b, "message")' : up'[b][q].cid = up[b][p].cid
    BY <2>1, AsksStay
  <2>3. [kind |-> "delete", id |-> 0] \in Frames
    BY FramesMade
  <2>4. ASSUME NEW b \in Conns, b # c
        PROVE  Awaits(b)
    BY <2>1, <2>2, <2>3, <2>4, AwaitsKept
  <2>5. ASSUME Attached(c), Owner[c] \notin lossy'
        PROVE  \A k \in Ids(win[Owner[c]]) : ~(k < 0)
    <3>1. ~joined[Owner[c]] /\ Owner[c] \notin lossy
      BY <2>1, <2>5 DEF Joins, Joining
    <3>2. \A k \in Ids(win[Owner[c]]) : k > 0
      BY <2>5, <3>1 DEF Joins
    <3>3. Ids(win[Owner[c]]) \subseteq Int
      BY TypesAt, IdsInt
    <3> QED BY <3>2, <3>3
  <2> QED BY <1>0, <2>1, <2>4, <2>5, OptimistsStill
<1>3. ASSUME HandleLoadHistory(c)
      PROVE  Optimists'
  <2>1. PICK next : Take(c, "load", next)
    BY <1>3, LoadDoes
  <2>2. /\ UNCHANGED <<rows, room, registerQ, broadcastQ, read, entered, down>>
        /\ UNCHANGED <<conn, used, joined, loaded, win, asked, full, guessed, lossy>>
    BY <1>3, LoadDoes
  <2> QED BY <2>1, <2>2, OptimistsTakes
<1>4. ASSUME Answer(c)
      PROVE  Optimists'
  <2>0. PICK f : f = job[c].frame
    OBVIOUS
  <2>1. /\ job[c].at = "answering" /\ f \in Frames
        /\ job'[c] = Idle /\ \A b \in Conns : b # c => job'[b] = job[b]
        /\ down'[c] = IF Attached(c) THEN Append(down[c], f) ELSE down[c]
        /\ \A b \in Conns : b # c => down'[b] = down[b]
        /\ UNCHANGED <<rows, room, registerQ, broadcastQ, read, entered, had, up>>
        /\ UNCHANGED <<conn, used, joined, loaded, win, asked, full, guessed, lossy>>
    BY <1>4, <2>0, AnswerDoes
  <2>2. \A b \in Conns : \A p \in Asks(b, "message") : \E q \in Asks(b, "message")' : up'[b][q].cid = up[b][p].cid
    BY <2>1, AsksStay
  <2>3. ASSUME NEW b \in Conns
        PROVE  Awaits(b)
    <3>1. down'[b] = down[b] \/ down'[b] = Append(down[b], f)
      BY <2>1
    <3>2. Fans(b, "message") => job'[b] = job[b]
      BY <2>1, IdleFans
    <3> QED BY <2>1, <2>2, <3>1, <3>2, AwaitsKept
  <2> QED BY <1>0, <2>1, <2>3, OptimistsStill
<1>5. ASSUME HandleMessageEdit(c) \/ HandleMessageDelete(c)
      PROVE  Optimists'
  <2>1. PICK kind, next : kind # "message" /\ Take(c, kind, next)
    BY <1>5, EditDoes, DeletionDoes
  <2>2. /\ UNCHANGED <<room, registerQ, broadcastQ, read, entered, had, down>>
        /\ UNCHANGED <<conn, used, joined, loaded, win, asked, full, guessed, lossy>>
    BY <1>5, StoreKeeps
  <2> QED BY <2>1, <2>2, OptimistsTakes
<1>6. ASSUME Refuse(c)
      PROVE  Optimists'
  <2>1. /\ lossy' = lossy \cup {Owner[c]}
        /\ UNCHANGED <<rows, room, registerQ, broadcastQ, read, entered, had, down>>
        /\ UNCHANGED <<conn, used, joined, loaded, win, asked, full, guessed>>
        /\ \A b \in Conns : job'[b] = job[b]
    BY <1>6, RefuseDoes
  <2>2. PICK kind : Take(c, kind, Idle)
    BY <1>6, RefuseDoes
  <2>3. [kind |-> "delete", id |-> 0] \in Frames
    BY FramesMade
  <2>4. ASSUME NEW b \in Conns, Owner[b] \notin lossy'
        PROVE  Awaits(b)
    <3>1. b # c /\ up'[b] = up[b]
      BY <2>1, <2>2, <2>4, TakeAt
    <3>2. \A p \in Asks(b, "message") : \E q \in Asks(b, "message")' : up'[b][q].cid = up[b][p].cid
      BY <3>1 DEF Asks
    <3> QED BY <2>1, <2>3, <3>2, AwaitsKept
  <2> QED BY <1>0, <2>1, <2>4, OptimistsStill
<1>7. ASSUME Publish(c)
      PROVE  Optimists'
  <2>1. /\ job[c].at = "publishing"
        /\ \A b \in Conns : b # c => job'[b] = job[b]
        /\ lossy' = lossy \/ lossy' = Users
        /\ UNCHANGED <<rows, room, registerQ, read, entered, had, up, down>>
        /\ UNCHANGED <<conn, used, joined, loaded, win, asked, full, guessed>>
    BY <1>7, PublishDoes
  <2>2. \A b \in Conns : \A p \in Asks(b, "message") : \E q \in Asks(b, "message")' : up'[b][q].cid = up[b][p].cid
    BY <2>1, AsksStay
  <2>3. [kind |-> "delete", id |-> 0] \in Frames
    BY FramesMade
  <2>4. ASSUME NEW b \in Conns
        PROVE  Awaits(b)
    <3>1. Fans(b, "message") => job'[b] = job[b]
      BY <2>1, IdleFans
    <3> QED BY <2>1, <2>2, <2>3, <3>1, AwaitsKept
  <2>5. lossy \subseteq lossy'
    BY <2>1 DEF Types
  <2> QED BY <1>0, <2>1, <2>4, <2>5, OptimistsStill
<1> QED BY <1>1, <1>2, <1>3, <1>4, <1>5, <1>6, <1>7

\* The steps of Run.
LEMMA OptimistsHub ==
  ASSUME Types, SocketsKnown, Joins, Faithful, Optimists, FeedNext
  PROVE  /\ HubRegister => Optimists'
         /\ HubBroadcast => Optimists'
<1>0. RowsGrow
  BY StoreGrows
<1>1. ASSUME HubRegister
      PROVE  Optimists'
  <2>0. PICK c : c = Head(registerQ)
    OBVIOUS
  <2>1. /\ c \in Conns /\ ToSet(registerQ) = {c} \cup ToSet(registerQ')
        /\ entered'[c] = Len(rows) /\ \A d \in Conns : d # c => entered'[d] = entered[d]
        /\ UNCHANGED <<rows, broadcastQ, job, read, had, up, down>>
        /\ UNCHANGED <<conn, used, joined, loaded, win, asked, full, guessed, lossy>>
    BY <1>1, <2>0, RegisterDoes
  <2>2. \A b \in Conns : \A p \in Asks(b, "message") : \E q \in Asks(b, "message")' : up'[b][q].cid = up[b][p].cid
    BY <2>1, AsksStay
  <2>3. [kind |-> "delete", id |-> 0] \in Frames
    BY FramesMade
  <2>4. ASSUME NEW b \in Conns
        PROVE  Awaits(b)
    <3>1. CASE b # c
      BY <2>1, <2>2, <2>3, <3>1, AwaitsKept
    <3>2. CASE b = c
      <4>1. \A r \in DOMAIN rows : r <= entered'[c]
        BY <2>1, TypesAt
      <4> QED BY <2>1, <2>2, <3>2, <4>1 DEF Awaits, Bound
    <3> QED BY <3>1, <3>2
  <2> QED BY <1>0, <2>1, <2>4, OptimistsStill
<1>2. ASSUME HubBroadcast
      PROVE  Optimists'
  <2>0. PICK f : f = Head(broadcastQ)
    OBVIOUS
  <2>1. /\ f \in Frames
        /\ \A b \in Conns : down'[b] = IF b \in room /\ Attached(b) THEN Append(down[b], f) ELSE down[b]
        /\ UNCHANGED <<rows, room, registerQ, job, read, entered, had, up>>
        /\ UNCHANGED <<conn, used, joined, loaded, win, asked, full, guessed, lossy>>
    BY <1>2, <2>0, HubDoes
  <2>2. \A b \in Conns : \A p \in Asks(b, "message") : \E q \in Asks(b, "message")' : up'[b][q].cid = up[b][p].cid
    BY <2>1, AsksStay
  <2>4. ASSUME NEW b \in Conns
        PROVE  Awaits(b)
    <3>1. down'[b] = down[b] \/ down'[b] = Append(down[b], f)
      BY <2>1
    <3> QED BY <2>1, <2>2, <3>1, AwaitsKept
  <2> QED BY <1>0, <2>1, <2>4, OptimistsStill
<1> QED BY <1>1, <1>2

\* What an entry waits for, if the server's state and the frames of the connection are the same.
LEMMA PendingSame ==
  ASSUME NEW c \in Conns, NEW k, Pending(c, k),
         UNCHANGED <<rows, registerQ, job, read, entered>>, down'[c] = down[c],
         \A p \in Asks(c, "message") : \E q \in Asks(c, "message")' : up'[c][q].cid = up[c][p].cid
  PROVE  Pending(c, k)'
<1>1. At(c, "message")' = At(c, "message")
  BY DEF At
<1>2. \A r \in DOMAIN rows : Bound(c, r) => Bound(c, r)'
  BY <1>1 DEF Bound, Fans
<1> QED BY <1>2 DEF Pending

\* A request that is added.
LEMMA AsksAdd ==
  ASSUME Types, NEW c \in Conns, NEW r \in Requests, up'[c] = Append(up[c], r)
  PROVE  \A p \in Asks(c, "message") : \E q \in Asks(c, "message")' : up'[c][q].cid = up[c][p].cid
<1>1. \A p \in DOMAIN up[c] : up'[c][p] = up[c][p] /\ p \in DOMAIN up'[c]
  BY AppendAt, TypesAt
<1> QED BY <1>1 DEF Asks

\* A request more takes none away.
LEMMA AsksAdded ==
  ASSUME Types, NEW c \in Conns, NEW r \in Requests, up'[c] = Append(up[c], r), r.kind = "message"
  PROVE  \E q \in Asks(c, "message")' : up'[c][q].cid = r.cid
<1>1. PICK n \in Nat : n \in DOMAIN up'[c] /\ up'[c][n] = r
  BY AsksGrow
<1> QED BY <1>1 DEF Asks

\* The page's echo takes the place of the entry it is for.
LEMMA EchoSettles ==
  ASSUME NEW w \in Seq(Told), NEW d \in Seq(Told), NEW m \in Told, m.id > 0, m.cid # 0, NEW k, k = m.cid, k < 0,
         \A i, j \in DOMAIN w : w[i].id < 0 /\ w[i].id = w[j].id => i = j,
         Put(d, w, m) \/ Known(d, w, m) \/ Added(d, w, m)
  PROVE  k \notin Ids(d) \/ k \notin Ids(w)
<1> SUFFICES ASSUME k \in Ids(w), k \in Ids(d)
             PROVE  FALSE
  OBVIOUS
<1>1. ~Unasked(w, m)
  BY DEF Unasked, Ids
<1>2. PICK at \in DOMAIN w : w[at].id = k /\ d = [w EXCEPT ![at] = m]
  BY <1>1 DEF Put, Known, Added
<1>3. DOMAIN d = DOMAIN w /\ d[at] = m /\ \A i \in DOMAIN w : i # at => d[i] = w[i]
  BY <1>2, InPlace
<1>4. PICK i \in DOMAIN d : d[i].id = k
  BY DEF Ids
<1>5. m.id \in Int /\ m.id # k
  BY DEF Told
<1>6. i # at /\ w[i].id = k
  BY <1>3, <1>4, <1>5
<1> QED BY <1>2, <1>3, <1>4, <1>6

\* A page handles a frame.
LEMMA OptimistsHandle ==
  ASSUME Types, SocketsKnown, Joins, Faithful, OwnEntries, Optimists, FeedNext, NEW u \in Users, Handle(u), OldOptimists
  PROVE  Optimists'
<1>0. PICK c, f : c = conn[u] /\ f = down[c][1]
  OBVIOUS
<1>1. /\ c \in Conns /\ 1 \in DOMAIN down[c] /\ f \in Frames /\ down[c] # <<>>
      /\ down'[c] = Tail(down[c]) /\ \A b \in Conns : b # c => down'[b] = down[b]
      /\ \A v \in Users : v # u => win'[v] = win[v]
      /\ Treats(win'[u], win[u], f, u)
  BY <1>0, HandleDoes
<1>2. /\ UNCHANGED <<rows, room, registerQ, broadcastQ, job, read, entered, had>>
      /\ UNCHANGED <<up, conn, used, asked, lossy>>
  BY HandleKeeps
<1>3. Types'
  BY TypesStep
<1>4. \A b \in Conns : \A p \in Asks(b, "message") : \E q \in Asks(b, "message")' : up'[b][q].cid = up[b][p].cid
  BY <1>2, AsksStay
<1>5. ASSUME NEW b \in Conns, b # c, NEW k, Pending(b, k)
      PROVE  Pending(b, k)'
  BY <1>1, <1>2, <1>4, <1>5, PendingSame
<1>6. Owner[c] = u
  BY <1>0, <1>1, SocketOf, TypesAt, FeedConstants
<1>7. ASSUME NEW k \in Ids(win[u]), k < 0, k \in Ids(win'[u]), Pending(c, k)
      PROVE  Pending(c, k)'
  <2>1. CASE \E p \in Asks(c, "message") : up[c][p].cid = k
    <3>1. \E q \in Asks(c, "message")' : up'[c][q].cid = k
      BY <1>1, <1>4, <2>1
    <3> QED BY <3>1 DEF Pending
  <2>2. CASE \E r \in DOMAIN rows : rows[r].cid = k /\ read[c] < r /\ Bound(c, r)
    <3>1. PICK r \in DOMAIN rows : rows[r].cid = k /\ read[c] < r /\ Bound(c, r)
      BY <2>2
    <3>2. Bound(c, r)'
      <4>1. CASE \E p \in At(c, "message") : down[c][p].message.id = r
        <5>1. PICK p \in At(c, "message") : down[c][p].message.id = r
          BY <4>1
        <5>2. p # 1
          <6> SUFFICES ASSUME p = 1
                       PROVE  FALSE
            OBVIOUS
          <6>1. f.kind = "message" /\ f.message.id = r
            BY <1>0, <5>1 DEF At
          <6>2. /\ f.message \in Told /\ f.message.id > 0
                /\ f.message.cid = rows[f.message.id].cid /\ f.message.cid # 0
            BY <1>0, <1>1, <6>1, ToldIds
          <6>3. PICK m : m = f.message
            OBVIOUS
          <6>4. PICK d, w : d = win'[u] /\ w = win[u]
            OBVIOUS
          <6>5. w \in Seq(Told) /\ d \in Seq(Told)
            BY <1>3, <6>4, TypesAt, WindowAfter
          <6>6. \A i, j \in DOMAIN w : w[i].id < 0 /\ w[i].id = w[j].id => i = j
            BY <6>4 DEF OwnEntries, OwnOnce
          <6>7. Put(d, w, m) \/ Known(d, w, m) \/ Added(d, w, m)
            BY <1>1, <6>1, <6>3, <6>4 DEF Treats
          <6>8. m.cid = k /\ m.id > 0 /\ m \in Told /\ m.cid # 0
            BY <3>1, <6>1, <6>2, <6>3
          <6>9. k \notin Ids(d) \/ k \notin Ids(w)
            BY <1>7, <6>5, <6>6, <6>7, <6>8, EchoSettles
          <6> QED BY <1>7, <6>4, <6>9
        <5>3. p \in Nat /\ p - 1 \in At(c, "message")' /\ down'[c][p - 1] = down[c][p]
          <6>1. p \in DOMAIN down[c] /\ down[c][p].kind = "message"
            BY <5>1 DEF At
          <6>2. p \in Nat /\ p - 1 \in DOMAIN down'[c] /\ down'[c][p - 1] = down[c][p]
            BY <1>1, <5>2, <6>1, DownShrinks
          <6> QED BY <6>1, <6>2 DEF At
        <5> QED BY <5>1, <5>3 DEF Bound
      <4>2. CASE ~\E p \in At(c, "message") : down[c][p].message.id = r
        BY <1>2, <3>1, <4>2 DEF Bound, Fans
      <4> QED BY <4>1, <4>2
    <3> QED BY <1>2, <3>1, <3>2 DEF Pending
  <2> QED BY <1>7, <2>1, <2>2 DEF Pending
<1>8. ASSUME NEW b \in Conns, Attached(b)', Owner[b] \notin lossy'
      PROVE  /\ Attached(b) /\ Owner[b] \notin lossy
             /\ \A k \in Ids(win[Owner[b]]) : k < 0 /\ k \in Ids(win'[Owner[b]]) /\ Pending(b, k) => Pending(b, k)'
  BY <1>2, <1>5, <1>6, <1>7, <1>8 DEF Attached
<1> QED BY <1>3, <1>8, OptimistsKept

\* The steps of a page.
LEMMA OptimistsPage ==
  ASSUME Types, SocketsKnown, Joins, Cids, Faithful, OwnEntries, Optimists, FeedNext, NEW u \in Users
  PROVE  /\ \A c \in Conns : OpenSocket(u, c) => Optimists'
         /\ LoseSocket(u) => Optimists'
         /\ \A t \in Texts : SendMessage(u, t) => Optimists'
         /\ \A r \in Requests : AskAbout(u, r) => Optimists'
<1>1. ASSUME NEW c \in Conns, OpenSocket(u, c)
      PROVE  Optimists'
  <2>1. /\ conn[u] = None /\ Owner[c] = u
        /\ conn'[u] = c /\ \A v \in Users : v # u => conn'[v] = conn[v]
        /\ \A b \in Conns : b # c => up'[b] = up[b]
        /\ UNCHANGED <<rows, room, registerQ, broadcastQ, job, read, entered, had>>
        /\ UNCHANGED <<down, loaded, win, asked, guessed, lossy>>
    BY <1>1, OpenDoes
  <2> SUFFICES ASSUME NEW b \in Conns, Attached(b)', Owner[b] \notin lossy', NEW k \in Ids(win'[Owner[b]]), k < 0
               PROVE  Pending(b, k)'
    BY DEF Optimists
  <2>2. CASE Owner[b] = u
    <3>1. win[u] = <<>>
      BY <2>1, <2>2 DEF SocketsKnown
    <3>2. Ids(<<>>) = {}
      BY DEF Ids
    <3> QED BY <2>1, <2>2, <3>1, <3>2
  <2>3. CASE Owner[b] # u
    <3>1. Attached(b) /\ b # c /\ Owner[b] \notin lossy /\ k \in Ids(win[Owner[b]])
      BY <2>1, <2>3, TypesAt DEF Attached
    <3>2. Pending(b, k)
      BY <3>1 DEF Optimists
    <3>3. \A p \in Asks(b, "message") : \E q \in Asks(b, "message")' : up'[b][q].cid = up[b][p].cid
      BY <2>1, <3>1 DEF Asks
    <3> QED BY <2>1, <3>2, <3>3, PendingSame
  <2> QED BY <2>2, <2>3
<1>2. ASSUME LoseSocket(u)
      PROVE  Optimists'
  <2>0. PICK c : c = conn[u]
    OBVIOUS
  <2>1. /\ c \in Conns
        /\ \A v \in Users : v # u => conn'[v] = conn[v]
        /\ \A b \in Conns : b # c => up'[b] = up[b]
        /\ \A b \in Conns : b # c => down'[b] = down[b]
        /\ lossy' = lossy \cup {u}
        /\ UNCHANGED <<rows, registerQ, broadcastQ, job, read, entered, had>>
        /\ UNCHANGED <<used, joined, loaded, win, asked, full, guessed>>
    BY <1>2, <2>0, LoseDoes
  <2>5. Owner[c] = u
    BY <1>2, <2>0, SocketOf DEF LoseSocket
  <2> SUFFICES ASSUME NEW b \in Conns, Attached(b)', Owner[b] \notin lossy', NEW k \in Ids(win'[Owner[b]]), k < 0
               PROVE  Pending(b, k)'
    BY DEF Optimists
  <2>2. Owner[b] # u /\ b # c /\ Attached(b) /\ Owner[b] \notin lossy /\ k \in Ids(win[Owner[b]])
    BY <2>1, <2>5, TypesAt DEF Attached
  <2>3. Pending(b, k)
    BY <2>2 DEF Optimists
  <2>4. \A p \in Asks(b, "message") : \E q \in Asks(b, "message")' : up'[b][q].cid = up[b][p].cid
    BY <2>1, <2>2 DEF Asks
  <2> QED BY <2>1, <2>2, <2>3, <2>4, PendingSame
<1>3. ASSUME NEW t \in Texts, SendMessage(u, t)
      PROVE  Optimists'
  <2>1. PICK c, k, m, r :
           /\ c \in Conns /\ k \in Int /\ m \in Told /\ r \in Requests
           /\ c = conn[u] /\ conn[u] # None /\ k = -(asked + 1)
           /\ m.id = k /\ m.cid = k
           /\ r.kind = "message" /\ r.cid = k
           /\ \A v \in Users : v # u => win'[v] = win[v]
           /\ win'[u] \in Seq(Told)
           /\ Put(win'[u], win[u], m) \/ Known(win'[u], win[u], m) \/ Added(win'[u], win[u], m)
           /\ up'[c] = Append(up[c], r) /\ \A b \in Conns : b # c => up'[b] = up[b]
           /\ UNCHANGED <<rows, room, registerQ, broadcastQ, job, read, entered, had>>
           /\ UNCHANGED <<down, conn, used, joined, loaded, guessed, lossy>>
    BY <1>3, SendAll
  <2>2. /\ \A p \in Asks(c, "message") : \E q \in Asks(c, "message")' : up'[c][q].cid = up[c][p].cid
        /\ \E q \in Asks(c, "message")' : up'[c][q].cid = k
    <3>1. \E q \in Asks(c, "message")' : up'[c][q].cid = r.cid
      BY <2>1, AsksAdded
    <3> QED BY <2>1, <3>1, AsksAdd
  <2>3. \A b \in Conns : \A p \in Asks(b, "message") : \E q \in Asks(b, "message")' : up'[b][q].cid = up[b][p].cid
    <3> SUFFICES ASSUME NEW b \in Conns, b # c
                 PROVE  \A p \in Asks(b, "message") : \E q \in Asks(b, "message")' : up'[b][q].cid = up[b][p].cid
      BY <2>2
    <3>1. up'[b] = up[b]
      BY <2>1
    <3> QED BY <3>1 DEF Asks
  <2>4. Owner[c] = u
    BY <2>1, SocketOf
  <2>5. PICK d : d = win'[u]
    OBVIOUS
  <2>6. Added(d, win[u], m)
    BY <2>1, <2>5, SendAdds
  <2>7. \A i \in DOMAIN d : d[i].id = k \/ d[i].id \in Ids(win[u])
    <3>1. d[Len(d)] = m
      BY <2>6 DEF Added
    <3>2. PICK e : From(d, win[u], e) /\ \A i \in DOMAIN d : e[i] = 0 <=> i = Len(d)
      BY <2>6 DEF Added
    <3>3. ASSUME NEW i \in DOMAIN d, i # Len(d)
          PROVE  d[i].id \in Ids(win[u])
      <4>1. e[i] \in DOMAIN win[u] /\ d[i] = win[u][e[i]]
        BY <3>2, <3>3 DEF From
      <4> QED BY <4>1 DEF Ids
    <3> QED BY <2>1, <3>1, <3>3
  <2> SUFFICES ASSUME NEW b \in Conns, Attached(b)', Owner[b] \notin lossy', NEW x \in Ids(win'[Owner[b]]), x < 0
               PROVE  Pending(b, x)'
    BY DEF Optimists
  <2>8. Attached(b) /\ Owner[b] \notin lossy
    BY <2>1 DEF Attached
  <2>9. CASE x \in Ids(win[Owner[b]])
    <3>1. Pending(b, x)
      BY <2>8, <2>9 DEF Optimists
    <3> QED BY <2>1, <2>3, <3>1, PendingSame
  <2>10. CASE x \notin Ids(win[Owner[b]])
    <3>1. Owner[b] = u
      BY <2>1, <2>10, TypesAt
    <3>2. b = c
      BY <2>1, <2>4, <2>8, <3>1 DEF Attached
    <3>3. x = k
      BY <2>5, <2>7, <2>10, <3>1 DEF Ids
    <3> QED BY <2>2, <3>2, <3>3 DEF Pending
  <2> QED BY <2>9, <2>10
<1>4. ASSUME NEW r \in Requests, AskAbout(u, r)
      PROVE  Optimists'
  <2>0. PICK c : c = conn[u]
    OBVIOUS
  <2>1. /\ c \in Conns
        /\ up'[c] = Append(up[c], r) /\ \A b \in Conns : b # c => up'[b] = up[b]
        /\ UNCHANGED <<rows, room, registerQ, broadcastQ, job, read, entered, had>>
        /\ UNCHANGED <<down, conn, used, joined, loaded, win, full, guessed, lossy>>
    BY <1>4, <2>0, AskDoes
  <2>2. \A p \in Asks(c, "message") : \E q \in Asks(c, "message")' : up'[c][q].cid = up[c][p].cid
    BY <2>1, AsksAdd
  <2>3. \A b \in Conns : \A p \in Asks(b, "message") : \E q \in Asks(b, "message")' : up'[b][q].cid = up[b][p].cid
    <3> SUFFICES ASSUME NEW b \in Conns, b # c
                 PROVE  \A p \in Asks(b, "message") : \E q \in Asks(b, "message")' : up'[b][q].cid = up[b][p].cid
      BY <2>2
    <3>1. up'[b] = up[b]
      BY <2>1
    <3> QED BY <3>1 DEF Asks
  <2> SUFFICES ASSUME NEW b \in Conns, Attached(b)', Owner[b] \notin lossy', NEW x \in Ids(win'[Owner[b]]), x < 0
               PROVE  Pending(b, x)'
    BY DEF Optimists
  <2>4. Pending(b, x)
    BY <2>1 DEF Attached, Optimists
  <2> QED BY <2>1, <2>3, <2>4, PendingSame
<1> QED BY <1>1, <1>2, <1>3, <1>4

\* Entries that wait for their row still do.
LEMMA OptimistsStep ==
  ASSUME Types, SocketsKnown, Joins, Cids, Faithful, OwnEntries, Optimists, FeedNext
  PROVE  Optimists'
<1>1. ASSUME NEW u \in Users, Handle(u)
      PROVE  Optimists'
  <2>1. CASE OldOptimists
    BY <1>1, <2>1, OptimistsHandle
  <2>2. CASE \E v \in Users, t \in Texts : SendMessage(v, t)
    BY <2>2, OptimistsPage
  <2> QED BY <2>1, <2>2, OptimistSteps
<1>4. ASSUME NEW c \in Conns, HandleChatMessage(c)
      PROVE  Optimists'
  BY <1>4, OptimistsChat
<1>5. ASSUME NEW c \in Conns, BroadcastToRoom(c)
      PROVE  Optimists'
  BY <1>5, OptimistsFan
<1> QED BY <1>1, <1>4, <1>5, OptimistsPage, OptimistsConn, OptimistsHub, FeedSteps

=============================================================================
