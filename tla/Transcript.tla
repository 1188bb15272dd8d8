------------------------------ MODULE Transcript ------------------------------
(***************************************************************************)
(* The transcript of a page: pagination on scrolling up, with its time-out *)
(* and retry, the scroll position, the badge of new messages, the groups   *)
(* the messages are shown in, and the switch to the private thread.        *)
(*                                                                         *)
(* One action is one handler of the browser with the render and the        *)
(* effects that follow it (Commit).  Where the user or the browser scrolls *)
(* to is the environment's choice.  The server answers requests in order;  *)
(* it reads the page it sends when it sends it (module RoomFeed separates  *)
(* the two).  A message is known by its row; row r is written at time 2r.  *)
(* System lines are left out.                                              *)
(***************************************************************************)
EXTENDS MessageWindow

CONSTANTS
  None,        \* no message
  Author,      \* the users who wrote the rows, in order
  Me,          \* the user of the page
  Bot,         \* the user of the card that shows an answer while it streams
  Rows,        \* rows at the start
  Page,        \* rows a load_history brings, and the page expects (code: 50)
  JoinPage,    \* rows a join or the preview brings (code: 100)
  MaxVisible,  \* MAX_VISIBLE_MESSAGES (code: 200)
  GroupWindow, \* GROUP_WINDOW_MS, in the time of the rows
  Private,     \* the messages of the private thread
  MaxAsk,      \* bound: requests for older messages
  MaxDrops     \* bound: lost connections

\* The text of a deleted message, and of another.
Texts == {"", "t"}

\* What a message, or an entry of the page, is.
Entry == [id : Int, cid : Int, user : Range(Author) \cup {Me, Bot}, text : Texts, time : Int]

ASSUME TranscriptAssumption ==
  /\ Author \in Seq(Range(Author)) /\ Rows \in 0..Len(Author) /\ Private \in Seq(Entry)
  /\ Page \in 1..HistoryCap /\ JoinPage \in 1..HistoryCap
  /\ 1 < MessageCap /\ MessageCap <= HistoryCap
  /\ MaxVisible \in Nat \ {0} /\ GroupWindow \in Nat /\ MaxAsk \in Nat /\ MaxDrops \in Nat
  /\ None \notin Int

VARIABLES
  stored,  \* rows of the room
  gone,    \* rows that were deleted
  online,  \* the page's socket is open
  asked,   \* what the server has not answered: Join, Own or the time of a load
  loaded,  \* historyLoaded
  win,     \* messages
  view,    \* the transcript's state and refs
  timers,  \* the five-second timers, in the order they will fire
  asks, drops, cards,
  \* for the properties
  calm,    \* no load was given up before its answer, no later join's history came
  lost,    \* rows a cap cut off, or a reconnection left out
  unseen   \* entries that came live since the user left the bottom

room == <<stored, gone>>
socket == <<online, asked, loaded>>
bounds == <<asks, drops, cards>>
ghosts == <<calm, lost, unseen>>
vars == <<room, socket, win, view, timers, bounds, ghosts>>

\* The ids of the card of a streaming answer and of the user's own message before
\* its echo.
Card == 0
Own == -1

Join == 0

Message(row) ==
  [id |-> row, cid |-> 0, user |-> Author[row], text |-> IF row \in gone THEN "" ELSE "t",
   time |-> 2 * row]

\* An entry the page makes itself, after the last row there is.
Local(id, user) ==
  [id |-> id, cid |-> id, user |-> user, text |-> "t", time |-> 2 * stored + 1]

\* Mutant: the first n rows.
LatestFirst(n, before) ==
  LET last == Min({(before - 1) \div 2, stored}) IN
  [i \in 1..Min({n, last}) |-> Message(i)]

\* GetRoomMessages: the last n rows before a time.
Latest(n, before) ==
  LET last == Min({(before - 1) \div 2, stored})
      first == Max({1, last - n + 1})
  IN [i \in 1..(last - first + 1) |-> Message(first + i - 1)]

Shown(v, w) == IF v.conv = "public" THEN w ELSE Private

FirstId(w) == IF w = <<>> THEN None ELSE w[1].id

Init ==
  /\ stored = Rows /\ gone = {}
  /\ online = FALSE /\ asked = <<>> /\ loaded = FALSE
  /\ win = <<>>
  /\ view = [conv |-> "public", loading |-> FALSE, error |-> FALSE, more |-> TRUE,
             restore |-> FALSE, first |-> None, auto |-> TRUE, badge |-> 0,
             seen |-> None, all |-> FALSE]
  /\ timers = <<>> /\ asks = 0 /\ drops = 0 /\ cards = 0
  /\ calm = TRUE /\ lost = {} /\ unseen = 0

-----------------------------------------------------------------------------
(* Rendering and effects                                                   *)

\* The handler of "tdchat:no-more-history".
NoMore(v) ==
  [v EXCEPT !.more = FALSE, !.restore = FALSE, !.first = None,
            !.loading = FALSE, !.error = FALSE]

\* Mutant: the effect depends on the number of messages only.
LayoutByLength(v, bumped, before, after) ==
  IF /\ v.restore /\ Len(before) # Len(after)
     /\ ~(v.first # None /\ FirstId(after) = v.first)
  THEN [v EXCEPT !.restore = FALSE, !.first = None, !.loading = FALSE]
  ELSE v

\* The layout effect: the first entry is another one, so the older messages have
\* come, and the position is restored.  It runs when the revision of the window or
\* the number of messages has changed.
Layout(v, bumped, before, after) ==
  IF /\ v.restore /\ (bumped \/ Len(before) # Len(after))
     /\ ~(v.first # None /\ FirstId(after) = v.first)
  THEN [v EXCEPT !.restore = FALSE, !.first = None, !.loading = FALSE]
  ELSE v

\* Mutant: counts from the start when the last message seen is gone.
CountAll(v, shown) ==
  IF shown = <<>> THEN [v EXCEPT !.seen = None]
  ELSE LET last == Last(shown).id
           at == {i \in DOMAIN shown : shown[i].id = v.seen}
           more == Len(shown) - (IF at = {} THEN 0 ELSE Min(at))
       IN IF v.seen = None \/ v.seen = last \/ v.auto THEN [v EXCEPT !.seen = last]
          ELSE [v EXCEPT !.seen = last, !.badge = @ + more]

\* The effect that counts what came since the last message the user has seen.
CountNew(v, shown) ==
  IF shown = <<>> THEN [v EXCEPT !.seen = None]
  ELSE LET last == Last(shown).id
           at == {i \in DOMAIN shown : shown[i].id = v.seen}
       IN IF v.seen = None \/ v.seen = last \/ v.auto \/ at = {}
          THEN [v EXCEPT !.seen = last]
          ELSE [v EXCEPT !.seen = last, !.badge = @ + Len(shown) - Min(at)]

\* The render and the effects after the window became w.
Commit(v, bumped, w) ==
  LET shown == Shown(v, w) IN
  CountNew(Layout(v, bumped, Shown(v, win), shown), shown)

\* What is rendered: the newest messages, or all of them.
Visible ==
  LET shown == Shown(view, win) IN
  IF view.all \/ Len(shown) <= MaxVisible THEN shown
  ELSE SubSeq(shown, Len(shown) - MaxVisible + 1, Len(shown))

\* A message joins the group of the last one: same user, not deleted, soon enough.
JoinsGroup(group, m) ==
  LET last == Last(group) IN
  /\ m.user = last.user /\ m.text # "" /\ m.time - last.time < GroupWindow

\* What the next message does to the groups there are.
Grouped(groups, m) ==
  IF groups # <<>> /\ JoinsGroup(Last(groups), m)
  THEN [groups EXCEPT ![Len(groups)] = Append(@, m)]
  ELSE Append(groups, <<m>>)

BuildMessageGroups(messages) == FoldLeft(Grouped, <<>>, messages)

-----------------------------------------------------------------------------
(* The user                                                                *)

Ask(kind) ==
  /\ asks < MaxAsk
  /\ asks' = asks + 1
  /\ asked' = IF online THEN Append(asked, win[1].time) ELSE asked
  /\ timers' = Append(timers, kind)

\* A load is given up: the spinner goes while its answer is still to come.
KeepsCalm ==
  calm' = (calm /\ ~(view.loading /\ ~view'.loading /\ \E i \in DOMAIN asked : asked[i] > 0))

\* Scrolling to another place: near the top older messages are asked for.
HandleScroll(top, bottom) ==
  LET shown == Shown(view, win)
      moved == [view EXCEPT !.auto = bottom, !.badge = IF bottom THEN 0 ELSE @]
      asking == top /\ view.more /\ ~view.loading /\ view.conv = "public"
  IN
  /\ shown # <<>>
  /\ view' = CountNew(IF asking
                      THEN [moved EXCEPT !.loading = TRUE, !.restore = TRUE,
                                         !.first = shown[1].id]
                      ELSE moved, shown)
  /\ IF asking THEN Ask("scroll") ELSE UNCHANGED <<asks, asked, timers>>
  /\ unseen' = IF bottom THEN 0 ELSE unseen
  /\ UNCHANGED <<room, online, loaded, win, drops, cards, calm, lost>>

\* Mutant: no time-out for a retry.
RetryForEver ==
  /\ view.error /\ ~view.loading /\ view.conv = "public" /\ win # <<>> /\ asks < MaxAsk
  /\ view' = [view EXCEPT !.error = FALSE, !.loading = TRUE]
  /\ asks' = asks + 1
  /\ asked' = IF online THEN Append(asked, win[1].time) ELSE asked
  /\ UNCHANGED <<room, online, loaded, win, timers, drops, cards, ghosts>>

\* The button under the error: it asks again but sets no anchor.
Retry ==
  /\ view.error /\ ~view.loading /\ view.conv = "public"
  /\ IF win # <<>>
     THEN view' = [view EXCEPT !.error = FALSE, !.loading = TRUE] /\ Ask("retry")
     ELSE view' = [view EXCEPT !.error = FALSE] /\ UNCHANGED <<asks, asked, timers>>
  /\ UNCHANGED <<room, online, loaded, win, drops, cards, ghosts>>

\* Five seconds after a request, whatever has become of it since.
TimeOut ==
  /\ timers # <<>>
  /\ timers' = Tail(timers)
  /\ view' = IF ~view.loading THEN view
             ELSE IF Head(timers) = "scroll"
             THEN [view EXCEPT !.loading = FALSE, !.error = TRUE,
                               !.restore = FALSE, !.first = None]
             ELSE [view EXCEPT !.loading = FALSE, !.error = TRUE]
  /\ UNCHANGED <<room, socket, win, bounds, lost, unseen>>
  /\ KeepsCalm

\* Pulling down at the top, or the button, shows the hidden messages.
HandleLoadOlder ==
  /\ ~view.all /\ Visible # Shown(view, win)
  /\ view' = [view EXCEPT !.all = TRUE]
  /\ UNCHANGED <<room, socket, win, timers, bounds, ghosts>>

\* The floating button clears the badge; the scroll it starts is reported later.
ScrollToBottom ==
  /\ ~view.auto
  /\ view' = [view EXCEPT !.badge = 0]
  /\ unseen' = 0
  /\ UNCHANGED <<room, socket, win, timers, bounds, calm, lost>>

\* To the private thread or back: the layout effect runs before the one that resets.
SwitchConversation ==
  LET v == [view EXCEPT !.conv = IF @ = "public" THEN "private" ELSE "public"]
      laid == Layout(v, FALSE, Shown(view, win), Shown(v, win))
  IN
  /\ view' = CountNew([laid EXCEPT !.more = TRUE, !.badge = 0, !.seen = None,
                                   !.restore = FALSE, !.first = None,
                                   !.loading = FALSE, !.error = FALSE],
                      Shown(v, win))
  /\ unseen' = 0
  /\ UNCHANGED <<room, socket, win, timers, bounds, lost>>
  /\ KeepsCalm

-----------------------------------------------------------------------------
(* The socket                                                              *)

\* The window becomes w, with v the view the handler leaves, and is rendered; cut
\* and skipped rows are lost.
Becomes(w, v, bumped, skipped) ==
  /\ win' = w
  /\ view' = Commit(v, bumped, w)
  /\ lost' = (lost \cup skipped \cup {id \in Ids(win) : id > 0}) \ Ids(w)

\* The window gets a live entry.
Gets(m) ==
  /\ Becomes(AddMessage(win, m, {}), view, Fresh(win, <<m>>, {}) # <<>>, {})
  /\ unseen' = IF ~view.auto /\ view.conv = "public" /\ Fresh(win, <<m>>, {}) # <<>>
               THEN unseen + 1 ELSE unseen
  /\ KeepsCalm

InRoom == online /\ Join \notin ToSet(asked)

Connect ==
  /\ ~online
  /\ online' = TRUE /\ asked' = <<Join>>
  /\ UNCHANGED <<room, loaded, win, view, timers, bounds, ghosts>>

Drop ==
  /\ online /\ drops < MaxDrops
  /\ online' = FALSE /\ asked' = <<>> /\ drops' = drops + 1
  /\ UNCHANGED <<room, loaded, win, view, timers, asks, cards, ghosts>>

\* A message is stored while the page is not in the room.
Missed ==
  /\ drops > 0 /\ ~InRoom /\ stored < Len(Author) /\ Author[stored + 1] # Me
  /\ stored' = stored + 1
  /\ UNCHANGED <<gone, socket, win, view, timers, bounds, ghosts>>

\* The preview of the room, when a guest could not connect.
LoadPublicPreview ==
  LET rows == Latest(JoinPage, 2 * stored + 1) IN
  /\ ~online /\ ~loaded
  /\ loaded' = TRUE
  /\ Becomes(SetHistory(win, rows, {}), view, rows # <<>>, {})
  /\ UNCHANGED <<room, online, asked, timers, bounds, calm, unseen>>

\* Mutant: a page that is just full counts as the last one.
LastPageWhenFull(rows, fresh) == fresh = <<>> \/ Len(rows) <= Page

\* The page takes it that there is nothing older.
LastPage(rows, fresh) == fresh = <<>> \/ Len(rows) < Page

\* A history frame: the first one fills the window, any other is taken for a page
\* of older messages.
HandleHistory ==
  LET request == Head(asked)
      isJoin == request = Join
      rows == IF isJoin THEN Latest(JoinPage, 2 * stored + 1) ELSE Latest(Page, request)
      fresh == Fresh(win, rows, {})
      skipped == {r \in 1..stored : isJoin /\ r < stored + 1 - JoinPage}
  IN
  /\ online /\ asked # <<>> /\ request >= 0
  /\ asked' = Tail(asked) /\ loaded' = TRUE
  /\ IF loaded
     THEN /\ Becomes(PrependHistory(win, rows, {}),
                     IF LastPage(rows, fresh) THEN NoMore(view) ELSE view,
                     fresh # <<>>, skipped)
          /\ calm' = (calm /\ ~isJoin)
     ELSE /\ Becomes(SetHistory(win, rows, {}), view, fresh # <<>>, {})
          /\ UNCHANGED calm
  /\ UNCHANGED <<room, online, timers, bounds, unseen>>

\* An answer to load_history that finds the send buffer full is dropped.  (The history
\* of a join is among the first frames of a new buffer.)
AnswerLost ==
  /\ online /\ asked # <<>> /\ Head(asked) > 0
  /\ asked' = Tail(asked)
  /\ UNCHANGED <<room, online, loaded, win, view, timers, bounds, ghosts>>

\* Somebody else's message.
Arrive ==
  /\ InRoom /\ stored < Len(Author) /\ Author[stored + 1] # Me
  /\ stored' = stored + 1
  /\ Gets(Message(stored + 1))
  /\ UNCHANGED <<gone, socket, timers, bounds>>

\* The user's own message is shown at once, and replaced by its echo.
SendMessage ==
  /\ InRoom /\ stored < Len(Author) /\ Author[stored + 1] = Me
  /\ Own \notin Ids(win) \cup ToSet(asked)
  /\ asked' = Append(asked, Own)
  /\ Gets(Local(Own, Me))
  /\ UNCHANGED <<room, online, loaded, timers, bounds>>

Echo ==
  /\ InRoom /\ asked # <<>> /\ Head(asked) = Own
  /\ asked' = Tail(asked)
  /\ stored' = stored + 1
  /\ Gets([Message(stored + 1) EXCEPT !.cid = Own])
  /\ UNCHANGED <<gone, online, loaded, timers, bounds>>

\* The card of a streaming answer opens, and goes when the answer is complete.
StreamOpens ==
  /\ InRoom /\ Card \notin Ids(win) /\ cards = 0
  /\ cards' = 1
  /\ Gets(Local(Card, Bot))
  /\ UNCHANGED <<room, socket, timers, asks, drops>>

StreamDone ==
  /\ InRoom /\ Card \in Ids(win)
  /\ Becomes(DeleteMessage(win, Card), view, FALSE, {})
  /\ UNCHANGED <<room, socket, timers, bounds, unseen>>
  /\ KeepsCalm

\* A message_delete frame.
Deleted(id) ==
  /\ InRoom /\ id \in Ids(win) /\ id > 0
  /\ gone' = gone \cup {id}
  /\ Becomes(DeleteMessage(win, id), view, FALSE, {})
  /\ UNCHANGED <<stored, socket, timers, bounds, unseen>>
  /\ KeepsCalm

-----------------------------------------------------------------------------

Next ==
  \/ \E top, bottom \in BOOLEAN : HandleScroll(top, bottom)
  \/ Retry \/ TimeOut \/ HandleLoadOlder \/ ScrollToBottom \/ SwitchConversation
  \/ Connect \/ Drop \/ Missed \/ LoadPublicPreview \/ HandleHistory \/ AnswerLost
  \/ Arrive \/ SendMessage \/ Echo \/ StreamOpens \/ StreamDone
  \/ \E id \in 1..Len(Author) : Deleted(id)

Spec == Init /\ [][Next]_vars

\* Timers of the browser fire.
FairSpec == Spec /\ WF_vars(TimeOut)

-----------------------------------------------------------------------------
(* Properties                                                              *)

TypeOK ==
  /\ stored \in Rows..Len(Author) /\ gone \subseteq 1..stored
  /\ \A i \in DOMAIN asked : asked[i] \in Own..(2 * Len(Author) + 1)
  /\ Ids(win) \subseteq Own..stored /\ Len(win) <= HistoryCap
  /\ view.conv \in {"public", "private"} /\ view.badge \in Nat
  /\ Len(timers) <= asks /\ asks <= MaxAsk /\ drops <= MaxDrops

\* The spinner does not turn for ever, whether the answer comes or not.
SpinnerEnds == view.loading ~> ~view.loading

\* Row r is older than what the window holds.
Older(r) == win # <<>> /\ \A i \in DOMAIN win : 2 * r < win[i].time

\* When the page takes it that there are no older messages, it has reached the first
\* row: full pages, pages that happen to be exactly full, live messages and
\* deletions in between do not stop it early.  (A load that was given up and the
\* history of a later join do.)
BeginningReached ==
  ~view.more /\ calm /\ view.conv = "public" =>
    \A r \in 1..stored : Older(r) => r \in lost \cup gone

\* Between the oldest and the newest message of the window nothing is missing that
\* was not deleted, cut off by a cap, or too much for the history of a
\* reconnection.
NothingLost ==
  \A low, high \in Ids(win) : \A r \in low..high :
    r > 0 /\ low > 0 => r \in Ids(win) \cup gone \cup lost

\* The window has a new first entry: older messages have come.
OlderCame == win' # <<>> /\ FirstId(win') \notin Ids(win)

\* The layout effect restores the position.  Without it the position is given up: by the
\* other conversation, by the time-out, which leaves the window, and by the last page.
Restored ==
  view.restore /\ ~view'.restore /\ win' # win /\ view'.conv = view.conv /\ view'.more

\* While older messages are awaited the position is kept for them: it is restored when
\* they come, unless they are the last, and otherwise only when the entry it was kept
\* for is deleted or cut off; by nothing that comes at the bottom.  (The user's own
\* entry is no good anchor: its echo changes the first id and renders nothing anew.)
Anchored ==
  [][view.first # Own =>
       /\ view.restore /\ OlderCame /\ view'.conv = view.conv /\ view'.more
            => Restored /\ ~view'.loading
       /\ Restored => OlderCame \/ view.first \notin Ids(win')]_vars

\* The badge counts what came while the user was away from the bottom: never more,
\* and all of it if nothing was taken away.
BadgeHonest ==
  /\ view.badge <= unseen
  /\ gone = {} /\ cards = 0 /\ lost = {} => view.badge = unseen

\* The groups are the messages in order, cut exactly where the user changes, where
\* two messages are far apart, and before a deleted one.
GroupsExact ==
  LET groups == BuildMessageGroups(Visible) IN
  /\ FlattenSeq(groups) = Visible
  /\ \A g \in DOMAIN groups : \A i \in 1..Len(groups[g]) :
       LET m == groups[g][i]
           before == IF i > 1 THEN groups[g][i - 1] ELSE Last(groups[g - 1])
           close == m.user = before.user /\ m.text # "" /\ m.time < before.time + GroupWindow
       IN (i > 1 => close) /\ (i = 1 /\ g > 1 => ~close)

\* The window holds all there is between its ends, and is shown whole: its groups are it.
WindowInv == TypeOK /\ NothingLost /\ GroupsExact

-----------------------------------------------------------------------------
(* Statements of the repository that the code does not keep.               *)

\* chatStore.ts 336: "Fire event when no more history can be loaded (all duplicates
\* or window full)."  useWebSocket.ts 253: "If fewer than 50 messages returned,
\* we've hit the beginning."
NoMoreMeansBeginning ==
  ~view.more /\ view.conv = "public" =>
    \A r \in 1..stored : Older(r) => r \in lost \cup gone

\* MessageTranscript.tsx 192: "clear loadingOlder and show error if server never
\* responds".
ErrorMeansNoAnswer == [][~view.error /\ view'.error /\ online => asked # <<>>]_vars

\* MessageTranscript.tsx 208: "Restore scroll position after older messages load and DOM
\* updates."
PositionRestored ==
  [][view.restore /\ OlderCame /\ view'.conv = view.conv /\ view.first # Own => Restored]_vars

\* MessageTranscript.tsx 218: "Skip the scroll restore until older messages are actually
\* prepended."
RestoredByOlder == [][Restored => OlderCame]_vars
=============================================================================
