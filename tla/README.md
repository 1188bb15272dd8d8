# TokenDanceChat: TLA+ models and proofs

TokenDanceChat is a chat server in Go (`backend/`) with a React client
(`frontend/`). One server process keeps everything: a hub of websocket
connections, an SQLite store, HTTP handlers, an LLM client and its memory. A page
keeps a websocket client that reconnects by itself and a store of messages. There
is one public room, and a private thread of each user with the assistant.

Paths below are relative to `src/`.

## Inventory

| Component | State | Operations | Interacts with |
|---|---|---|---|
| Hub and connections: `backend/hub/hub.go`, `client.go`, `handler/ws.go` | client table, three channels of 256, send buffer, socket and two goroutines per connection | join, takeover, unregister, fan-out, tick, shutdown | every handler sends through it; the store and the verifiers answer joins |
| Locks | `h.mu`, `h.lastSeenMu`, `s.mu` and some small mutexes | every call of hub and store | all goroutines |
| Store: `backend/store/store.go` | SQLite tables under one RWMutex | insert, edit, delete, pages, reactions, polls, pins, profiles, accounts | handlers of the hub and of HTTP |
| Room feed: handlers in `client.go`, `useWebSocket.ts` | messages on their way, one request at a time per connection | message, edit, delete, history, pagination | store, hub, message window |
| Message window: `mergeMessageWindow.ts`, `chatStore.ts` | the list of messages a page shows | merge of echoes, live messages and pages of history | websocket client |
| Websocket client: `lib/api.ts` | socket, generation, pending join, queue, timer, account | connect, send, reconnect, disconnect | hub, page |
| Presence: `hub.go`, `client.go`, `useWebSocket.ts` | last seen times, rosters of the pages | join and leave notices, status list, tick | hub |
| Assistant: `client.go` 432-456, 1023-1189, `llm/` | cooldowns, one answer at a time, memory of the room and of each user | mention, private message, stream, final message | hub, store, LLM service |
| Reactions, polls, pins, threads, profiles, blocks, preferences, emoji | tables | change the store, then fan out | store, hub |
| Accounts, invitations, sessions, OIDC: `handler.go`, `oidc.go`, `store.go` | users, codes with a number of uses, signed tokens, one-time states and redeem ids, key cache | register, log in, invite, OIDC round trip, verification at join | store, hub, identity provider |
| Rate limits: `ratelimit.go`, `client.go` 547-570 | sliding windows per address and connection | allow, prune | HTTP and websocket handlers |
| Transcript: `MessageTranscript.tsx` | anchor, spinner, error, badge, hidden messages, five-second timers | scroll, load, retry, switch of the conversation | message window, websocket client |
| Bubble: `MessageBubble.tsx`, `useTouchGestures.ts`, selection in `MessageTranscript.tsx` | timers of presses, place of a swipe, menu, edit in place, selected ids | press, drag, swipe, select, delete, edit | transcript, websocket client |
| Composer: `ChatInput.tsx`, `EmojiPicker.tsx` | text, draft, edit and stash, name list, typing flag | type, send, edit, insert, reload | websocket client, browser storage |
| Panels: `ChatLayout.tsx`, `ConversationSearch.tsx`, thread panel, menus | queries, results, marks, open panels, private list | search, open, close, enter the private space | HTTP, websocket client |
| Login at the page: `App.tsx`, `AuthModal.tsx` and what they keep | name, flag and token in storage, form, redeem, the join on its way | load, redeem, log in, log out, kick | websocket client, HTTP |
| Page events: the other handlers of `useWebSocket.ts`, with `PollMessage`, `LinkPreview`, `SettingsPanel` | cards of streams, typing, poll, mute, title, roster, reactions, pins, translations | one handler per frame | handlers of the hub |
| Assistant memory: `llm/memory.go` | last messages and their file | add, summarise, load | assistant |
| HTTP reads, uploads, configuration, the rest of the UI, deployment | - | - | not stateful enough to model |

What is hard in this code, and what has to be true of it:

* **Hub.** `register`, `unregister` and `broadcast` are separate buffered channels,
  Run's select takes any ready one, senders drop or block, a takeover closes a
  channel whose owner is still running. Correct means: one session per user, no
  send on a closed channel, no connection that stays for ever, pumps that end.
* **Locks.** RWMutexes with writer preference, taken inside each other. Correct
  means: no circle of waiting, and every call returns.
* **Websocket client.** Late events of replaced sockets, time-outs against answers,
  retries, a queue that must neither lose, repeat nor reorder. Correct means: one
  socket, messages in order and only after the join, retries that go on or end
  with a word to the user.
* **Room feed.** The store, direct fan-out, the hub's channel and history are four
  ways by which one message reaches a page, in any order, across reconnections.
  Correct means: windows settle on what the store holds.
* **Presence, reactions, polls.** Snapshots taken under a lock and sent after it.
  Correct means: the last one sent is the last one taken.
* **Assistant.** Cooldown, single flight, stream, final message, memory and the end
  of the connection race. Correct means: every stream card that is opened is
  closed, and one user's private context never reaches another.
* **Page.** Timers of half a second, five and ten seconds, effects that run after a
  render, refs that keep an earlier value, and answers that do not say what they
  answer. Correct means: what is shown settles to what was asked for last, belongs
  to the user and the conversation on the screen, and nothing turns for ever.
* **Accounts.** Codes, states and redeem ids are used up by racing requests; names
  come from two tables. Correct means: no code is overused, no one-time id works
  twice, a name belongs to one identity.

`PROJECT.json` lists every component with its status and every hazard at its line.

## Modules

| Module | Models | State and actions |
|---|---|---|
| `Hub` | connection lifecycle | `clients` is `h.clients`; `registerQ`, `unregisterQ`, `broadcastQ` the channels; per connection `reader`, `writer` (where ReadPump and WritePump are), `conn`, `open`, `buf`, `name`. One action per handler step that another goroutine can come between: a handler that blocks on a channel is split there, and Run's takeover in three (`HubEnter`, `HubTakeover`, `HubFinishTakeover`) since only `h.mu` covers it. `crash` records a panic, after which nothing moves. |
| `Sessions` | what the hub promises | the connections that hold a user's session; login takes over, logout, closing of all |
| `ChatAPI` | `api.ts` as the page uses it | JavaScript runs one handler at a time, so one action is one call, socket event or timer. Sockets are numbered by `connectGeneration`. `orphans` are timers that are alive after `reconnectTimer` has been overwritten. |
| `Locks` | lock operations of every call on `h.mu`, `lastSeenMu`, `s.mu` | a call is a sequence of lock operations; `TakeRead`, `AnnounceWrite`, `TakeWrite`, ... are those of `sync.RWMutex` (external) |
| `MessageWindow` | `mergeMessageWindow` and the store's actions on `messages` | pure operators on sequences; own entry, twin, dedupe and cap are parts of one fold |
| `RoomFeed` | messages, edits, deletions and history from page to page | pages (`OpenSocket` ... `Handle`), one goroutine per connection (`HandleJoin` ... `Publish`; `job` is what it is in the middle of), the hub's two channels. `read`, `entered`, `had`, `full`, `guessed` and `lossy` are for the properties |
| `Transcript` | pagination, anchor, badge, groups, conversation | `view` is the state and the refs of the component, `timers` the five-second timers. An action is a handler with the render and the effects that follow (`Commit`: `Layout`, then `CountNew`) |
| `Bubble` | presses, swipes, menu, edit in place, selection | `bubble` is the state of each message's component, `timers` those of the presses, `sel` the select mode; `sent` is what a step asks of the server |
| `Composer` | text, draft, edit, name list, picker, typing | `input` is the state and the refs of `ChatInput`; `Render` runs its effects after every step; `indicator` is what others see of the typing, and what the server lets pass of it |
| `Panels` | both searches, thread panel, private space, menus | one record per area; `out` and `wire` are requests on their way |
| `Login` | three login forms, redeem at a load, timers, kicks, log-out | `stored` is the browser's storage, `page` the store, `form` the dialog, `join` and `conn` the connection being made and the one there is, `retry` the websocket client's memory |
| `Page` | the space that is shown, frames that are lost | shared by the next five |
| `Streams` | answers of the assistant in the room and in private, typing | the server's answers, the shared accumulator, the cards of both lists, the ten-second timers |
| `Polls` | a poll at the server, on its way and on the screen | `handlers` is what a connection does between the change, the read and the broadcast |
| `Notices` | mute of the room, mentions, title | the row, settings and echoes on their way (`late`: on a connection that is gone), both forms at the page |
| `People` | who is online | registrations, the three frames that carry rosters, the channel, the roster of the page |
| `Marks` | link preview, reactions, pin, translation of a message | what connections are to tell (`hands`), what is in the channel (`wire`), what the page shows |
| `PageEvents` | these five, with the switch of the space and a log-out that touch several | a step of one part leaves the others alone |
| `ServerProofs`, `FeedProofs`, `FeedOrderProofs`, `PageEventsProofs`, `LoginProofs`, `ComposerProofs`, `BubbleProofs`, `TranscriptProofs` | theorems | each extends the module it is about (`ServerProofs`: `Hub` and `Locks`; `FeedProofs`: `ChatAPI` and `RoomFeed`, which `FeedOrderProofs` goes on with; `TranscriptProofs`: `Transcript` and `Panels`) and defines the inductive invariant: `LifecycleInv` in `Hub`, `LocksIInv`, `ChatIInv`, `FeedIInv`, `PanelsIInv`, `IInv`, `Inv` |
| `MC...` | instances | |

`RoomFeed` and `Transcript` extend `MessageWindow`; `Hub` instantiates `Sessions`;
`PageEvents` extends its five parts, which extend `Page`; the others stand alone.
What one module abstracts another models: `RoomFeed` takes send buffers as
unbounded and the end of a connection as one step, and both are in `Hub`; `Hub`
counts messages and `RoomFeed` looks into them; `Locks` looks at the mutexes under
the atomic steps of the others; `Transcript` reads a page of history when it is
answered and `RoomFeed` separates the two; `Login` takes a join as one question with
one answer and `ChatAPI` has its sockets and events.

Definitions marked *Mutant* are plausible bugs of the definition they stand before.
They belong to no specification: each shows that a property can fail.

## Runs

All runs pass. Where a property names an exception (`calm`, `lossy`, `mixed`, `kept`,
`overtaken`, ...), the exception is a variable that records its cause, and the
comment says what happens then; most are counterexamples of the table below.

| Run | Question | Instance |
|---|---|---|
| `hub_sessions` | Can joins, takeovers, late and double unregisters, slow readers and SIGTERM leave two sessions of one user, a registered connection with a closed channel, a panic of Run, of a sender under `h.mu` or of Shutdown, or a dead registered connection for any reason but an unregister that overtook its register? No. | two connections, one user, all capacities 1 |
| `hub_refines_sessions` | Is every step of the hub one of `Sessions`? Yes. | two connections, two users |
| `hub_pumps_end` | Do both pumps of a connection end when one of them, the socket or the channel has? Yes, while Run serves. | one connection, fairness |
| `client_socket` | One socket, messages in order, once, after the join, none left in the queue? Yes. | two accounts, three generations, queue of 2, three messages |
| `locks_calls_return` | Can calls block each other in a circle, or one be starved? No, except where a load of a room's messages reads `s.mu` inside `s.mu` and a writer waits between: that is the only circle, and until then all calls return. | three goroutines, the calls on `s.mu` and `lastSeenMu`, fairness |
| `room_feed` | Do windows settle on what the store holds? Yes, but for the messages of the gap (below). | two users, three connections, one stored message, two requests |
| `transcript` | Does pagination stop at the beginning and not before, is the place kept while more is to come, the badge right, nothing lost between the ends of the window, the spinner ended? Yes. | four rows of two users, two of them live, caps of 2 and 3, two requests, fairness |
| `bubble` | Does every gesture end, a selection end with its mode, and is a request only sent for what is there and one's own? Yes. | two messages, one own, two presses of each |
| `composer` | Do the draft and the name list follow the text, do others see that it is typed, and is no text sent twice? Yes; the indicator may be missing or left over once a start or stop of it was missed. | two texts, two names, two messages |
| `panels` | Does each search and panel settle to what was asked for last, and is a private history dropped when it is not wanted any more? Yes; a search unless a later answer overtook the last, a thread if its last request was answered. | two queries, messages and users, two areas at once |
| `login` | Are name, connection, storage and tokens of one account, whatever flows overlap? Yes. | two accounts, two guests |
| `page_events` | Do cards, indicators, polls, mutes, the title, the roster, reactions, pins and previews end, settle, and show what happened? Yes, where no answer ran into another, no older roster was on its way, and the last change was told. | two public answers and a private one, two voters, two others, two links; one part at a time |

`WindowInv`, `QueueInv`, `LocksInv`, `StoredInv` and the other names in `...Inv` are
conjunctions of a type invariant and the named properties above them in the
module, so that a run evaluates each once.

### Statements the code does not keep

Each is defined at the end of its module and stated by a comment, a document or a
test of the repository, or is what the interface promises. TLC finds the
counterexample when the definition is the invariant (or, where said, the PROPERTY)
of the configuration. The nine configurations that no run uses (`MCHubHandlers`,
`MCHubOrphan`, `MCChatAPIQueue`, `MCChatAPIRetry`, `MCLocksNested`, `MCRoomFeedOrder`,
`MCComposerTab`, `MCPanelsReset`, `MCLoginGuest`) have theirs in place.

| Definition | What happens | Configuration |
|---|---|---|
| `Hub!HandlersNeverPanic` | `hub.go` 424: the socket is closed "to trigger cleanup in ReadPump/WritePump". Run closes `c.send` in a takeover; a handler of the old connection that is still running sends on it, and the panic ends the process | `MCHubHandlers.cfg` |
| `Hub!OrphansRemoved` | `SECURITY.md` 217: orphaned connections are cleaned up. A connection that dies right after its join has an entry in both channels; Run may take the unregister first, and then registers the dead client, which holds the name for ever | `MCHubOrphan.cfg`, as PROPERTY |
| `Hub!UnregisterOfRemovedIsNoop` | the unregister of a taken-over connection announces that the user has left | `MCHubHandlers.cfg`, as PROPERTY |
| `Hub!GuardedSendsNeverPanic` | a second join frame registers a connection again whose channel is closed | `MCHubHandlers.cfg` with `MaxJoins = 2` |
| `Hub!KickedIsTold` | the socket is closed before WritePump writes the notice | `MCHubHandlers.cfg` |
| `Hub!HardLimit` | sockets that have not joined are not counted | `MCHubHandlers.cfg` with `MaxConns = 1` |
| `Hub!ShutdownStaysEmpty` | Run takes a queued register after Shutdown emptied the table | `MCHubHandlers.cfg` with `MayShutdown = TRUE` |
| `ChatAPI!QueueSurvivesReconnect` | `api.ts` 415-419: queued "instead of dropping it"; the reconnect timer calls `connect`, which empties the queue | `MCChatAPIQueue.cfg`, as PROPERTY |
| `ChatAPI!RetryGoesOn` | `api.ts` 401: "onclose will trigger next attempt"; when a reconnect's socket closes while its join is pending, `onclose` rejects the join and returns | `MCChatAPIRetry.cfg` |
| `ChatAPI!InitialFailureStaysDown` | onerror, the time-out and a refused join clear `pendingJoin` before onclose looks at it | `MCChatAPIQueue.cfg`, as PROPERTY |
| `ChatAPI!DisconnectIsFinal` | a forgotten timer connects again after log-out | `MCChatAPIQueue.cfg` with `MaxGen = 4`, as PROPERTY |
| `ChatAPI!OwnToken` | a timer pairs the name it captured with the token of another session | `MCChatAPI.cfg` with `MaxGen = 4` |
| `Locks!NeverDeadlocked` | `GetRoomMessages` holds `s.mu.RLock` and calls `GetReactionsForMessages`, which takes it again (`store.go` 498); a writer that announces itself in between waits for the first and makes the second wait | `MCLocksNested.cfg` |
| `RoomFeed!Chronological` | `mergeMessageWindow.ts` 22: "Stable chronological ordering"; `historyLoaded` stays true over a reconnect, so the history that answers the new join is put in front of the window | `MCRoomFeedOrder.cfg` |
| `RoomFeed!Deduped` | `mergeMessageWindow.ts` 23: "Dedup by stable message ID"; the search for an own entry comes before it (58-77) and asks for no id. A text is typed twice and the second is lost with the connection: the history of the new join finds the waiting entry again and puts the first message in its place, so one message is shown twice | `MCRoomFeed.cfg` |
| `Transcript!NoMoreMeansBeginning` | a load that was given up, or the history of a later join, is taken for the last page | `MCTranscript.cfg` |
| `Transcript!ErrorMeansNoAnswer` | the five-second timer of one request gives up a later one: an error is shown although the server has answered | `MCTranscript.cfg`, as PROPERTY |
| `Transcript!PositionRestored` | `MessageTranscript.tsx` 208: "Restore scroll position after older messages load"; on a short last page, `useWebSocket.ts` 254-256 says that there is no more history before the layout effect runs, and the handler (130-135) clears the position: the page jumps | `MCTranscript.cfg`, as PROPERTY |
| `Transcript!RestoredByOlder` | `MessageTranscript.tsx` 218: "Skip the scroll restore until older messages are actually prepended"; the first message is deleted, or cut off by the cap, and the effect takes the next one for an older one: the position moves, and the spinner goes while the answer is to come | `MCTranscript.cfg`, as PROPERTY |
| `Composer!PickerShows` | `EmojiPicker.tsx` 136, 195, 204: the tab of the custom emoji has no category, and the render fails; the input is gone until a reload | `MCComposerTab.cfg` |
| `Composer!EditCancelsReply` | an answer can be chosen while a message is edited, and is cleared by the edit (`ChatInput.tsx` 404) | `MCComposer.cfg` |
| `Composer!EditIsKnown` | the arrow key edits a message whose echo has not come, or that was just deleted: the edit is lost | `MCComposer.cfg` |
| `Composer!NoGhost` | `ChatInput.tsx` 182-183: "Stop is also sent when the connection drops mid-typing so the room never sees a ghost indicator"; that stop is put in the queue (`api.ts` 417), which the next `connect` empties (262): others see the indicator until its ten seconds are over | `MCComposer.cfg` |
| `Composer!TypingShown` | the server drops a start that comes within three seconds of the last (`client.go` 757), which the page does not repeat, and others let the indicator go after ten seconds (`useWebSocket.ts` 710) while the user goes on typing | `MCComposer.cfg` |
| `Composer!ListWhereTyped` | the query of the cursor is left by a text that a click sets, and the list of names opens over it | `MCComposer.cfg` |
| `Panels!PrivateIsOwn` | `chatStore.ts` 513-558, `chatStore.test.ts` 303: `reset` returns the store to its initial state; the private list stays, and the next user sees it | `MCPanelsReset.cfg` |
| `Panels!LoadingEnds` | closing the search while a query is put off or on its way leaves the spinner for the next opening | `MCPanels.cfg` |
| `Panels!RepliesOfParent` | the answer names its message (`client.go` 1257), but the page does not look (`ChatLayout.tsx` 218-225): the replies of the panel before are shown under the next, and stay if the next answer is dropped on a full buffer (`client.go` 1262) or has no replies (`hub.go` 152, `omitempty`) | `MCPanels.cfg` |
| `Panels!ClosedByHand` | a panel is opened while the timer of one that closes runs, which closes it too | `MCPanels.cfg`, as PROPERTY |
| `Login!GuestHasNoSession` | `ChatLayout.tsx` 87-88, 232-235: a registered user who re-enters as a guest keeps the token of before | `MCLoginGuest.cfg` |
| `Login!FormEnds` | the form waits for a join that another flow, or a log-out, has replaced and whose promise is never settled | `MCLogin.cfg` |
| `Login!OwnToken` | a timer joins with its name and another account's token | `MCLogin.cfg` |
| `Login!ShownIsConnected`, `LoadContinues` | a reconnection after a failed join connects a page that has no name, or keeps no session | `MCLogin.cfg` |
| `Login!LoggedOut` | a log-out leaves what the browser keeps: the next load logs in again | `MCLogin.cfg`, as PROPERTY |
| `Streams!StreamsApart` | `useWebSocket.ts` 608-610: one accumulator for both lists; private text is shown in the room's card | `MCPageEvents.cfg` |
| `Polls!OneVote` | `poll-flow.test.ts` 332: a second vote is not possible; it is after the poll was off the screen | `MCPageEvents.cfg` |
| `Polls!PollSettles`, `ClosedStays` | two connections read and tell the poll in different orders (`client.go` 1352-1361): the older comes last | `MCPageEvents.cfg` (`ClosedStays` as PROPERTY) |
| `Polls!ClosedIsFinal` | `store.go` 1245: the vote does not ask whether the poll is closed | `MCPageEvents.cfg`, as PROPERTY |
| `Notices!MuteEnds` | `useWebSocket.ts` 61-62: the list of muted conversations is made when the frame comes, and its time is not watched | `MCPageEvents.cfg` |
| `Notices!RowIsKnown` | the answer to a setting, or the row at a join, is dropped when the buffer is full (`client.go` 904-907, 263-266): the page keeps the old row | `MCPageEvents.cfg` |
| `Notices!UnmuteStays` | the panel sends the mute along as it knew it (`SettingsPanel.tsx` 70) and mutes again; an unmute may also be on its way on a connection that is gone when the next one is told the row | `MCPageEvents.cfg` |
| `People!RosterSettles`, `AnnouncedIsIn` | `user_joined` carries a roster that was read before Run entered the user, and if it comes after the tick, or after a leave, nothing corrects it until the next one; a status that waited in the channel announces a user who has left | `MCPageEvents.cfg` (`AnnouncedIsIn` as PROPERTY, without the VIEW) |
| `Marks!LastReactionGoes` | an empty list of reactions is left out of the frame (`hub.go` 189, `omitempty`), which the page ignores (`useWebSocket.ts` 592) | `MCPageEvents.cfg` |
| `Marks!PinnedOnce` | `useWebSocket.ts` 489 adds without a look at what is there | `MCPageEvents.cfg` |
| `Marks!TranslationOfText` | a translation that was asked for before an edit is shown under the edited text | `MCPageEvents.cfg` without its SYMMETRY |

The gap (`RoomFeed!Gap`): `handleJoin` queues the registration and reads the history
at once. A message stored after that reading and before Run enters the connection
is neither in the history nor fanned out to it; if it is the page's own, its
optimistic entry stays. `CaughtUp` and `OptimisticSettles` say that this is the
only way, and name the messages. The other exceptions are causes too: `lossy` users
lost a request, a frame or a connection, or were refused; the window of a `full` page
was full since it connected and may have been cut, at the end of the newest message
too; a `guessed` page took a message of history for one of its own (the twin, above).
`LiveConverges` is about what no history brought (`Live`): a history that is read
before an edit or a deletion and delivered after it shows the old text.

Met on the way, and stated by the comments of the definitions that model them:

* Bubble: a second finger on a message starts a timer that letting go does not stop;
  a drag stays on when select mode is left by a key; a message that changes its
  group is mounted anew and loses the edit in place.
* Composer: the text of an edit becomes the draft of a new message if the page is
  left; draft and edit survive a log-out, and the draft's key does not change with
  the conversation (`ChatInput.tsx` 36).
* Login: Enter in the guest form joins twice (its key and the form, `AuthModal.tsx` 224 and
  230); the second join takes the first one's place at once, and `Login` has them as one.
* Panels: replies that arrive live do not reach the open panel; a reply typed for
  one thread goes to another if the panel switches.
* Streams: the accumulator survives a log-out; an answer that turns out empty ends
  without a frame (`client.go` 1174) and leaves its card and the indicator.
* ChatAPI: messages queued after a kick that overtook the join may be older than
  sent ones; the next connect drops them, so the order on the wire is kept. This is
  why `Order` in the proof compares the two only while a join is pending.

### Bounds

Capacities of 1 or 2 stand for 256, 500 and 100: each full-channel branch is taken
with two messages. Two connections are the least a takeover needs and one user
makes them rivals; two users are needed only to show that a takeover spares the
other, which `hub_refines_sessions` does. `MaxJoins = 1` is what the web client does
and is an assumption of the theorems; 2 gives the second-join panic above.
`MaxGen = 3` sockets let a late event meet a socket two generations on, and are the
fewest with which a forgotten timer connects; `MaxGen = 4` (13 million states) holds
too and is left out for its length. Three goroutines are a reader, a writer and a
third that tries to overtake. `MCLocks.cfg` leaves out
`storeRead`, which `allUserStatus` contains, and `broadcast` and `register`, which hold `h.mu`
alone, for the length of the liveness check; the theorem is about all calls. `RoomFeed`: the first user has two connections, so a
takeover, a reconnect and a late register of the older one occur; `MaxAsked = 2`
gives every race of two requests; with one stored row and pages of one row a second
page exists. A window holds three messages there, and the properties about missing
messages are stated for windows that have not been full since the page connected.
With two requests the properties cannot tell a window that is full now from one that
was, nor live messages from those a page of history brought in between: it was the
proof that asked for `full`, `had` and `guessed`.

`Transcript`: two rows at the start and pages of two rows make a page that is short,
one that is exactly full and an empty one; two live rows, one by the user and one by
another, meet a window that is cut at two and three; two requests give a time-out
that meets a later request and a retry. `Few` bounds lost connections, deletions and
stream cards together to two. `Bubble`: two presses of a message let a timer of the
first meet the second; `VIEW` leaves out what no step reads; rows that a history brings as
deleted (`Dead`) are in the theorems only, as a third message makes the instance too
large. `Composer`: two texts are one that was sent and one typed after; `OneAside` lets the picker, a composition, the
name list, an answered message, an indicator that missed a change and a second message in
the room be there one at a time. `Panels`: two of five
areas at once, which share keys and overlays pairwise. `PageEvents`: the five parts
share only the space, lost frames and the log-out, so `OnePart` has one of them in
use at a time against these; two chunks of an answer and three in all, two screens
of a poll of one choice, two frames of rosters in the channel, three settings on
their way, two edits, one lost frame; its `VIEW` leaves out what a `user_status` carries,
which no step reads.

Symmetry is used for connections, accounts, texts, options and messages where no
liveness is checked. `CHECK_DEADLOCK FALSE` stands where the system may stop:
`ChatAPI`, `RoomFeed`, `Transcript`, `Bubble`, `Panels` and `PageEvents` end when their
bounds are used up, and `Locks` where a nested load waits for itself. `Hub` has the
explicit step `Ended`.

### Fairness

`Hub!Fairness`: Go chooses uniformly among the ready cases of a select, serves
blocked senders of a channel in order and does not starve a waiting RWMutex; so a
case or a blocking send that is ready again and again is taken (strong fairness),
and a goroutine that can go on does (weak). Nothing is assumed of peers, the
network or the operator. `Locks!LocksFairSpec`: a goroutine that can run does, and those
that wait to announce a write are served in turn, as `sync.Mutex` does; nobody has
to make a call. `Transcript!FairSpec`: a timer of the browser fires; the server need
not answer.

## Proofs

`ServerProofs`, first half, checked by TLAPS for every set of connections and users and
every capacity:

* `TypeCorrect`: `Spec => []TypeOK`. Buffers and channels never exceed their capacity.
* `ZombiesHaveOneCause` (`[]ZombieCause`), however often a connection joins. A
  connection can end before Run gets to its register, so the invariant `ZombieInv` is
  about all that is registered, being entered or waiting to be.
* Under `MaxJoins = 1`: `Lifecycle` (`[]LifecycleInv`), and from it `SessionsUnique`,
  `RegisteredAreOpen`, `LoopsAreSafe`, and `HubImplementsSessions`
  (`Spec => ImplementsSessions`).

`SessionUnique` and `LoopSafe` are not inductive: a connection that is registered
twice would be closed once and stay. `LifecycleInv` says why that cannot be. A
connection passes once through the stages *joining*, *waiting in `h.register`*,
*being entered* and *registered*; the stages are disjoint (`OneStage`), its name is
final from the second on and its channel open (`Staged`), it never comes back after
its channel was closed (`ClosedIsSpent`, `JoinFrames`: this is where one join per
connection is used), and in the middle of a takeover the table holds no session of
the user (`TakeoverInv`). The proof has one step per action; the refinement adds
that only Run's steps change who holds a session.

Its second half, for any number of goroutines: `CallsNeverDeadlock`, `[]LocksInv` for
all the calls. `NoDeadlock` needs the order in which mutexes are taken: `Rank` puts
`h.mu` below `lastSeenMu` below `s.mu`. What is left of a call is `Disciplined` (inside a
read lock there are only reads of mutexes of a higher rank, and a write lock is given up
at once), or it is the load of a room's messages, which reads `s.mu` inside `s.mu`
(`NestedLoad`; the two are `Fits`). `LocksIInv` says that every rest of a call fits, that a
goroutine holds exactly the read locks its rest still gives up (`Holds`), and that writers
and blocked readers are where the mutexes say (`WriterAt`). The writer of a mutex can then
go on, or a reader it waits for can, or that one is blocked at a mutex of a higher rank, or
is a nested load that waits for itself (`WriterOrAbove`): three mutexes end the argument.
The last case (`NestedWait`) is the one circle there is; `NoDeadlock` excepts it and nothing
else, `MCLocksNested.cfg` shows it, and `AllUserStatus`, which reads the store inside
`lastSeenMu`, adds none.

`FeedProofs`, first half, for any accounts, number of sockets and messages and capacity of the
queue: `QueueKept` (`[]QueueInv`), `SocketIsUnique` (`[]OneSocket`), `JoinGoesFirst`
(`JoinFirst`) and `JoinsEndByThemselves` (`JoinOnlyByOwnSocket`). Neither order nor
uniqueness is inductive. `ChatIInv` adds `Sockets`: only the latest socket is
connecting or open, it is the pending join's, and the queue is empty once the join
is answered; and `Order`: what was sent and what is queued ascend, and while a join
is pending what is queued is younger. The lemmas about sequences say that appending,
dropping the first and joining keep the order.

Its second half and `FeedOrderProofs`, for any users, connections, texts and sizes of
window, pages and channel: `WindowIsInOrder` (`[]WindowInv`), `OptimisticEntriesSettle`
(`[]OptimisticSettles`), `PagesCatchUp` (`[]CaughtUp`) and `LivePagesConverge`
(`[]LiveConverges`), from `FeedInvariant` (`[]FeedIInv`). All but the first speak of a room in
which nothing is under way; the invariant says where things are until then.

* What is on its way: the frames, requests and jobs are those the code makes (`Types`);
  only the connection of a page has any, and a user who lost nothing has had one
  (`SocketsKnown`); a connection is entered once, after its join (`Joins`); an id that a
  page gave is in one request, or in one row (`Cids`); what is said of a row is of that
  row and its author (`Faithful`).
* `OptimisticSettles`: an entry that waits has its request on the way, or a row whose
  message is about to be fanned out, is in the page's frames, or is of the gap
  (`Pending`, `Bound` in `Optimists`; `OwnEntries`: it is shown by its own user, once).
* `WindowInv`: a message comes live at most once and never after a history that had it
  (`Once`); the messages of an author go in order from the page through the store to the
  frames (`InTurn`), and what is to come is younger than what a window has of that
  author, and meets its own entry (`WindowOrder`).
* `CaughtUp`: what is not gone and not of the gap is in the window, in its frames, or
  being fanned out (`Coming`).
* `LiveConverges`: the last that tells the text of a message tells that of the store, or
  an edit is still to be fanned out (`Texting`); a deletion is being published, in the channel,
  or behind the message in the frames, unless the page has it no more (`Deleting`).

The lemmas on `MessageWindow` say what each action on the list leaves: which ids, which
texts, where each entry came from and in what order, for every length. The merge is a
fold, and a claim about a fold is proved by a least counterexample, as in `Transcript`
(below). The steps are divided by what they do to a page: they leave its frames alone,
bring one frame to one place (`Arrives`, `Moves`), take one away and change the window, or
touch no page.
`WindowInv`, `LiveConverges` and `CaughtUp` are not as they first were: the invariant
could not be made inductive, and each had a counterexample with more requests than
TLC's instance has. `MessageCap <= HistoryCap` is an assumption and holds of the code's
500 and 1000.

The modules of the page are proved for any messages, accounts, texts, queries and
bounds, and without the constraints TLC needs (`OnePart`, `OneAside`, `TwoAreas`): all
parts, asides and areas may be in use at once.

`PageEventsProofs` has one inductive invariant per part, and shows that a step of one
part leaves the invariants of the others alone; the switch of the space, the loss of
frames and the log-out touch several and are proved for each.

* Streams: `StreamsHold` (`[]StreamsInv`) and `CardsAreOfOneAnswer` (`[]TextOfOne`). While
  answers have not overlapped, one runs and the accumulator is its text (`OneRuns`).
* Polls: `PollsHold` (`[]PollsInv`) and `VotesAreBounded` (`[]OneVotePerMount`). What a
  connection has read of the poll, and what the page shows, is a part of what the
  server has (`AllEarlier`: voters and votes only grow), so late frames take no vote
  away for good. Votes are counted together with those asked for, and a screen that
  may still send one keeps a mount free for it (`MountsCounted`, `Allowed`).
* Notices: `NoticesHold` (`[]NoticesInv`). The last echo on its way, or the page if there
  is none, is the row of the server, unless its last change was not told (`LastEcho`).
* People: `RosterIsRight` (`[]PeopleInv`). A leave or a tick that reaches the page while no
  older roster is being made or in the channel (`NoneOlder`) makes the page right; what joins
  read and send from then on is right, too (`CalmRosters`), until somebody comes or goes.
  An older roster on its way is a counterexample, `RosterSettles` above.
* Marks: `MarksHold` (`[]MarksInv`). The last change of reactions or pin that was told and
  not overtaken is the state of the server (`ReactionsTold`, `PinsTold`); a preview is for
  the link the message has (`PreviewIInv`).

`LoginProofs`: `NeverAnotherAccount` (`[]StoredInv`), `PageShowsWhoJoined` (`[]PageInv`) and
`FormWaitsForSomething` (`[]FormWaits`). These say what storage and page hold when a
connection is there; the invariant adds what is on its way: there is no connection
while a join is pending (`OneAtATime`), a redeem runs alone (`RedeemsAlone`), a token
of TokenDance ID that the page has is the one that is stored (`OidcStored`), and whom a
join is for follows from who waits for it (`JoinsKnown`).

`ComposerProofs`: `InputHolds` (`[]InputInv`), `TypingIsHonest` (`[]TypingHonest`) and
`NothingIsSentTwice` (`SentOnce`). `FlagIsTold` relates the input's memory of what it told
to the indicator others see, for as long as they have missed no change of it (`missed`); `EditInRoom` keeps the edited message in the room. For
`SentOnce`, which is an action property, `SentIsGone` says that no text that was sent
is in the input, the draft, the stash or an edit that can turn into a message, and
`TextsAreSeen` that a token typed now is in no text of before.

The end of `TranscriptProofs`, about `Panels`: `SearchesHold` (`[]SearchInv`), `ThreadsSettle` (`[]ThreadSettles`) and
`HistoriesAreWanted` (`HistoryIsWanted`). Results and requests are related by *the last
one*: the last request on its way, or what the debounce still holds, is the query,
unless an answer was overtaken; the last request on the wire is for the thread that
is open, and if the last was answered (`heard`) its replies are shown. Unless requests for
another message were on the wire when the panel was opened (`crossed`), all that is on the
wire is for its message.

`BubbleProofs`: `GesturesEnd` (`[]GesturesInv`), `SelectionHasMode` (`[]SelectionInMode`) and
`RequestsAreOwn` (`RequestsAreDue`). A bubble between two places is one that was moved
sideways, or torn; an edit that is open is of an own message, also when it is saved
long after the menu (`BubblePart`); every timer is known to its bubble unless a second
finger came (`PressPart`); a drag outside select mode has strayed (`SelPart`).

The assumptions are the `...Assumption` of each module: bounds are numbers, `None` is no
message, row, name or query, accounts are no guests, blanks are no tokens; and where
stated `MaxJoins = 1`. What panics anyway is not
covered by `LoopSafe` and is said so: `crash = "handler"`.

`TranscriptProofs`: `WindowIsWhole` (`[]WindowInv`), `BeginningIsReached`
(`[]BeginningReached`), `PositionIsKept` (`Anchored`) and `BadgeCounts` (`[]BadgeHonest`), for
any rows, authors, page sizes and caps.
Merging, deleting, grouping and flattening are folds over the window. What a fold
computes is not proved by induction (the induction theorems of the library cannot be
used) but by a least counterexample: the fold is the last of a sequence of
accumulators (`MergeSteps`, `DeleteSteps`, `GroupSteps`, `FlattenSteps`), and if what is
claimed of them fails for one, it fails at a first one, after one it holds for (`Along`,
from the well-foundedness of the naturals). So `PageIsNew` says what a page adds,
`NewAtEnd` and `EchoReplaces` what a live message does, `DeleteEnds` what a deletion
leaves, and `GroupsAreExact` that the groups are the messages, cut where they must be.

The invariant `Inv` is about `Reached`, the rows the page has had (shown, deleted, cut off
or skipped): they have no hole, and in the room they end with the last row (`Covered`).
`NothingLost` follows. A page of older rows leaves no hole only if the time it was asked
with borders on rows that were reached (`Borders`), and that has to hold of every request
that is still to be answered and of every entry a request can still take its time from,
among them the page's own message before its echo and the card of an answer
(`Marks`); the entries in turn are known rows or were made after one that was reached
(`KnownEntry`), ids are distinct, and no row stands after the own entry (`WindowOK`).
Each handler has a lemma that says what window and view become (`Arrives`, `Sends`,
`Echoes`, `Opens`, `Removes`, `FirstComes`, `PageComes`) and one that the invariant is kept.

The other three rest on `Inv` and on a division of the steps by what they do to the
window (`StepKinds`): it stays (`Still`), a message more (`Grown`), the echo in place of the
own entry (`EchoTakes`), a deletion (`Removes`), the history of a join (`FirstComes`), a page of
older rows (`PageComes`). `BeginningReached` says that the rows reached have no hole down to
the first when `more` is off; its invariant (`Calm`) is that, while no load was given up and
no later join's history came, the window is in the order of time, at most one load is
unanswered and the page waits for it, and no row of the window is older than what it
asks for (`QueueCalm`). So a full page brings a row that is new, and a page that brings
none, or is short, is the last one. `Anchored` says when the
layout effect restores the position (`Restored`), and that it does when older messages
have come; it leaves out the last page, where the code clears the position instead. It
needs that the kept position is that of
the first entry of the window, or of the user's own, which its echo has replaced
since (`AnchorInv`). `BadgeHonest` needs that the last entry the user has seen is the last
one after every render (`Quiet`), and that the window is not empty once it is loaded and
nothing was deleted (`BadgeInv`): a badge counts from the last message seen, and the first
message of an empty window is not after one. That is why `BadgeCounts` assumes a room with
a message (`Rows # 0`): in an empty one, a user who leaves the bottom of the private
thread and comes back does not see the first message counted
(`MessageTranscript.tsx` 335-351).
In `Transcript` no other row is stored between the user's message and its echo, as
authors are given in order; `RoomFeed` has these orders.
The assumptions on the sizes (`1 < MessageCap <= HistoryCap`, pages of at most `HistoryCap`
rows) hold of the code's 500, 1000, 50 and 100.

Every invariant and action property of the runs is stated by a theorem. Only
model-checked are the liveness properties `PumpsEnd`, `CallsReturn` and `SpinnerEnds`:
liveness under fairness is out of reach of the provers.

## Not modelled

* Server side of accounts, invitations and OIDC: planned (below); the page's side is
  in `Login`.
* Rate limits, the assistant's cooldown and memory: planned; that a request may be
  refused is in `RoomFeed` and `Polls`, and that its answer is dropped on a full buffer in
  `Transcript`, `Panels` and `Notices`.
* Profiles, blocks, folders, custom emoji at the server: one row changed and told;
  their locks are in `Locks`.
* The LLM service, the identity provider and Turnstile are external; `Turnstile.tsx` is
  used by no page. Search and export only read.
* Rendering, texts, sound, themes, configuration and deployment keep no state of
  interest. Rooms beyond the public one are compatibility code.
* Unread counts and read receipts are fields set by one handler; receipts mark all of
  the user's messages, and polls and the pin bar are not restored by a reload, which
  the models take as they are.

## Plan

Done: `Hub` with `Sessions`, `ChatAPI`, `Locks`, `MessageWindow` and `RoomFeed`; the page:
`Transcript`, `Bubble`, `Composer`, `Panels`, `Login` and `PageEvents` with its parts; proofs
of all of them.

Left, in the order of importance:

1. `Accounts`: registration and invitation codes, OIDC round trip with its one-time
   stores and name collisions, the identity a join is given. Abstract specification:
   a name belongs to one identity for ever. Run: two users, one code with one use.
2. `SessionTakeover`: the hub's takeover and the client's reconnection composed, two
   pages of one account. Abstract specification: a session moves only when a user
   logs in.
3. `RateLimiter` and `LLMMemory`: sliding window against its definition; the file and a
   restart in the middle of writing it.

The number of runs is kept small: a module gets one comprehensive run, and a new
module shares one with what it composes.
