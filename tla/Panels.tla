-------------------------------- MODULE Panels --------------------------------
(***************************************************************************)
(* What lies around the transcript: the search over all messages, the      *)
(* search in the conversation, the thread panel, the private space of the  *)
(* assistant, and the menus.                                               *)
(*                                                                         *)
(* Searches and the private history are asked for by HTTP, and answered in *)
(* any order; threads over the socket, in order, and each may go unanswered.*)
(***************************************************************************)
EXTENDS Integers, Sequences, FiniteSets, SequencesExt

CONSTANTS
  Nothing,
  Queries,  \* what is searched for
  Hits,     \* [Queries -> how many messages have it]
  Messages, \* those that have a thread
  Users,    \* who logs in on this page, one after the other
  MaxOut,   \* bound: requests that wait for an answer
  MaxClose  \* bound: closing panels

ASSUME PanelsAssumption ==
  Hits \in [Queries -> Nat] /\ MaxOut \in Nat /\ MaxClose \in Nat /\ Nothing \notin Queries \cup Messages \cup Users

VARIABLES
  search,   \* state of SearchBar
  out,      \* its requests, in the order they were sent
  conv,     \* state of ConversationSearch, and the highlighted term of ChatLayout
  thread,   \* parent, replies (of which message), closing timers
  wire,     \* requests for threads on the socket
  space,    \* "public" or "bot"
  user,     \* who is logged in
  fetches,  \* requests for the private history: whose, and whether still wanted
  private,  \* whose messages privateBotMessages holds
  overlays, \* menus, drawer and settings that are open
  \* for the properties
  overtook, \* an answer to a search overtook an earlier one
  heard,    \* since the panel was opened, and last, replies came
  crossed   \* it was opened while answers for other ones were to come

searchVars == <<search, out, overtook>>
threadGhosts == <<heard, crossed>>
threadVars == <<thread, wire, threadGhosts>>
spaceVars == <<space, user, fetches, private>>
panelsVars == <<searchVars, conv, threadVars, spaceVars, overlays>>

NoQuery == "none"

PanelsInit ==
  /\ search = [open |-> FALSE, query |-> NoQuery, timer |-> Nothing, results |-> Nothing,
               index |-> 0, loading |-> FALSE, error |-> FALSE]
  /\ out = <<>> /\ overtook = FALSE
  /\ conv = [open |-> FALSE, query |-> NoQuery, index |-> 0, highlight |-> FALSE]
  /\ thread = [parent |-> Nothing, replies |-> Nothing, closing |-> 0] /\ wire = <<>>
  /\ heard = FALSE /\ crossed = FALSE
  /\ space = "public" /\ user = Nothing /\ fetches = {} /\ private = {}
  /\ overlays = {}

HitCount(s) == IF s.results = Nothing THEN 0 ELSE Hits[s.results]

-----------------------------------------------------------------------------
(* The search over all messages                                            *)

\* Mutant: the timer that runs is left to run.
QueryBecomesLate(s, q) ==
  IF q = s.query THEN s
  ELSE IF q = NoQuery THEN [s EXCEPT !.query = q, !.timer = Nothing, !.results = Nothing, !.error = FALSE]
  ELSE [s EXCEPT !.query = q, !.timer = IF @ = Nothing THEN q ELSE @,
                 !.loading = TRUE, !.error = FALSE]

\* The effect on the query: without one nothing is found, and what was put off is not
\* asked any more; else the search is put off.
QueryBecomes(s, q) ==
  IF q = s.query THEN s
  ELSE IF q = NoQuery THEN [s EXCEPT !.query = q, !.timer = Nothing, !.results = Nothing, !.error = FALSE]
  ELSE [s EXCEPT !.query = q, !.timer = q, !.loading = TRUE, !.error = FALSE]

Emptied(s) == [QueryBecomes(s, NoQuery) EXCEPT !.results = Nothing]

ToggleSearch ==
  /\ search' = [Emptied(search) EXCEPT !.open = ~@, !.error = FALSE]
  /\ UNCHANGED <<out, overtook, conv, threadVars, spaceVars, overlays>>

TypeQuery(q) ==
  /\ search.open /\ search' = QueryBecomes(search, q)
  /\ UNCHANGED <<out, overtook, conv, threadVars, spaceVars, overlays>>

\* 300 ms after the last change.
Search ==
  /\ search.timer # Nothing /\ Len(out) < MaxOut
  /\ out' = Append(out, search.timer) /\ search' = [search EXCEPT !.timer = Nothing]
  /\ overtook' = (overtook /\ out # <<>>)
  /\ UNCHANGED <<conv, threadVars, spaceVars, overlays>>

Answered(s, q, ok) ==
  LET done == [s EXCEPT !.loading = FALSE, !.index = 0] IN
  IF ok THEN [done EXCEPT !.results = q] ELSE [done EXCEPT !.error = TRUE]

\* Whatever the query is by now.
SearchAnswers(k, ok) ==
  /\ k \in DOMAIN out
  /\ search' = Answered(search, out[k], ok) /\ out' = RemoveAt(out, k)
  /\ overtook' = (overtook \/ k > 1)
  /\ UNCHANGED <<conv, threadVars, spaceVars, overlays>>

\* Up and down, in both searches: without results, down leads nowhere.
NextIndex(index, n) ==
  {IF index > 0 THEN index - 1 ELSE 0, IF index + 1 < n THEN index + 1 ELSE n - 1}

MoveSelection ==
  /\ search.open
  /\ \E k \in NextIndex(search.index, HitCount(search)) : search' = [search EXCEPT !.index = k]
  /\ UNCHANGED <<out, overtook, conv, threadVars, spaceVars, overlays>>

\* A result is chosen, or the page beside is clicked.
LeaveSearch(chosen) ==
  /\ search.open /\ chosen => HitCount(search) > 0
  /\ search' = [IF chosen THEN Emptied(search) ELSE search EXCEPT !.open = FALSE]
  /\ UNCHANGED <<out, overtook, conv, threadVars, spaceVars, overlays>>

-----------------------------------------------------------------------------
(* The search in the conversation                                          *)

\* The effects of a render: closing forgets the query, and the term follows.
Highlighted(c) ==
  IF c.open THEN [c EXCEPT !.highlight = c.query # NoQuery]
  ELSE [c EXCEPT !.query = NoQuery, !.index = 0, !.highlight = FALSE]

Found(c) == IF c.query = NoQuery THEN 0 ELSE Hits[c.query]

ToggleConversationSearch ==
  /\ conv' = Highlighted([conv EXCEPT !.open = ~@])
  /\ UNCHANGED <<searchVars, threadVars, spaceVars, overlays>>

\* The selection begins anew when the number of matches changes.
TypeInConversation(q) ==
  /\ conv.open
  /\ conv' = Highlighted([conv EXCEPT !.query = q,
               !.index = IF Found([conv EXCEPT !.query = q]) = Found(conv) THEN @ ELSE 0])
  /\ UNCHANGED <<searchVars, threadVars, spaceVars, overlays>>

MoveInConversation ==
  /\ conv.open
  /\ \E k \in NextIndex(conv.index, Found(conv)) : conv' = [conv EXCEPT !.index = k]
  /\ UNCHANGED <<searchVars, threadVars, spaceVars, overlays>>

-----------------------------------------------------------------------------
(* The thread panel                                                        *)

\* Mutant: while an answer is on its way nothing is asked for.
AskedOnce(m) == IF wire = <<>> THEN <<m>> ELSE wire

Asked(m) == Append(wire, m)

HandleOpenThread(m) ==
  /\ Len(wire) < MaxOut
  /\ thread' = [thread EXCEPT !.parent = m, !.replies = Nothing] /\ wire' = Asked(m)
  /\ heard' = FALSE /\ crossed' = (ToSet(wire) \ {m} # {})
  /\ UNCHANGED <<searchVars, conv, spaceVars, overlays>>

\* The page does not look for which message they are.
ThreadAnswers ==
  /\ wire # <<>> /\ wire' = Tail(wire)
  /\ thread' = [thread EXCEPT !.replies = Head(wire)]
  /\ heard' = (thread.parent # Nothing)
  /\ UNCHANGED <<searchVars, conv, spaceVars, overlays, crossed>>

\* An answer is dropped on a full buffer, or there are no replies: the list is left out of
\* the frame, and the page does nothing.
NothingComes ==
  /\ wire # <<>> /\ wire' = Tail(wire) /\ heard' = FALSE
  /\ UNCHANGED <<searchVars, conv, thread, spaceVars, overlays, crossed>>

\* The connection is lost, and what is asked and queued until the next one with it.
SocketCloses ==
  /\ wire # <<>> /\ wire' = <<>> /\ heard' = FALSE
  /\ UNCHANGED <<searchVars, conv, thread, spaceVars, overlays, crossed>>

\* The panel slides out first.
HandleClose ==
  /\ thread.parent # Nothing /\ thread.closing < MaxClose
  /\ thread' = [thread EXCEPT !.closing = @ + 1]
  /\ UNCHANGED <<searchVars, conv, wire, spaceVars, overlays, threadGhosts>>

\* 200 ms later, whichever is open.
HandleCloseThread ==
  /\ thread.closing > 0
  /\ thread' = [parent |-> Nothing, replies |-> Nothing, closing |-> thread.closing - 1]
  /\ heard' = FALSE /\ crossed' = FALSE
  /\ UNCHANGED <<searchVars, conv, wire, spaceVars, overlays>>

-----------------------------------------------------------------------------
(* The private space                                                       *)

\* Entering asks for the history, if there is a session; leaving cancels.  Both close
\* the search in the conversation and the menus.
HandleSpaceSelect(s) ==
  /\ s # space /\ space' = s
  /\ fetches' = {[f EXCEPT !.wanted = FALSE] : f \in fetches} \cup
       (IF s = "bot" /\ user # Nothing THEN {[of |-> user, wanted |-> TRUE]} ELSE {})
  /\ Cardinality(fetches') <= MaxOut
  /\ conv' = Highlighted([conv EXCEPT !.open = FALSE])
  /\ overlays' = overlays \ {"sidebar", "mobile"}
  /\ UNCHANGED <<searchVars, threadVars, user, private>>

\* Mutant: an answer nobody waits for is taken, too.
TakenAlways(f) == private \cup {f.of}

Taken(f) == IF f.wanted THEN private \cup {f.of} ELSE private

HistoryAnswers(f) ==
  /\ f \in fetches /\ fetches' = fetches \ {f} /\ private' = Taken(f)
  /\ UNCHANGED <<searchVars, conv, threadVars, space, user, overlays>>

\* A private message, to or from the assistant.
PrivateMessage ==
  /\ user # Nothing /\ private' = private \cup {user}
  /\ UNCHANGED <<searchVars, conv, threadVars, space, user, fetches, overlays>>

Login(u) ==
  /\ user = Nothing /\ user' = u
  /\ UNCHANGED <<searchVars, conv, threadVars, space, fetches, private, overlays>>

\* The store is reset, but for the private messages; the panels are not in the store.
HandleDisconnect ==
  /\ user # Nothing /\ user' = Nothing
  /\ UNCHANGED <<searchVars, conv, threadVars, space, fetches, private, overlays>>

-----------------------------------------------------------------------------
(* Keys and menus                                                          *)

ToggleOverlay(o) ==
  /\ overlays' = IF o \in overlays THEN overlays \ {o}
                 ELSE (IF o = "settings" THEN overlays \ {"more", "mobile"} ELSE overlays) \cup {o}
  /\ UNCHANGED <<searchVars, conv, threadVars, spaceVars>>

\* Every listener of the page gets the key: the search gives up its query or closes, the
\* thread closes at once, the menus close.  The search in the conversation closes if
\* the focus is in it.
Escape(inConversation) ==
  /\ search' = IF ~search.open THEN search
               ELSE IF search.query # NoQuery THEN Emptied(search)
               ELSE [search EXCEPT !.open = FALSE]
  /\ thread' = [thread EXCEPT !.parent = Nothing, !.replies = Nothing]
  /\ overlays' = {}
  /\ conv' = IF inConversation THEN Highlighted([conv EXCEPT !.open = FALSE]) ELSE conv
  /\ heard' = FALSE /\ crossed' = FALSE
  /\ UNCHANGED <<out, overtook, wire, spaceVars>>

PanelsNext ==
  \/ ToggleSearch \/ Search \/ MoveSelection
  \/ \E q \in Queries \cup {NoQuery} : TypeQuery(q) \/ TypeInConversation(q)
  \/ \E k \in 1..MaxOut, ok \in BOOLEAN : SearchAnswers(k, ok)
  \/ \E b \in BOOLEAN : LeaveSearch(b) \/ Escape(b)
  \/ ToggleConversationSearch \/ MoveInConversation
  \/ \E m \in Messages : HandleOpenThread(m)
  \/ ThreadAnswers \/ NothingComes \/ SocketCloses \/ HandleClose \/ HandleCloseThread
  \/ \E s \in {"public", "bot"} : HandleSpaceSelect(s)
  \/ \E f \in fetches : HistoryAnswers(f)
  \/ PrivateMessage \/ HandleDisconnect \/ \E u \in Users : Login(u)
  \/ \E o \in {"sidebar", "settings", "more", "mobile"} : ToggleOverlay(o)

PanelsSpec == PanelsInit /\ [][PanelsNext]_panelsVars

-----------------------------------------------------------------------------
(* Properties                                                              *)

PanelsTypeOK ==
  /\ search \in [open : BOOLEAN, query : Queries \cup {NoQuery}, timer : Queries \cup {Nothing},
                 results : Queries \cup {Nothing}, index : Nat \cup {-1}, loading : BOOLEAN, error : BOOLEAN]
  /\ out \in Seq(Queries) /\ overtook \in BOOLEAN
  /\ conv \in [open : BOOLEAN, query : Queries \cup {NoQuery}, index : Nat \cup {-1}, highlight : BOOLEAN]
  /\ thread \in [parent : Messages \cup {Nothing}, replies : Messages \cup {Nothing}, closing : 0..MaxClose]
  /\ wire \in Seq(Messages) /\ space \in {"public", "bot"} /\ user \in Users \cup {Nothing}
  /\ fetches \subseteq [of : Users, wanted : BOOLEAN]
  /\ private \subseteq Users /\ heard \in BOOLEAN /\ crossed \in BOOLEAN

\* When nothing is put off or on its way, the search shows what its query has, or an
\* error, and no spinner.  (Not so if an answer overtook an earlier one.)
SearchSettles ==
  search.query # NoQuery /\ search.timer = Nothing /\ out = <<>> =>
    ~search.loading /\ (overtook \/ search.error \/ search.results = search.query)

\* Enter chooses one of the results that are shown, in both searches.
SelectionInRange ==
  /\ HitCount(search) > 0 => search.index \in 0..(HitCount(search) - 1)
  /\ Found(conv) > 0 => conv.index \in 0..(Found(conv) - 1)

\* When nothing is on its way the thread panel shows the replies to its message, if the
\* last request was answered, whatever panels were opened and closed and answers came to
\* nothing before.  Replies to another message are shown only in a panel that was opened
\* while their answer was to come.
ThreadSettles ==
  thread.parent # Nothing =>
    /\ wire = <<>> /\ heard => thread.replies = thread.parent
    /\ ~crossed => thread.replies \in {Nothing, thread.parent}

\* Messages are marked only while the search that marks them is open.
HighlightEnds == conv.highlight => conv.open /\ conv.query # NoQuery

\* Both searches show, select and mark what belongs to their query, however typing, answers
\* and closing overlap.
SearchInv == PanelsTypeOK /\ SearchSettles /\ SelectionInRange /\ HighlightEnds

\* The private history that is taken is what this stay in the space has asked for: one that
\* comes when the user has left, or left and entered again, is dropped.
HistoryIsWanted ==
  [][fetches' # fetches /\ private' # private => space = "bot" /\ \A f \in fetches' : ~f.wanted]_panelsVars

-----------------------------------------------------------------------------
(* Statements the code does not keep                                       *)

\* A log-out resets the state of the page: what is in it is the current user's.
PrivateIsOwn == private \subseteq {user} \/ user = Nothing

\* A spinner is there while something is put off or on its way.
LoadingEnds == search.loading => search.timer # Nothing \/ out # <<>>

\* A panel closes because it was closed: none opens while the timer of another runs,
\* which would close it.
ClosedByHand == [][thread'.parent \notin {Nothing, thread.parent} => thread'.closing = 0]_panelsVars

\* The panel shows replies to its message.  Those of the panel before may come first, and
\* if nothing comes after them they stay.
RepliesOfParent == thread.parent # Nothing => thread.replies \in {Nothing, thread.parent}
=============================================================================
