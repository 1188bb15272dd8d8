------------------------------- MODULE Notices -------------------------------
(***************************************************************************)
(* The settings that mute the room, which are answered on the connection   *)
(* they were sent on unless its buffer is full, mentions, unread messages, *)
(* and the title of the page.                                              *)
(***************************************************************************)
EXTENDS Page, Integers, Sequences, FiniteSets, SequencesExt

CONSTANTS
  MaxSets, \* bound: settings that are on their way
  MaxSeen  \* bound: mentions and unread messages

\* A row, or what the page takes for one: 0 is not muted, 1 is a time to come.
Rows == [until : {0, 1}, preview : BOOLEAN]

ASSUME NoticesAssumption == None \notin Rows /\ {MaxSets, MaxSeen, MaxLost} \subseteq Nat

VARIABLES
  pref,       \* the row at the server: [until, preview]
  sets, late, \* settings sent on this connection, and on an earlier one
  echoes,     \* answers on this connection
  mute,       \* notificationPrefs and mutedConversations of the page
  passed,     \* the time until which the room is muted is over
  tab,        \* hidden, mentions, what the title says, unread messages, the mention shown
  \* for the properties
  unmuted,    \* a mute was ended
  stale       \* the page was not told of the row since it changed, or was joined with

prefVars == <<pref, sets, late, echoes, mute, passed, unmuted, stale>>
noticeVars == <<prefVars, tab>>

Tabs == [hidden : BOOLEAN, count : 0..MaxSeen, title : 0..MaxSeen, unread : 0..MaxSeen, mention : BOOLEAN]
NoPref == [until |-> 0, preview |-> TRUE]
NoMute == [row |-> None, listed |-> FALSE]
NoTab == [hidden |-> FALSE, count |-> 0, title |-> 0, unread |-> 0, mention |-> FALSE]

NoticesInit ==
  /\ pref \in {None, NoPref, [NoPref EXCEPT !.until = 1]}
  /\ sets = <<>> /\ late = <<>> /\ echoes = IF pref = None THEN <<>> ELSE <<pref>>
  /\ mute = NoMute /\ passed = FALSE /\ tab = NoTab /\ unmuted = FALSE /\ stale = FALSE

Ahead(until) == until = 1 /\ ~passed

\* isConversationMuted, and the panel's isMuted
Muted == mute.listed \/ (mute.row # None /\ Ahead(mute.row.until))
Row == IF mute.row = None THEN NoPref ELSE mute.row

Send(row) ==
  /\ Len(sets) + Len(late) + Len(echoes) < MaxSets /\ sets' = Append(sets, row)
  /\ UNCHANGED <<pref, late, echoes, mute, passed, stale, tab, lost>>

\* The panel offers to end a mute, and what it takes for the preview.
Unmute == Muted /\ Send([Row EXCEPT !.until = 0]) /\ unmuted' = TRUE

\* It sends the mute along as the page knows it.
TogglePreview ==
  /\ Muted \/ mute.row # None
  /\ Send([Row EXCEPT !.preview = ~@]) /\ unmuted' = unmuted

\* The answer is dropped if the buffer is full; without the row kept there is none.
HandleSet ==
  /\ sets # <<>> /\ sets' = Tail(sets)
  /\ \/ pref' = Head(sets) /\ echoes' = Append(echoes, pref') /\ stale' = FALSE /\ Reaches
     \/ pref' = Head(sets) /\ Lose /\ stale' = TRUE /\ UNCHANGED echoes
     \/ UNCHANGED <<pref, echoes, stale, lost>>
  /\ UNCHANGED <<late, mute, passed, unmuted, tab>>

\* The connection is gone, but what it received is still read, or not.
HandleLate ==
  /\ late # <<>> /\ late' = Tail(late)
  /\ (pref' = Head(late) /\ stale' = TRUE) \/ UNCHANGED <<pref, stale>>
  /\ UNCHANGED <<sets, echoes, mute, passed, unmuted, tab, lost>>

\* Mutant: the list of muted conversations only grows.
NotedGrowing(row) == [row |-> row, listed |-> mute.listed \/ Ahead(row.until)]

\* Both ways to keep it, from the same frame.
Noted(row) == [row |-> row, listed |-> Ahead(row.until)]

NotificationPrefs ==
  /\ echoes # <<>> /\ echoes' = Tail(echoes) /\ mute' = Noted(Head(echoes))
  /\ UNCHANGED <<pref, sets, late, passed, unmuted, stale, tab, lost>>

TimePasses ==
  /\ ~passed /\ passed' = TRUE
  /\ UNCHANGED <<pref, sets, late, echoes, mute, unmuted, stale, tab, lost>>

\* A join: what the server has is sent, if it has anything and the buffer is not full.
Joined ==
  /\ late' = late \o sets /\ sets' = <<>>
  /\ \/ echoes' = (IF pref = None THEN <<>> ELSE <<pref>>) /\ stale' = FALSE
     \/ pref # None /\ echoes' = <<>> /\ stale' = TRUE
  /\ UNCHANGED <<pref, passed, unmuted>>

Reconnect ==
  /\ Joined /\ late = <<>> /\ lost < MaxLost /\ lost' = lost + 1
  /\ UNCHANGED <<mute, tab>>

\* The title is changed where it is said to be, not where its number is.
Mention ==
  /\ tab.count < MaxSeen
  /\ tab' = [tab EXCEPT !.mention = TRUE, !.count = IF tab.hidden THEN @ + 1 ELSE @,
                        !.title = IF tab.hidden THEN tab.count + 1 ELSE @]
  /\ UNCHANGED <<prefVars, lost>>

DismissMention ==
  /\ tab.mention /\ tab' = [tab EXCEPT !.mention = FALSE]
  /\ UNCHANGED <<prefVars, lost>>

\* A message of the room, while the page is not looked at.
Message ==
  /\ tab.hidden /\ ~Muted /\ tab.unread < MaxSeen /\ tab' = [tab EXCEPT !.unread = @ + 1]
  /\ UNCHANGED <<prefVars, lost>>

LookedAt(t) == [t EXCEPT !.hidden = FALSE, !.count = 0, !.title = 0]

HandleVisibility ==
  /\ tab' = IF tab.hidden THEN LookedAt(tab) ELSE [tab EXCEPT !.hidden = TRUE]
  /\ UNCHANGED <<prefVars, lost>>

MarkRead(t) == [t EXCEPT !.unread = 0, !.count = 0, !.title = 0]

NoticesNext ==
  \/ Unmute \/ TogglePreview \/ HandleSet \/ HandleLate \/ NotificationPrefs \/ TimePasses \/ Reconnect
  \/ Mention \/ DismissMention \/ Message \/ HandleVisibility

-----------------------------------------------------------------------------
(* Properties                                                              *)

NoticesTypeOK ==
  /\ pref \in Rows \cup {None} /\ sets \in Seq(Rows) /\ late \in Seq(Rows) /\ echoes \in Seq(Rows)
  /\ mute \in [row : Rows \cup {None}, listed : BOOLEAN] /\ {passed, unmuted, stale} \subseteq BOOLEAN
  /\ tab \in Tabs

\* When no setting is on its way and the last row was told, the page has what the server
\* has, across reconnections and log-outs.  It need not be told: an answer, or the row at
\* a join, is dropped on a full buffer, or a setting still read from a connection that is
\* gone; the next one told makes up for it.  Told or not, the two forms of a mute agree.
PrefsSettle ==
  /\ sets = <<>> /\ echoes = <<>> /\ ~stale => mute.row = pref
  /\ mute.listed => mute.row # None /\ mute.row.until = 1
  /\ ~passed /\ mute.row # None /\ mute.row.until = 1 => mute.listed

\* The title counts the mentions since the page was looked at.
TitleTrue == tab.title = tab.count /\ (tab.count > 0 => tab.hidden)

\* Settings settle, and the title tells the truth.
NoticesInv == NoticesTypeOK /\ PrefsSettle /\ TitleTrue

-----------------------------------------------------------------------------
(* Statements the code does not keep                                       *)

\* A mute ends with its time.
MuteEnds == passed => ~Muted

\* When no setting is on its way, the page has the row of the server.
RowIsKnown == sets = <<>> /\ late = <<>> /\ echoes = <<>> => mute.row = pref

\* Who has ended a mute, and nothing is on its way, is not muted.
UnmuteStays == unmuted /\ sets = <<>> /\ echoes = <<>> => mute.row = None \/ mute.row.until = 0
==============================================================================
