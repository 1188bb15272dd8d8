------------------------------- MODULE Composer -------------------------------
(***************************************************************************)
(* The input of the page: the text and its draft, editing an earlier       *)
(* message in it, the answered message, the list of names after an @, the  *)
(* emoji picker, and the typing indicator of the user at a page that is in *)
(* the room all along.                                                     *)
(*                                                                         *)
(* A text is one of Tokens; the user never types one twice, so a token     *)
(* that is sent twice is one text sent twice.  The draft is kept in the    *)
(* browser half a second after the last change.  The effects of a render   *)
(* belong to the step that causes it (Render).                             *)
(***************************************************************************)
EXTENDS Integers, FiniteSets, Sequences

CONSTANTS
  None,
  Tokens,   \* texts the user types
  MaxNames, \* bound: names the list after an @ shows
  MaxRoom   \* bound: messages of the user in the room

Empty == "empty"
Blank == "blank"  \* only spaces
At == "at"        \* ends with an @ and the beginning of a name
Texts == Tokens \cup {Empty, Blank, At}

ASSUME ComposerAssumption ==
  MaxNames \in Nat \ {0} /\ MaxRoom \in Nat /\ None \notin Texts \cup Nat
  /\ Tokens \cap {Empty, Blank, At} = {}

VARIABLES
  page,      \* "up", or "fallback": the input is replaced by that of its ErrorBoundary
  input,     \* state and refs of ChatInput and of its EmojiPicker
  draft,     \* of localStorage
  names,     \* how many names match what follows the @
  connected, \* to the room; a guest is not
  replyTo,   \* a message is being answered
  room,      \* the user's messages: text, and how the server knows them
  indicator, \* told: it is shown; recent: the server has had a start; missed, below
  \* what was done
  used,      \* tokens that were typed
  sentTexts, \* texts sent as messages
  kept       \* the draft is, or was, the text of an edit

outside == <<draft, names, connected, replyTo, room>>
ghosts == <<used, sentTexts, kept>>
vars == <<page, input, outside, ghosts, indicator>>

\* missed: what was to change the indicator last was lost, came too soon, or is over.
Indicators == [told : BOOLEAN, recent : BOOLEAN, missed : BOOLEAN]

HasContent(i) == i.text \notin {Empty, Blank}

\* ChatInput as it is mounted: the draft is loaded, and will be saved again.
Mounted(text) ==
  [text |-> text, saver |-> text, editing |-> None, stash |-> None,
   sending |-> FALSE, composing |-> FALSE, typing |-> FALSE,
   mention |-> FALSE, index |-> 0, query |-> FALSE, found |-> 0, picker |-> FALSE]

\* Mutant: the timer that runs is left to run.
BecomesLate(i, text) ==
  [i EXCEPT !.text = text, !.saver = IF @ = None THEN text ELSE @, !.query = i.query /\ text # Empty]

\* A text is set by code or typed: what is to be saved is put off.  The query of
\* the name list is that of the cursor, which only typing has moved already.
Becomes(i, text) == [i EXCEPT !.text = text, !.saver = text, !.query = i.query /\ text # Empty]
Typed(i, text) == [Becomes(i, text) EXCEPT !.query = (text = At)]

\* The list opens and closes when its length changes.
NamesListed(i, n) ==
  LET n1 == IF i.query THEN n ELSE 0 IN
  IF n1 = i.found THEN i ELSE [i EXCEPT !.found = n1, !.mention = n1 > 0, !.index = 0]

\* Mutant: the end of the connection leaves the flag.
TypingOnce(i, up) ==
  IF HasContent(i) /\ ~i.composing /\ up THEN TRUE ELSE IF ~HasContent(i) THEN FALSE ELSE i.typing

\* The typing flag after the effect.
TypingEffect(i, up) ==
  IF HasContent(i) /\ ~i.composing /\ up THEN TRUE
  ELSE IF ~HasContent(i) \/ ~up THEN FALSE ELSE i.typing

\* A start: the server lets one pass in three seconds, and a full send buffer none.
Started(r) ==
  IF r.recent THEN {[r EXCEPT !.missed = TRUE]}
  ELSE {[told |-> TRUE, recent |-> TRUE, missed |-> FALSE],
        [r EXCEPT !.recent = TRUE, !.missed = TRUE]}

\* A stop, or a message of the user, unless the send buffer is full.
Stopped(r) == {[r EXCEPT !.told = FALSE, !.missed = FALSE], [r EXCEPT !.missed = TRUE]}

\* Nothing is said at the end of a connection: the stop waits in a queue that the next
\* connect empties.
CutOff(r, i) == [r EXCEPT !.missed = @ \/ i.typing]

\* Start and stop are sent as the flag changes.
Tell(r, i, i1, up) ==
  indicator' \in IF i1.typing = i.typing THEN {r}
                 ELSE IF i1.typing THEN Started(r)
                 ELSE IF up THEN Stopped(r) ELSE {CutOff(r, i)}

RenderAfter(r, i, n, up) ==
  LET i1 == NamesListed(i, n) IN
  /\ input' = [i1 EXCEPT !.typing = TypingEffect(i1, up)]
  /\ Tell(r, i, input', up)

Render(i, n, up) == RenderAfter(indicator, i, n, up)

\* A step that changes nothing but the input.
Shows(i) ==
  /\ page = "up" /\ Render(i, names, connected)
  /\ UNCHANGED <<page, outside, sentTexts, kept>>

Unused(t) == t \in Tokens \ used /\ used' = used \cup {t}

Init ==
  /\ page = "up" /\ input = Mounted(Empty)
  /\ draft = Empty /\ names = 1 /\ connected = FALSE /\ replyTo = FALSE /\ room = <<>>
  /\ used = {} /\ sentTexts = {} /\ kept = FALSE
  /\ indicator = [told |-> FALSE, recent |-> FALSE, missed |-> FALSE]

-----------------------------------------------------------------------------
(* Typing                                                                  *)

Type(t) ==
  /\ t # input.text
  /\ IF t \in Tokens THEN Unused(t) ELSE used' = used
  /\ Shows(Typed(input, t))

Compose == Shows([input EXCEPT !.composing = ~@]) /\ UNCHANGED used

\* By the picker, which closes, or for the assistant that was clicked in the sidebar.
InsertEmoji(t) ==
  /\ input.picker /\ Unused(t) /\ Shows([Becomes(input, t) EXCEPT !.picker = FALSE])
InsertAssistant(t) == Unused(t) /\ Shows(Becomes(input, t))

\* The name takes the place of the query: of that of the last change.
InsertMention(t) ==
  /\ input.mention /\ input.query /\ input.index < input.found /\ Unused(t)
  /\ Shows([Becomes(input, t) EXCEPT !.mention = FALSE])

MoveHighlight ==
  /\ input.mention
  /\ \E k \in {input.index - 1, input.index + 1} \cap 0..(input.found - 1) :
       Shows([input EXCEPT !.index = k])
  /\ UNCHANGED used

\* Names come and go in the room.
NamesChange ==
  /\ page = "up"
  /\ names' \in 1..MaxNames /\ Render(input, names', connected)
  /\ UNCHANGED <<page, draft, connected, replyTo, room, ghosts>>

-----------------------------------------------------------------------------
(* The draft                                                               *)

\* The timer: what has content is kept.
SaveDraft ==
  /\ page = "up" /\ input.saver # None
  /\ draft' = IF input.saver \in {Empty, Blank} THEN Empty ELSE input.saver
  /\ input' = [input EXCEPT !.saver = None]
  /\ kept' = (draft' # Empty /\ (kept \/ input.editing # None))
  /\ UNCHANGED <<page, names, connected, replyTo, room, used, sentTexts, indicator>>

\* What the server does not have is not there when the page is opened again.
Remembered(m) == IF m.state = "local" THEN [m EXCEPT !.state = "deleted"] ELSE m

\* The page is left and opened again.
Reload ==
  /\ page' = "up" /\ input' = Mounted(draft)
  /\ connected' = FALSE /\ replyTo' = FALSE /\ indicator' = CutOff(indicator, input)
  /\ room' = [k \in 1..Len(room) |-> Remembered(room[k])]
  /\ UNCHANGED <<draft, names, ghosts>>

-----------------------------------------------------------------------------
(* Sending and editing                                                     *)

\* Mutant: the draft is left for the timer to remove.
AfterSendKeeping == draft

AfterSend == Empty

CanSend == page = "up" /\ ~input.sending /\ HasContent(input) /\ connected

\* The text gives way to what was stashed for an edit.
SentInput(i) ==
  [Becomes(i, IF i.editing # None THEN i.stash ELSE Empty) EXCEPT
     !.editing = None, !.stash = None, !.sending = TRUE, !.typing = FALSE]

\* Enter (when no list of names is open) or the button, which asks no list.  An edit
\* of what the server does not have, or has deleted, is lost.
HandleSend(enter) ==
  /\ CanSend /\ (enter => ~input.mention /\ ~input.composing)
  /\ IF input.editing # None
     THEN /\ UNCHANGED sentTexts
          /\ room' = IF room[input.editing].state = "known"
                     THEN [room EXCEPT ![input.editing].text = input.text] ELSE room
     ELSE /\ Len(room) < MaxRoom
          /\ sentTexts' = sentTexts \cup {input.text}
          /\ room' = Append(room, [text |-> input.text, state |-> "local"])
  /\ replyTo' = FALSE /\ draft' = AfterSend /\ kept' = (draft' # Empty /\ kept)
  /\ \E r \in IF input.typing \/ input.editing = None THEN Stopped(indicator) ELSE {indicator} :
       RenderAfter(r, SentInput(input), names, connected)
  /\ UNCHANGED <<page, names, connected, used>>

\* Half a second later the button works again.
MaySendAgain ==
  /\ page = "up" /\ input.sending
  /\ input' = [input EXCEPT !.sending = FALSE]
  /\ UNCHANGED <<page, outside, ghosts, indicator>>

\* The user's last message that is not deleted, whether the server has it or not.
LastOwn ==
  LET own == {k \in 1..Len(room) : room[k].state # "deleted"}
      last == {k \in own : \A j \in own : j <= k}
  IN  IF last = {} THEN None ELSE CHOOSE k \in last : TRUE

ArrowUp ==
  /\ page = "up" /\ input.text = Empty /\ ~input.mention /\ LastOwn # None
  /\ LET text == room[LastOwn].text IN
     Render([Becomes(input, text) EXCEPT !.editing = LastOwn, !.stash = input.text],
            names, connected)
  /\ replyTo' = FALSE
  /\ UNCHANGED <<page, draft, names, connected, room, ghosts>>

Cancelled(i) == [Becomes(i, i.stash) EXCEPT !.editing = None, !.stash = None]

\* The cross is not shown while a message is answered.
CancelEdit == input.editing # None /\ ~replyTo /\ Shows(Cancelled(input)) /\ UNCHANGED used

\* Escape in the input: it closes the list of names or ends the edit, and the keys of
\* the page clear the answered message and close the picker as well.
Escape ==
  /\ page = "up" /\ replyTo' = FALSE
  /\ LET i == [input EXCEPT !.picker = FALSE] IN
     Render(IF i.mention THEN [i EXCEPT !.mention = FALSE]
            ELSE IF i.editing # None THEN Cancelled(i) ELSE i, names, connected)
  /\ UNCHANGED <<page, draft, names, connected, room, ghosts>>

\* A message is answered from the transcript, or no longer.
SetReplyTo ==
  /\ page = "up" /\ replyTo' = ~replyTo
  /\ UNCHANGED <<page, input, draft, names, connected, room, ghosts, indicator>>

-----------------------------------------------------------------------------
(* The emoji picker                                                        *)

TogglePicker == Shows([input EXCEPT !.picker = ~@]) /\ UNCHANGED used

\* The tab of the custom emoji has number -1, and the emoji of that category are asked
\* for before it is known that they are not shown: an error in a render.  The boundary
\* around the input unmounts it, which ends the indicator, and never tries again.
CustomTab ==
  /\ page = "up" /\ input.picker
  /\ page' = "fallback" /\ input' = Mounted(Empty)
  /\ indicator' \in IF input.typing THEN Stopped(indicator) ELSE {indicator}
  /\ UNCHANGED <<outside, ghosts>>

-----------------------------------------------------------------------------
(* The connection and the room                                             *)

Connect ==
  /\ ~connected /\ connected' = TRUE
  /\ Render(input, names, TRUE)
  /\ UNCHANGED <<page, draft, names, replyTo, room, ghosts>>

Drop ==
  /\ connected /\ connected' = FALSE
  /\ Render(input, names, FALSE)
  /\ UNCHANGED <<page, draft, names, replyTo, room, ghosts>>

\* The echo of a message, or its deletion.
RoomAnswers(k) ==
  /\ connected /\ k \in 1..Len(room)
  /\ \/ room[k].state = "local" /\ room' = [room EXCEPT ![k].state = "known"]
     \/ room[k].state = "known" /\ room' = [room EXCEPT ![k].state = "deleted"]
  /\ UNCHANGED <<page, input, draft, names, connected, replyTo, ghosts, indicator>>

\* Three seconds after a start the server lets the next one pass.
CoolDown ==
  /\ indicator.recent /\ indicator' = [indicator EXCEPT !.recent = FALSE]
  /\ UNCHANGED <<page, input, outside, ghosts>>

\* Ten seconds after a start the indicator goes, though the user may be typing.
Expire ==
  /\ indicator.told /\ indicator' = [indicator EXCEPT !.told = FALSE, !.missed = input.typing]
  /\ UNCHANGED <<page, input, outside, ghosts>>

Next ==
  \/ \E t \in Texts : Type(t)
  \/ \E t \in Tokens : InsertEmoji(t) \/ InsertAssistant(t) \/ InsertMention(t)
  \/ Compose \/ MoveHighlight \/ NamesChange \/ SaveDraft \/ Reload
  \/ \E enter \in BOOLEAN : HandleSend(enter)
  \/ MaySendAgain \/ ArrowUp \/ CancelEdit \/ Escape \/ SetReplyTo
  \/ TogglePicker \/ CustomTab \/ Connect \/ Drop \/ CoolDown \/ Expire
  \/ \E k \in 1..MaxRoom : RoomAnswers(k)

Spec == Init /\ [][Next]_vars

-----------------------------------------------------------------------------
(* Properties                                                              *)

Inputs ==
  [text : Texts, saver : Texts \cup {None}, editing : 1..MaxRoom \cup {None},
   stash : Texts \cup {None}, sending : BOOLEAN, composing : BOOLEAN, typing : BOOLEAN,
   mention : BOOLEAN, index : 0..MaxNames, query : BOOLEAN, found : 0..MaxNames,
   picker : BOOLEAN]

\* Something is stashed exactly while a message is edited.
TypeOK ==
  /\ page \in {"up", "fallback"} /\ input \in Inputs
  /\ (input.editing = None) <=> (input.stash = None)
  /\ draft \in Texts /\ names \in 1..MaxNames /\ connected \in BOOLEAN /\ replyTo \in BOOLEAN
  /\ room \in Seq([text : Texts, state : {"local", "known", "deleted"}])
  /\ used \subseteq Tokens /\ kept \in BOOLEAN /\ indicator \in Indicators

\* The page takes it that it types exactly while there is a text and a connection, and
\* text under composition is told of when it is there already.  The room sees the same,
\* whatever drops, sends, edits and cancels come between, unless the last start or
\* stop was lost, came within three seconds of a start, was due when the connection
\* ended, or is ten seconds old.
TypingHonest ==
  /\ input.typing => HasContent(input) /\ connected
  /\ page = "up" /\ HasContent(input) /\ ~input.composing /\ connected => input.typing
  /\ ~indicator.missed => (indicator.told <=> input.typing)

\* Once the input is at rest, what a reload would bring back is what it holds.
DraftFollows ==
  page = "up" /\ input.saver = None => draft = IF HasContent(input) THEN input.text ELSE Empty

\* No text is sent as two messages: neither two clicks nor a reload between the send and
\* the removal of the draft bring it back.  (Not so if the page was left with an edit
\* in the input: its text becomes the draft of a new message.)
SentOnce ==
  [][Len(room') > Len(room) => kept \/ room'[Len(room')].text \notin sentTexts \ {At}]_vars

\* What is highlighted in the list of names is in the list.
HighlightInList == input.mention => input.index < input.found

\* What follows the text is in step with it: the draft a reload would bring back, the name
\* that Enter would take, and what an edit has put aside.
InputInv == TypeOK /\ DraftFollows /\ HighlightInList

-----------------------------------------------------------------------------
(* Statements the code does not keep                                       *)

\* The emoji picker shows the emoji of its tab, or the grid of the custom ones.
PickerShows == page = "up"

\* A message is edited or answered, never both: what is shown is what is sent.
EditCancelsReply == ~(replyTo /\ input.editing # None)

\* A message that is edited is one the server knows.
EditIsKnown == input.editing # None => room[input.editing].state = "known"

\* ChatInput.tsx 182: "Stop is also sent when the connection drops mid-typing so the room
\* never sees a ghost indicator."
NoGhost == indicator.told => HasContent(input) /\ connected

\* Who goes on typing is shown.
TypingShown == input.typing => indicator.told

\* The list of names is open only where a name is being typed.
ListWhereTyped == input.mention => input.text = At
=============================================================================
