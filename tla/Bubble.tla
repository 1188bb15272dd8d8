-------------------------------- MODULE Bubble --------------------------------
(***************************************************************************)
(* The messages of the transcript under the user's hands: long press and   *)
(* drag to select, swipe to reveal actions, context menu, editing in       *)
(* place, reactions, and the bar of the selection.                         *)
(*                                                                         *)
(* A bubble keeps its state while it is mounted.  Pointers and fingers do  *)
(* what they like; an open menu or picker covers the page, but keys and a  *)
(* finger that is down already reach what is below.                        *)
(***************************************************************************)
EXTENDS Integers, FiniteSets

CONSTANTS
  None,
  Messages,  \* the messages the transcript may show
  Mine,      \* those of the user of the page
  Dead,      \* those that are shown as deleted
  MaxPress   \* bound: long-press timers alive at once

ASSUME BubbleAssumption ==
  /\ Mine \subseteq Messages /\ Dead \subseteq Messages
  /\ MaxPress \in Nat

VARIABLES
  shown,    \* messages that are mounted
  bubble,   \* [Messages -> the state and refs of a MessageBubble]
  timers,   \* alive long-press timers: <<message, number>>
  sel,      \* select mode of the transcript: mode, selected ids, dragSelectRef
  replyTo,  \* the message the input answers
  sent,     \* the request of the last step: its kind and its messages, or <<>>
  \* for the properties
  crowded,  \* messages pressed by a second finger before the first timer ended
  torn,     \* messages with a swipe that was cancelled or joined by a second finger
  strayed   \* select mode was left with a drag under way

gestures == <<shown, bubble, timers, sel>>
page == <<gestures, replyTo>>
ghosts == <<crowded, torn, strayed>>
vars == <<page, sent, ghosts>>

\* Where a bubble is: in place, a bit to the left, beyond the snap threshold (where
\* it stays if it is left there).
Places == 0..2
Opened == 2

Fresh ==
  [ref |-> 0, menu |-> FALSE, picker |-> FALSE, editing |-> FALSE, x |-> 0,
   actions |-> FALSE, active |-> FALSE, sideways |-> FALSE]

Init ==
  /\ shown = Messages /\ bubble = [m \in Messages |-> Fresh]
  /\ timers = {} /\ sel = [mode |-> FALSE, ids |-> {}, drag |-> FALSE]
  /\ replyTo = None /\ sent = <<>>
  /\ crowded = {} /\ torn = {} /\ strayed = FALSE

Uncovered == \A m \in shown : ~bubble[m].menu /\ ~bubble[m].picker

Request(kind, ids) == sent' = <<kind, ids>>
Silent == sent' = <<>>

-----------------------------------------------------------------------------
(* Long press                                                              *)

\* Mutant: the timer outlives the press.
ClearLongPressNot(m) == timers

ClearLongPress(m) == timers \ {<<m, bubble[m].ref>>}

Thins == crowded' = {m \in crowded : \E t \in timers' : t[1] = m}

\* Select mode starts with the message held, and dragging selects more.
StartDragSelect(m) ==
  /\ sel' = [mode |-> TRUE, ids |-> {m}, drag |-> TRUE]
  /\ strayed' = FALSE

\* Any button, any finger.  The timer of an earlier press is forgotten.
PointerDown(m) ==
  /\ m \in shown \ Dead /\ Uncovered /\ ~sel.mode
  /\ Cardinality(timers) < MaxPress
  /\ \E k \in 1..MaxPress :
       /\ <<m, k>> \notin timers /\ \A j \in 1..(k - 1) : <<m, j>> \in timers
       /\ timers' = timers \cup {<<m, k>>}
       /\ bubble' = [bubble EXCEPT ![m].ref = k]
  /\ crowded' = IF \E t \in timers : t[1] = m THEN crowded \cup {m} ELSE crowded
  /\ Silent /\ UNCHANGED <<shown, sel, replyTo, torn, strayed>>

\* Released or cancelled over a message, or over none.
PointerUp(m) ==
  /\ m \in shown \cup {None}
  /\ IF m = None THEN UNCHANGED <<timers, bubble>>
     ELSE timers' = ClearLongPress(m) /\ bubble' = [bubble EXCEPT ![m].ref = 0]
  /\ sel' = [sel EXCEPT !.drag = FALSE]
  /\ Thins /\ Silent /\ UNCHANGED <<shown, replyTo, torn, strayed>>

\* Half a second after the press, whatever the mode is by now.  (A reference to a
\* timer that has ended is none.)
LongPress(t) ==
  /\ t \in timers
  /\ timers' = timers \ {t} /\ Thins
  /\ bubble' = [bubble EXCEPT ![t[1]].ref = IF @ = t[2] THEN 0 ELSE @]
  /\ StartDragSelect(t[1])
  /\ Silent /\ UNCHANGED <<shown, replyTo, torn>>

\* Over a message while dragging; it asks for no mode.
HandleDragSelectEnter(m) ==
  /\ m \in shown /\ sel.drag
  /\ sel' = [sel EXCEPT !.ids = @ \cup {m}]
  /\ Silent /\ UNCHANGED <<shown, bubble, timers, replyTo, ghosts>>

-----------------------------------------------------------------------------
(* Selecting                                                               *)

\* Mutant: what was selected is kept.
ExitSelectModeKeeping == [sel EXCEPT !.mode = FALSE]

ExitSelectMode == [sel EXCEPT !.mode = FALSE, !.ids = {}]

Strays == strayed' = (strayed \/ (sel.drag /\ ~sel'.mode))

ToggleSelect(m) ==
  sel' = IF m \notin sel.ids THEN [sel EXCEPT !.ids = @ \cup {m}]
         ELSE IF sel.ids = {m} THEN [sel EXCEPT !.ids = {}, !.mode = FALSE]
         ELSE [sel EXCEPT !.ids = @ \ {m}]

\* A click closes open swipe actions, or selects.
HandleBubbleClick(m) ==
  /\ m \in shown /\ Uncovered
  /\ IF bubble[m].actions
     THEN bubble' = [bubble EXCEPT ![m].x = 0, ![m].actions = FALSE] /\ UNCHANGED sel
     ELSE sel.mode /\ ToggleSelect(m) /\ UNCHANGED bubble
  /\ Strays /\ torn' = IF bubble[m].actions THEN torn \ {m} ELSE torn
  /\ Silent /\ UNCHANGED <<shown, timers, replyTo, crowded>>

HandleSelectAll ==
  /\ sel.mode
  /\ sel' = [sel EXCEPT !.ids = shown \ Dead]
  /\ Silent /\ UNCHANGED <<shown, bubble, timers, replyTo, ghosts>>

\* The ids may be of messages that are gone, or other users'.
BatchDeletes == sel.ids \cap shown \cap Mine

HandleBatchDelete ==
  /\ sel.mode
  /\ Request("delete", BatchDeletes)
  /\ sel' = ExitSelectMode /\ Strays
  /\ UNCHANGED <<shown, bubble, timers, replyTo, crowded, torn>>

\* The bar's cross, or a click beside the messages.
LeaveSelectMode ==
  /\ sel.mode
  /\ sel' = ExitSelectMode /\ Strays
  /\ Silent /\ UNCHANGED <<shown, bubble, timers, replyTo, crowded, torn>>

-----------------------------------------------------------------------------
(* Swiping                                                                 *)

\* (Bound: one bubble moves at a time.)
OnTouchStart(m) ==
  /\ m \in shown \ Dead /\ Uncovered /\ ~sel.mode
  /\ \A n \in Messages \ {m} : ~bubble[n].active
  /\ bubble' = [bubble EXCEPT ![m].active = TRUE, ![m].sideways = FALSE]
  /\ torn' = IF bubble[m].active THEN torn \cup {m} ELSE torn
  /\ Silent /\ UNCHANGED <<shown, timers, sel, replyTo, crowded, strayed>>

\* Sideways to another place, or up and down: then the gesture is a scroll.
OnTouchMove(m, to) ==
  /\ m \in shown /\ bubble[m].active
  /\ bubble' = [bubble EXCEPT ![m] =
                  IF to \in Places THEN [@ EXCEPT !.sideways = TRUE, !.x = to]
                  ELSE IF @.sideways THEN @ ELSE [@ EXCEPT !.active = FALSE]]
  /\ Silent /\ UNCHANGED <<shown, timers, sel, replyTo, ghosts>>

\* The bubble snaps open or back.
Snapped(b) ==
  LET settled == [b EXCEPT !.active = FALSE, !.sideways = FALSE] IN
  IF ~b.active \/ ~b.sideways THEN settled
  ELSE [settled EXCEPT !.x = IF b.x >= Opened THEN Opened ELSE 0, !.actions = b.x >= Opened]

OnTouchEnd(m) ==
  /\ m \in shown /\ bubble[m].active
  /\ bubble' = [bubble EXCEPT ![m] = Snapped(@)]
  /\ torn' = IF bubble[m].sideways THEN torn \ {m} ELSE torn
  /\ Silent /\ UNCHANGED <<shown, timers, sel, replyTo, crowded, strayed>>

\* The browser takes the touch away: nothing listens to that.
TouchCancel(m) ==
  /\ m \in shown /\ bubble[m].active
  /\ torn' = torn \cup {m}
  /\ Silent /\ UNCHANGED <<page, crowded, strayed>>

\* The buttons behind a bubble: each closes the actions.
SwipeAction(m) ==
  /\ m \in shown /\ Uncovered /\ bubble[m].x > 0
  /\ bubble' = [bubble EXCEPT ![m].x = 0, ![m].actions = FALSE]
  /\ \/ replyTo' \in {m, replyTo} /\ Silent  \* reply, or copy
     \/ m \in Mine /\ Request("delete", {m}) /\ UNCHANGED replyTo
  /\ torn' = torn \ {m}
  /\ UNCHANGED <<shown, timers, sel, crowded, strayed>>

-----------------------------------------------------------------------------
(* The context menu                                                        *)

\* By the right button, or the button of the bubble.
HandleContextMenu(m) ==
  /\ m \in shown \ Dead /\ ~sel.mode /\ Uncovered
  /\ bubble' = [bubble EXCEPT ![m].menu = TRUE]
  /\ Silent /\ UNCHANGED <<shown, timers, sel, replyTo, ghosts>>

\* Outside of the menu.
CloseMenu(m) ==
  /\ m \in shown /\ bubble[m].menu
  /\ bubble' = [bubble EXCEPT ![m].menu = FALSE]
  /\ Silent /\ UNCHANGED <<shown, timers, sel, replyTo, ghosts>>

\* Mutant: every item for every message.
MenuItemsAll(m) == {"reply", "copy", "react", "translate", "edit", "pin", "select", "delete"}

MenuItems(m) ==
  {"reply", "copy", "react", "pin", "select"}
    \cup (IF m \in Mine THEN {"edit", "delete"} ELSE {"translate"})

\* An item is chosen: the menu closes, and then.
ChooseItem(m, item) ==
  /\ m \in shown /\ bubble[m].menu /\ item \in MenuItems(m)
  /\ bubble' = [bubble EXCEPT ![m] =
       CASE item = "react" -> [@ EXCEPT !.menu = FALSE, !.picker = TRUE]
         [] item = "edit" -> [@ EXCEPT !.menu = FALSE, !.editing = TRUE]
         [] OTHER -> [@ EXCEPT !.menu = FALSE]]
  /\ replyTo' = IF item = "reply" THEN m ELSE replyTo
  /\ IF item \in {"pin", "translate", "delete"} THEN Request(item, {m}) ELSE Silent
  /\ IF item = "select" THEN StartDragSelect(m) ELSE UNCHANGED <<sel, strayed>>
  /\ UNCHANGED <<shown, timers, crowded, torn>>

DoubleClick(m) ==
  /\ m \in shown \ Dead /\ Uncovered /\ ~sel.mode
  /\ replyTo' = m
  /\ Silent /\ UNCHANGED <<shown, bubble, timers, sel, ghosts>>

-----------------------------------------------------------------------------
(* Reactions and editing                                                   *)

\* From the bar under a message, or from the picker, which closes.
HandleAddReaction(m) ==
  /\ m \in shown \ Dead
  /\ bubble[m].picker \/ (Uncovered /\ ~sel.mode)
  /\ Request("react", {m})
  /\ bubble' = [bubble EXCEPT ![m].picker = FALSE]
  /\ UNCHANGED <<shown, timers, sel, replyTo, ghosts>>

\* Enter, or the button, with a text that is not blank.
SaveEdit(m) ==
  /\ m \in shown /\ bubble[m].editing
  /\ Request("edit", {m})
  /\ bubble' = [bubble EXCEPT ![m].editing = FALSE]
  /\ UNCHANGED <<shown, timers, sel, replyTo, ghosts>>

CancelEdit(m) ==
  /\ m \in shown /\ bubble[m].editing
  /\ bubble' = [bubble EXCEPT ![m].editing = FALSE]
  /\ Silent /\ UNCHANGED <<shown, timers, sel, replyTo, ghosts>>

\* Escape, with the focus in the text of message at, or in none: every menu and
\* picker closes, and select mode ends.
Escape(at) ==
  /\ at \in {None} \cup {m \in shown : bubble[m].editing}
  /\ bubble' = [m \in Messages |->
       [bubble[m] EXCEPT !.menu = FALSE, !.picker = FALSE,
                         !.editing = @ /\ m # at]]
  /\ replyTo' = None
  /\ sel' = ExitSelectMode /\ Strays
  /\ Silent /\ UNCHANGED <<shown, timers, crowded, torn>>

-----------------------------------------------------------------------------
(* The transcript                                                          *)

\* A bubble goes: the message was deleted, or an echo or an older message gives it
\* or its group another key (then it is back at once, as new).
Unmount(m, back) ==
  /\ m \in shown
  /\ shown' = IF back THEN shown ELSE shown \ {m}
  /\ timers' = ClearLongPress(m)
  /\ bubble' = [bubble EXCEPT ![m] = Fresh]
  /\ torn' = torn \ {m}
  /\ Thins /\ Silent /\ UNCHANGED <<sel, replyTo, strayed>>

-----------------------------------------------------------------------------

Next ==
  \/ \E m \in Messages :
       \/ PointerDown(m) \/ HandleDragSelectEnter(m) \/ HandleBubbleClick(m)
       \/ OnTouchStart(m) \/ \E to \in Places \cup {Opened + 1} : OnTouchMove(m, to)
       \/ OnTouchEnd(m) \/ TouchCancel(m) \/ SwipeAction(m)
       \/ HandleContextMenu(m) \/ CloseMenu(m) \/ \E item \in MenuItems(m) : ChooseItem(m, item)
       \/ DoubleClick(m) \/ HandleAddReaction(m)
       \/ SaveEdit(m) \/ CancelEdit(m) \/ \E back \in BOOLEAN : Unmount(m, back)
  \/ \E m \in Messages \cup {None} : PointerUp(m) \/ Escape(m)
  \/ \E t \in timers : LongPress(t)
  \/ HandleSelectAll \/ HandleBatchDelete \/ LeaveSelectMode

Spec == Init /\ [][Next]_vars

-----------------------------------------------------------------------------
(* Properties                                                              *)

Bubbles ==
  [ref : 0..MaxPress, menu : BOOLEAN, picker : BOOLEAN, editing : BOOLEAN,
   x : Places, actions : BOOLEAN, active : BOOLEAN, sideways : BOOLEAN]

TypeOK ==
  /\ shown \subseteq Messages /\ bubble \in [Messages -> Bubbles]
  /\ timers \subseteq Messages \X (1..MaxPress)
  /\ sel \in [mode : BOOLEAN, ids : SUBSET Messages, drag : BOOLEAN]
  /\ replyTo \in Messages \cup {None}
  /\ \A m \in Messages \ shown : bubble[m] = Fresh

\* Whatever the way (bar, menu, swipe button, text), a delete or an edit is asked
\* for the user's own messages only, and a request only for what is on the page: a
\* selection that outlived its messages asks for nothing.
RequestsAreDue ==
  [][sent' # <<>> =>
       /\ sent'[2] \subseteq shown
       /\ sent'[1] \in {"delete", "edit"} => sent'[2] \subseteq Mine]_vars

\* A timer that runs belongs to the last press of a message that is still mounted,
\* so that letting go stops it.  (Not so after a second finger on one message.)
PressCanBeEnded ==
  \A t \in timers : t[1] \in crowded \/ (t[1] \in shown /\ bubble[t[1]].ref = t[2])

\* A bubble that no finger moves is closed, or open with its actions shown.  (Not so
\* after a cancelled touch or a second finger.)
SwipeRests ==
  \A m \in shown \ torn : ~bubble[m].active =>
    bubble[m].x \in {0, Opened} /\ (bubble[m].actions <=> bubble[m].x = Opened)

\* Every gesture has an end: a press by letting go, a swipe by resting closed or open, and
\* what was on its way goes with the bubble.
GesturesInv == TypeOK /\ PressCanBeEnded /\ SwipeRests

\* Outside of select mode nothing is selected.  (Not so if the mode was left while
\* dragging.)
SelectionInMode == sel.ids = {} \/ sel.mode \/ strayed
=============================================================================
