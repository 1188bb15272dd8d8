----------------------------- MODULE BubbleProofs -----------------------------
(***************************************************************************)
(* Proofs about Bubble, for any messages and any number of fingers.        *)
(***************************************************************************)
EXTENDS Bubble, TLAPS

\* Closed, or open with its actions shown.
Resting(b) == b.x \in {0, Opened} /\ (b.actions <=> b.x = Opened)

\* Only a bubble that a finger moves sideways is between two places, and only the user's
\* own are edited.
BubblePart ==
  /\ shown \subseteq Messages /\ bubble \in [Messages -> Bubbles]
  /\ \A m \in Messages \ shown : bubble[m] = Fresh
  /\ \A m \in Messages : bubble[m].editing => m \in Mine
  /\ \A m \in shown \ torn : (bubble[m].active /\ bubble[m].sideways) \/ Resting(bubble[m])

PressPart == timers \subseteq Messages \X (1..MaxPress) /\ PressCanBeEnded

\* What drags outside of select mode strayed.
SelPart ==
  /\ sel \in [mode : BOOLEAN, ids : SUBSET Messages, drag : BOOLEAN]
  /\ SelectionInMode
  /\ sel.drag => sel.mode \/ strayed

IInv == BubblePart /\ PressPart /\ SelPart /\ replyTo \in Messages \cup {None}

-----------------------------------------------------------------------------
(* Bubbles                                                                 *)

LEMMA FreshIs == /\ Fresh \in Bubbles /\ Resting(Fresh) /\ ~Fresh.editing
                 /\ Fresh.menu = FALSE /\ Fresh.picker = FALSE /\ Fresh.editing = FALSE
BY BubbleAssumption DEF Fresh, Bubbles, Resting, Opened, Places

\* A menu, a picker or an edit that opens or closes leaves the gestures alone.
LEMMA PanesOf ==
  ASSUME NEW b \in Bubbles
  PROVE  /\ \A c \in {[b EXCEPT !.menu = FALSE], [b EXCEPT !.menu = TRUE], [b EXCEPT !.picker = FALSE],
                      [b EXCEPT !.picker = TRUE]} : c \in Bubbles /\ c.editing = b.editing
         /\ [b EXCEPT !.editing = FALSE] \in Bubbles /\ [b EXCEPT !.editing = TRUE] \in Bubbles
         /\ ~[b EXCEPT !.editing = FALSE].editing
         /\ b.menu = FALSE => [b EXCEPT !.menu = FALSE] = b
         /\ b.picker = FALSE => [b EXCEPT !.picker = FALSE] = b
         /\ b.editing = FALSE => [b EXCEPT !.editing = FALSE] = b
         /\ \A c \in {[b EXCEPT !.menu = FALSE], [b EXCEPT !.menu = TRUE], [b EXCEPT !.picker = FALSE],
                      [b EXCEPT !.picker = TRUE], [b EXCEPT !.editing = FALSE], [b EXCEPT !.editing = TRUE]} :
              /\ c.ref = b.ref /\ c.x = b.x /\ c.actions = b.actions
              /\ c.active = b.active /\ c.sideways = b.sideways
<1>1. \A c \in {[b EXCEPT !.menu = FALSE], [b EXCEPT !.menu = TRUE], [b EXCEPT !.picker = FALSE],
                [b EXCEPT !.picker = TRUE]} : c \in Bubbles /\ c.editing = b.editing
  BY DEF Bubbles
<1>2. /\ [b EXCEPT !.editing = FALSE] \in Bubbles /\ [b EXCEPT !.editing = TRUE] \in Bubbles
      /\ ~[b EXCEPT !.editing = FALSE].editing
  BY DEF Bubbles
<1>4. /\ b.menu = FALSE => [b EXCEPT !.menu = FALSE] = b
      /\ b.picker = FALSE => [b EXCEPT !.picker = FALSE] = b
      /\ b.editing = FALSE => [b EXCEPT !.editing = FALSE] = b
  BY DEF Bubbles
<1>3. \A c \in {[b EXCEPT !.menu = FALSE], [b EXCEPT !.menu = TRUE], [b EXCEPT !.picker = FALSE],
                [b EXCEPT !.picker = TRUE], [b EXCEPT !.editing = FALSE], [b EXCEPT !.editing = TRUE]} :
        /\ c.ref = b.ref /\ c.x = b.x /\ c.actions = b.actions
        /\ c.active = b.active /\ c.sideways = b.sideways
  BY DEF Bubbles
<1> QED BY <1>1, <1>2, <1>3, <1>4

\* What moves a bubble leaves the press and the edit alone.
LEMMA MovesOf ==
  ASSUME NEW b \in Bubbles
  PROVE  /\ \A v \in Places : [b EXCEPT !.x = v] \in Bubbles /\ [b EXCEPT !.x = v].x = v
                              /\ [b EXCEPT !.x = v].editing = b.editing /\ [b EXCEPT !.x = v].ref = b.ref
                              /\ [b EXCEPT !.x = v].active = b.active /\ [b EXCEPT !.x = v].sideways = b.sideways
                              /\ [b EXCEPT !.x = v].actions = b.actions
         /\ \A c \in {[b EXCEPT !.actions = FALSE], [b EXCEPT !.actions = TRUE]} :
              /\ c \in Bubbles /\ c.editing = b.editing /\ c.ref = b.ref /\ c.x = b.x
              /\ c.active = b.active /\ c.sideways = b.sideways
         /\ ~[b EXCEPT !.actions = FALSE].actions /\ [b EXCEPT !.actions = TRUE].actions
         /\ \A c \in {[b EXCEPT !.active = FALSE], [b EXCEPT !.active = TRUE]} :
              /\ c \in Bubbles /\ c.editing = b.editing /\ c.ref = b.ref /\ c.x = b.x
              /\ c.actions = b.actions /\ c.sideways = b.sideways
         /\ ~[b EXCEPT !.active = FALSE].active /\ [b EXCEPT !.active = TRUE].active
         /\ \A c \in {[b EXCEPT !.sideways = FALSE], [b EXCEPT !.sideways = TRUE]} :
              /\ c \in Bubbles /\ c.editing = b.editing /\ c.ref = b.ref /\ c.x = b.x
              /\ c.actions = b.actions /\ c.active = b.active
         /\ ~[b EXCEPT !.sideways = FALSE].sideways /\ [b EXCEPT !.sideways = TRUE].sideways
<1>1. \A v \in Places : [b EXCEPT !.x = v] \in Bubbles /\ [b EXCEPT !.x = v].x = v
                        /\ [b EXCEPT !.x = v].editing = b.editing /\ [b EXCEPT !.x = v].ref = b.ref
                        /\ [b EXCEPT !.x = v].active = b.active /\ [b EXCEPT !.x = v].sideways = b.sideways
                        /\ [b EXCEPT !.x = v].actions = b.actions
  BY DEF Bubbles
<1>2. /\ \A c \in {[b EXCEPT !.actions = FALSE], [b EXCEPT !.actions = TRUE]} :
           /\ c \in Bubbles /\ c.editing = b.editing /\ c.ref = b.ref /\ c.x = b.x
           /\ c.active = b.active /\ c.sideways = b.sideways
      /\ ~[b EXCEPT !.actions = FALSE].actions /\ [b EXCEPT !.actions = TRUE].actions
  BY DEF Bubbles
<1>3. /\ \A c \in {[b EXCEPT !.active = FALSE], [b EXCEPT !.active = TRUE]} :
           /\ c \in Bubbles /\ c.editing = b.editing /\ c.ref = b.ref /\ c.x = b.x
           /\ c.actions = b.actions /\ c.sideways = b.sideways
      /\ ~[b EXCEPT !.active = FALSE].active /\ [b EXCEPT !.active = TRUE].active
  BY DEF Bubbles
<1>4. /\ \A c \in {[b EXCEPT !.sideways = FALSE], [b EXCEPT !.sideways = TRUE]} :
           /\ c \in Bubbles /\ c.editing = b.editing /\ c.ref = b.ref /\ c.x = b.x
           /\ c.actions = b.actions /\ c.active = b.active
      /\ ~[b EXCEPT !.sideways = FALSE].sideways /\ [b EXCEPT !.sideways = TRUE].sideways
  BY DEF Bubbles
<1> QED BY <1>1, <1>2, <1>3, <1>4

\* A bubble that closes.
LEMMA ClosedOf ==
  ASSUME NEW b \in Bubbles
  PROVE  /\ [b EXCEPT !.x = 0, !.actions = FALSE] \in Bubbles
         /\ [b EXCEPT !.x = 0, !.actions = FALSE].ref = b.ref
         /\ [b EXCEPT !.x = 0, !.actions = FALSE].editing = b.editing
         /\ Resting([b EXCEPT !.x = 0, !.actions = FALSE])
<1> DEFINE c == [b EXCEPT !.x = 0]
           d == [c EXCEPT !.actions = FALSE]
<1>1. c \in Bubbles /\ c.x = 0 /\ c.ref = b.ref /\ c.editing = b.editing
  BY DEF Bubbles, Places
<1> HIDE DEF c
<1>2. d \in Bubbles /\ d.x = 0 /\ ~d.actions /\ d.ref = b.ref /\ d.editing = b.editing
  BY <1>1, MovesOf
<1>3. [b EXCEPT !.x = 0, !.actions = FALSE] = d
  BY DEF c
<1> HIDE DEF d
<1> QED BY <1>2, <1>3 DEF Resting, Opened

\* A bubble that snaps rests, if it was moved sideways or rested before.
LEMMA SnappedOf ==
  ASSUME NEW b \in Bubbles, b.active
  PROVE  /\ Snapped(b) \in Bubbles /\ Snapped(b).ref = b.ref /\ Snapped(b).editing = b.editing
         /\ b.sideways \/ Resting(b) => Resting(Snapped(b))
<1> DEFINE a == [b EXCEPT !.active = FALSE]
           s == [a EXCEPT !.sideways = FALSE]
           n == IF b.x >= Opened THEN Opened ELSE 0
           c == [s EXCEPT !.x = n]
           d == [c EXCEPT !.actions = b.x >= Opened]
<1>1. Snapped(b) = IF ~b.sideways THEN s ELSE d
  BY DEF Snapped
<1>2. a \in Bubbles /\ a.ref = b.ref /\ a.editing = b.editing /\ a.x = b.x /\ a.actions = b.actions
  BY MovesOf
<1> HIDE DEF a
<1>3. s \in Bubbles /\ s.ref = b.ref /\ s.editing = b.editing /\ s.x = b.x /\ s.actions = b.actions
  BY <1>2, MovesOf
<1> HIDE DEF s
<1>4. n \in Places /\ n \in {0, Opened} /\ (n = Opened <=> b.x >= Opened)
  BY DEF Places, Opened
<1> HIDE DEF n
<1>5. c \in Bubbles /\ c.ref = b.ref /\ c.editing = b.editing /\ c.x = n
  BY <1>3, <1>4 DEF Bubbles
<1> HIDE DEF c
<1>6. d \in Bubbles /\ d.ref = b.ref /\ d.editing = b.editing /\ d.x = n /\ (d.actions <=> b.x >= Opened)
  <2>1. CASE b.x >= Opened
    <3>1. (b.x >= Opened) = TRUE
      BY <2>1
    <3> DEFINE e == [c EXCEPT !.actions = TRUE]
    <3>2. d = e
      BY <3>1
    <3>3. e \in Bubbles /\ e.ref = c.ref /\ e.editing = c.editing /\ e.x = c.x /\ e.actions
      BY <1>5, MovesOf
    <3> HIDE DEF d, e
    <3> QED BY <1>5, <2>1, <3>2, <3>3
  <2>2. CASE ~(b.x >= Opened)
    <3>1. (b.x >= Opened) = FALSE
      BY <2>2
    <3> DEFINE e == [c EXCEPT !.actions = FALSE]
    <3>2. d = e
      BY <3>1
    <3>3. e \in Bubbles /\ e.ref = c.ref /\ e.editing = c.editing /\ e.x = c.x /\ ~e.actions
      BY <1>5, MovesOf
    <3> HIDE DEF d, e
    <3> QED BY <1>5, <2>2, <3>2, <3>3
  <2> QED BY <2>1, <2>2
<1> HIDE DEF d
<1> QED BY <1>1, <1>3, <1>4, <1>6 DEF Resting

-----------------------------------------------------------------------------
(* What a step has to keep                                                 *)

\* One bubble changes: it still rests, or is moved sideways, or is torn.
LEMMA OneBubble ==
  ASSUME BubblePart, NEW m \in shown, NEW b \in Bubbles, bubble' = [bubble EXCEPT ![m] = b], shown' = shown,
         torn \ {m} \subseteq torn',
         b.editing => bubble[m].editing \/ m \in Mine,
         m \in torn' \/ Resting(b) \/ (b.active /\ b.sideways)
  PROVE  BubblePart'
<1>1. m \in Messages /\ bubble \in [Messages -> Bubbles]
  BY DEF BubblePart
<1>2. bubble' \in [Messages -> Bubbles] /\ bubble'[m] = b /\ \A n \in Messages \ {m} : bubble'[n] = bubble[n]
  BY <1>1
<1>3. \A n \in Messages : bubble'[n].editing => n \in Mine
  BY <1>1, <1>2 DEF BubblePart
<1>4. \A n \in shown \ torn' : (bubble'[n].active /\ bubble'[n].sideways) \/ Resting(bubble'[n])
  BY <1>1, <1>2 DEF BubblePart, Resting
<1>5. \A n \in Messages \ shown : bubble'[n] = Fresh
  BY <1>1, <1>2 DEF BubblePart
<1> QED BY <1>2, <1>3, <1>4, <1>5 DEF BubblePart, Resting

\* It knows the same timer.
LEMMA SamePress ==
  ASSUME PressPart, BubblePart, NEW m \in Messages, NEW b \in Bubbles, bubble' = [bubble EXCEPT ![m] = b],
         b.ref = bubble[m].ref, UNCHANGED <<shown, timers, crowded>>
  PROVE  PressPart'
<1>1. \A n \in Messages : bubble'[n].ref = bubble[n].ref
  BY DEF BubblePart
<1>2. \A t \in timers : t[1] \in Messages
  BY DEF PressPart
<1> QED BY <1>1, <1>2 DEF PressPart, PressCanBeEnded

\* Timers end; what is pressed twice stays so while a timer runs.
LEMMA TimersEnd ==
  ASSUME PressPart, timers' \subseteq timers, Thins,
         \A t \in timers' : t[1] \in crowded \/ (t[1] \in shown' /\ bubble'[t[1]].ref = t[2])
  PROVE  PressPart'
<1>1. \A t \in timers' : t[1] \in crowded => t[1] \in crowded'
  BY DEF Thins
<1> QED BY <1>1 DEF PressPart, PressCanBeEnded

\* Where nothing of it changes, a part stays as it is.
LEMMA SameParts ==
  ASSUME IInv
  PROVE  /\ UNCHANGED <<shown, bubble>> /\ torn \subseteq torn' => BubblePart'
         /\ UNCHANGED <<shown, bubble, timers, crowded>> => PressPart'
         /\ UNCHANGED <<sel, strayed>> => SelPart'
<1>1. UNCHANGED <<shown, bubble>> /\ torn \subseteq torn' => BubblePart'
  BY DEF IInv, BubblePart, Resting
<1>2. UNCHANGED <<shown, bubble, timers, crowded>> => PressPart'
  BY DEF IInv, PressPart, PressCanBeEnded
<1>3. UNCHANGED <<sel, strayed>> => SelPart'
  BY DEF IInv, SelPart, SelectionInMode
<1> QED BY <1>1, <1>2, <1>3

\* Select mode begins with one message.
LEMMA StartKeeps ==
  ASSUME NEW m \in Messages, StartDragSelect(m)
  PROVE  SelPart'
BY DEF StartDragSelect, SelPart, SelectionInMode

\* It ends with none, and what still drags strayed.
LEMMA ExitKeeps ==
  ASSUME SelPart, sel' = ExitSelectMode, Strays
  PROVE  SelPart'
<1> DEFINE a == [sel EXCEPT !.mode = FALSE]
           b == [a EXCEPT !.ids = {}]
<1>1. sel' = b
  BY DEF ExitSelectMode
<1>2. /\ a \in [mode : BOOLEAN, ids : SUBSET Messages, drag : BOOLEAN] /\ a.drag = sel.drag /\ ~a.mode
  BY DEF SelPart
<1> HIDE DEF a
<1>3. /\ b \in [mode : BOOLEAN, ids : SUBSET Messages, drag : BOOLEAN] /\ b.drag = sel.drag /\ ~b.mode
      /\ b.ids = {}
  BY <1>2
<1> HIDE DEF b
<1> QED BY <1>1, <1>3 DEF SelPart, SelectionInMode, Strays

\* A click in select mode.
LEMMA ToggleKeeps ==
  ASSUME SelPart, sel.mode, NEW m \in Messages, ToggleSelect(m), Strays
  PROVE  SelPart'
<1>1. sel \in [mode : BOOLEAN, ids : SUBSET Messages, drag : BOOLEAN] /\ (strayed => strayed')
  BY DEF SelPart, Strays
<1>2. CASE m \notin sel.ids
  <2>1. sel' = [sel EXCEPT !.ids = sel.ids \cup {m}]
    BY <1>2 DEF ToggleSelect
  <2>2. sel' \in [mode : BOOLEAN, ids : SUBSET Messages, drag : BOOLEAN] /\ sel'.mode
    BY <1>1, <2>1
  <2> QED BY <2>2 DEF SelPart, SelectionInMode
<1>3. CASE m \in sel.ids /\ sel.ids = {m}
  <2> DEFINE a == [sel EXCEPT !.ids = {}]
             b == [a EXCEPT !.mode = FALSE]
  <2>1. sel' = b
    BY <1>3 DEF ToggleSelect
  <2>2. /\ a \in [mode : BOOLEAN, ids : SUBSET Messages, drag : BOOLEAN] /\ a.drag = sel.drag /\ a.ids = {}
    BY <1>1
  <2> HIDE DEF a
  <2>3. /\ b \in [mode : BOOLEAN, ids : SUBSET Messages, drag : BOOLEAN] /\ b.drag = sel.drag /\ ~b.mode
        /\ b.ids = {}
    BY <2>2
  <2> HIDE DEF b
  <2> QED BY <2>1, <2>3 DEF SelPart, SelectionInMode, Strays
<1>4. CASE m \in sel.ids /\ sel.ids # {m}
  <2>1. sel' = [sel EXCEPT !.ids = sel.ids \ {m}]
    BY <1>4 DEF ToggleSelect
  <2>2. sel' \in [mode : BOOLEAN, ids : SUBSET Messages, drag : BOOLEAN] /\ sel'.mode
    BY <1>1, <2>1
  <2> QED BY <2>2 DEF SelPart, SelectionInMode
<1> QED BY <1>2, <1>3, <1>4

-----------------------------------------------------------------------------
(* The steps                                                               *)

LEMMA InitHolds == Init => IInv
<1> SUFFICES ASSUME Init PROVE IInv
  OBVIOUS
<1>1. /\ shown = Messages /\ timers = {} /\ replyTo = None
      /\ bubble = [m \in Messages |-> Fresh]
  BY DEF Init
<1>2. BubblePart
  BY <1>1, FreshIs DEF BubblePart
<1>3. PressPart
  BY <1>1 DEF PressPart, PressCanBeEnded
<1>4. SelPart
  BY DEF Init, SelPart, SelectionInMode
<1> QED BY <1>1, <1>2, <1>3, <1>4 DEF IInv

LEMMA PointerDownKeeps ==
  ASSUME IInv, NEW m \in Messages, PointerDown(m)
  PROVE  IInv'
<1>1. PICK k \in 1..MaxPress : /\ timers' = timers \cup {<<m, k>>}
                               /\ bubble' = [bubble EXCEPT ![m].ref = k]
  BY DEF PointerDown
<1>2. /\ m \in shown /\ UNCHANGED <<shown, sel, replyTo, torn, strayed>>
      /\ crowded' = IF \E t \in timers : t[1] = m THEN crowded \cup {m} ELSE crowded
  BY DEF PointerDown
<1>3. /\ bubble \in [Messages -> Bubbles] /\ bubble[m] \in Bubbles /\ MaxPress \in Nat
      /\ timers \subseteq Messages \X (1..MaxPress)
  BY BubbleAssumption DEF IInv, BubblePart, PressPart
<1> DEFINE b == [bubble[m] EXCEPT !.ref = k]
<1>4. /\ b \in Bubbles /\ b.editing = bubble[m].editing /\ b.x = bubble[m].x /\ b.actions = bubble[m].actions
      /\ b.active = bubble[m].active /\ b.sideways = bubble[m].sideways /\ b.ref = k
  BY <1>3 DEF Bubbles
<1>5. bubble' = [bubble EXCEPT ![m] = b]
  BY <1>1
<1> HIDE DEF b
<1>6. m \in torn \/ Resting(b) \/ (b.active /\ b.sideways)
  BY <1>2, <1>4 DEF IInv, BubblePart, Resting
<1>7. BubblePart'
  BY <1>2, <1>4, <1>5, <1>6, OneBubble DEF IInv
<1>8. PressPart'
  <2>1. \A t \in timers : t[1] \in Messages
    BY <1>3
  <2>2. \A t \in timers : t[1] # m => bubble'[t[1]] = bubble[t[1]]
    BY <1>3, <1>5, <2>1
  <2>3. \A t \in timers : t[1] # m => t[1] \in crowded' \/ (t[1] \in shown' /\ bubble'[t[1]].ref = t[2])
    BY <1>2, <2>2 DEF IInv, PressPart, PressCanBeEnded
  <2>4. \A t \in timers : t[1] = m => t[1] \in crowded'
    BY <1>2
  <2>5. bubble'[m].ref = k
    BY <1>3, <1>4, <1>5
  <2>6. timers' \subseteq Messages \X (1..MaxPress)
    BY <1>1, <1>3
  <2>7. <<m, k>>[1] = m /\ <<m, k>>[2] = k
    OBVIOUS
  <2> QED BY <1>1, <1>2, <2>3, <2>4, <2>5, <2>6, <2>7 DEF PressPart, PressCanBeEnded
<1> QED BY <1>2, <1>7, <1>8, SameParts DEF IInv

\* A timer of a message other than the one it knows, or than the one that ends, is one of
\* two that were pressed.
LEMMA OthersAreCrowded ==
  ASSUME IInv, NEW t \in timers
  PROVE  t = <<t[1], t[2]>> /\ t[1] \in Messages /\ t[2] \in 1..MaxPress
         /\ (t[1] \in crowded \/ t = <<t[1], bubble[t[1]].ref>>)
BY DEF IInv, PressPart, PressCanBeEnded

LEMMA PointerUpKeeps ==
  ASSUME IInv, NEW m \in Messages \cup {None}, PointerUp(m)
  PROVE  IInv'
<1>1. /\ sel' = [sel EXCEPT !.drag = FALSE] /\ Thins /\ UNCHANGED <<shown, replyTo, torn, strayed>>
  BY DEF PointerUp
<1>2. SelPart'
  <2>1. sel \in [mode : BOOLEAN, ids : SUBSET Messages, drag : BOOLEAN]
    BY DEF IInv, SelPart
  <2>2. /\ sel' \in [mode : BOOLEAN, ids : SUBSET Messages, drag : BOOLEAN]
        /\ sel'.mode = sel.mode /\ sel'.ids = sel.ids /\ ~sel'.drag
    BY <1>1, <2>1
  <2> QED BY <1>1, <2>2 DEF IInv, SelPart, SelectionInMode
<1>3. CASE m = None
  <2>1. UNCHANGED <<timers, bubble>>
    BY <1>3 DEF PointerUp
  <2>2. BubblePart'
    BY <1>1, <2>1, SameParts
  <2>3. PressPart'
    BY <1>1, <2>1, TimersEnd DEF IInv, PressPart, PressCanBeEnded
  <2> QED BY <1>1, <1>2, <2>2, <2>3 DEF IInv
<1>4. CASE m # None
  <2>1. m \in shown /\ timers' = timers \ {<<m, bubble[m].ref>>} /\ bubble' = [bubble EXCEPT ![m].ref = 0]
    BY <1>4 DEF PointerUp, ClearLongPress
  <2>2. /\ bubble \in [Messages -> Bubbles] /\ m \in Messages /\ bubble[m] \in Bubbles /\ MaxPress \in Nat
    BY <2>1, BubbleAssumption DEF IInv, BubblePart
  <2> DEFINE b == [bubble[m] EXCEPT !.ref = 0]
  <2>3. /\ b \in Bubbles /\ b.editing = bubble[m].editing /\ b.x = bubble[m].x /\ b.actions = bubble[m].actions
        /\ b.active = bubble[m].active /\ b.sideways = bubble[m].sideways
    BY <2>2 DEF Bubbles
  <2>4. bubble' = [bubble EXCEPT ![m] = b]
    BY <2>1
  <2> HIDE DEF b
  <2>5. m \in torn \/ Resting(b) \/ (b.active /\ b.sideways)
    BY <2>1, <2>3 DEF IInv, BubblePart, Resting
  <2>6. BubblePart'
    BY <1>1, <2>1, <2>3, <2>4, <2>5, OneBubble DEF IInv
  <2>7. \A t \in timers' : t[1] \in crowded \/ (t[1] \in shown' /\ bubble'[t[1]].ref = t[2])
    <3> SUFFICES ASSUME NEW t \in timers', t[1] \notin crowded
                 PROVE  t[1] \in shown' /\ bubble'[t[1]].ref = t[2]
      OBVIOUS
    <3>1. t \in timers /\ t[1] \in Messages /\ t = <<t[1], bubble[t[1]].ref>>
      BY <2>1, OthersAreCrowded
    <3>2. t[1] # m
      BY <2>1, <3>1
    <3>3. bubble'[t[1]] = bubble[t[1]]
      BY <2>2, <2>4, <3>1, <3>2
    <3> QED BY <1>1, <3>1, <3>3 DEF IInv, PressPart, PressCanBeEnded
  <2>8. PressPart'
    BY <1>1, <2>1, <2>7, TimersEnd DEF IInv
  <2> QED BY <1>1, <1>2, <2>6, <2>8 DEF IInv
<1> QED BY <1>3, <1>4

LEMMA LongPressKeeps ==
  ASSUME IInv, NEW t \in timers, LongPress(t)
  PROVE  IInv'
<1>1. /\ timers' = timers \ {t} /\ Thins /\ StartDragSelect(t[1]) /\ UNCHANGED <<shown, replyTo, torn>>
      /\ bubble' = [bubble EXCEPT ![t[1]].ref = IF @ = t[2] THEN 0 ELSE @]
  BY DEF LongPress
<1>2. t = <<t[1], t[2]>> /\ t[1] \in Messages /\ t[2] \in 1..MaxPress
  BY OthersAreCrowded
<1> DEFINE m == t[1]
           k == IF bubble[m].ref = t[2] THEN 0 ELSE bubble[m].ref
           b == [bubble[m] EXCEPT !.ref = k]
<1>3. /\ bubble \in [Messages -> Bubbles] /\ bubble[m] \in Bubbles /\ MaxPress \in Nat
  BY <1>2, BubbleAssumption DEF IInv, BubblePart
<1>4. k \in 0..MaxPress
  BY <1>3 DEF Bubbles
<1>5. bubble' = [bubble EXCEPT ![m] = b]
  BY <1>1
<1>a. k # bubble[m].ref => bubble[m].ref # 0
  BY <1>2
<1> HIDE DEF k
<1>6. /\ b \in Bubbles /\ b.editing = bubble[m].editing /\ b.x = bubble[m].x /\ b.actions = bubble[m].actions
      /\ b.active = bubble[m].active /\ b.sideways = bubble[m].sideways /\ b.ref = k
  BY <1>3, <1>4 DEF Bubbles
<1>7. SelPart'
  BY <1>1, <1>2, StartKeeps
<1>8. BubblePart'
  <2>1. CASE m \in shown
    <3>1. m \in torn \/ Resting(b) \/ (b.active /\ b.sideways)
      BY <1>6, <2>1 DEF IInv, BubblePart, Resting
    <3> HIDE DEF b
    <3>2. /\ BubblePart /\ b \in Bubbles /\ bubble' = [bubble EXCEPT ![m] = b] /\ shown' = shown
          /\ torn \ {m} \subseteq torn' /\ (b.editing => bubble[m].editing)
          /\ m \in torn' \/ Resting(b) \/ (b.active /\ b.sideways)
      BY <1>1, <1>5, <1>6, <3>1 DEF IInv
    <3> HIDE DEF m
    <3> QED BY <2>1, <3>2, OneBubble
  <2>2. CASE m \notin shown
    <3>1. bubble[m] = Fresh /\ bubble[m].ref = 0
      BY <1>2, <2>2 DEF IInv, BubblePart, Fresh
    <3>2. k = bubble[m].ref
      BY <1>a, <3>1
    <3>3. b = bubble[m]
      BY <1>3, <3>2 DEF Bubbles
    <3> HIDE DEF b
    <3>4. bubble' = bubble
      BY <1>3, <1>5, <3>3
    <3> QED BY <1>1, <3>4, SameParts
  <2> QED BY <2>1, <2>2
<1>9. PressPart'
  <2> HIDE DEF b
  <2>1. \A u \in timers' : u[1] \in crowded \/ (u[1] \in shown' /\ bubble'[u[1]].ref = u[2])
    <3> SUFFICES ASSUME NEW u \in timers', u[1] \notin crowded
                 PROVE  u[1] \in shown' /\ bubble'[u[1]].ref = u[2]
      OBVIOUS
    <3>1. /\ u \in timers /\ u # t /\ u[1] \in Messages /\ u = <<u[1], u[2]>>
          /\ u[1] \in shown /\ bubble[u[1]].ref = u[2]
      BY <1>1, OthersAreCrowded DEF IInv, PressPart, PressCanBeEnded
    <3>2. CASE u[1] = m
      <4>1. bubble[m].ref # t[2]
        BY <1>2, <3>1, <3>2
      <4>2. bubble'[m].ref = bubble[m].ref
        BY <1>3, <1>5, <1>6, <4>1 DEF k
      <4> QED BY <1>1, <3>1, <3>2, <4>2
    <3>3. CASE u[1] # m
      <4>1. bubble'[u[1]] = bubble[u[1]]
        BY <1>3, <1>5, <3>1, <3>3
      <4> QED BY <1>1, <3>1, <4>1
    <3> QED BY <3>2, <3>3
  <2> QED BY <1>1, <2>1, TimersEnd DEF IInv
<1> QED BY <1>1, <1>7, <1>8, <1>9 DEF IInv

\* What only selects.
LEMMA EnterKeeps ==
  ASSUME IInv, NEW m \in Messages, HandleDragSelectEnter(m)
  PROVE  IInv'
<1>1. /\ sel.drag /\ sel' = [sel EXCEPT !.ids = sel.ids \cup {m}]
      /\ UNCHANGED <<shown, bubble, timers, replyTo, ghosts>>
  BY DEF HandleDragSelectEnter
<1>2. sel \in [mode : BOOLEAN, ids : SUBSET Messages, drag : BOOLEAN]
  BY DEF IInv, SelPart
<1>3. /\ sel' \in [mode : BOOLEAN, ids : SUBSET Messages, drag : BOOLEAN]
      /\ sel'.mode = sel.mode /\ sel'.drag = sel.drag
  BY <1>1, <1>2
<1>4. SelPart'
  BY <1>1, <1>3 DEF IInv, SelPart, SelectionInMode, ghosts
<1> QED BY <1>1, <1>4, SameParts DEF IInv, ghosts

LEMMA SelectAllKeeps ==
  ASSUME IInv, HandleSelectAll
  PROVE  IInv'
<1>1. /\ sel.mode /\ sel' = [sel EXCEPT !.ids = shown \ Dead]
      /\ UNCHANGED <<shown, bubble, timers, replyTo, ghosts>>
  BY DEF HandleSelectAll
<1>2. sel \in [mode : BOOLEAN, ids : SUBSET Messages, drag : BOOLEAN] /\ shown \ Dead \subseteq Messages
  BY DEF IInv, SelPart, BubblePart
<1>3. /\ sel' \in [mode : BOOLEAN, ids : SUBSET Messages, drag : BOOLEAN] /\ sel'.mode
  BY <1>1, <1>2
<1>4. SelPart'
  BY <1>1, <1>3 DEF SelPart, SelectionInMode
<1> QED BY <1>1, <1>4, SameParts DEF IInv, ghosts

LEMMA LeaveKeeps ==
  ASSUME IInv, LeaveSelectMode \/ HandleBatchDelete
  PROVE  IInv'
<1>1. /\ sel' = ExitSelectMode /\ Strays
      /\ UNCHANGED <<shown, bubble, timers, replyTo, crowded, torn>>
  BY DEF LeaveSelectMode, HandleBatchDelete
<1>2. SelPart'
  BY <1>1, ExitKeeps DEF IInv
<1> QED BY <1>1, <1>2, SameParts DEF IInv

\* A step that changes one bubble, but no timer.
LEMMA BubbleStepKeeps ==
  ASSUME IInv, NEW m \in shown, NEW b \in Bubbles, bubble' = [bubble EXCEPT ![m] = b],
         UNCHANGED <<shown, timers, crowded>>, b.ref = bubble[m].ref,
         b.editing => bubble[m].editing \/ m \in Mine,
         torn \ {m} \subseteq torn',
         m \in torn' \/ Resting(b) \/ (b.active /\ b.sideways),
         SelPart', replyTo' \in Messages \cup {None}
  PROVE  IInv'
<1>1. m \in Messages
  BY DEF IInv, BubblePart
<1> QED BY <1>1, OneBubble, SamePress DEF IInv

\* What a bubble of the page is.
LEMMA BubbleOf ==
  ASSUME IInv, NEW m \in shown
  PROVE  /\ m \in Messages /\ bubble \in [Messages -> Bubbles] /\ bubble[m] \in Bubbles
         /\ m \in torn \/ Resting(bubble[m]) \/ (bubble[m].active /\ bubble[m].sideways)
         /\ bubble[m].editing => m \in Mine
BY DEF IInv, BubblePart

LEMMA ClickKeeps ==
  ASSUME IInv, NEW m \in Messages, HandleBubbleClick(m)
  PROVE  IInv'
<1>1. m \in shown /\ Strays /\ UNCHANGED <<shown, timers, replyTo, crowded>>
  BY DEF HandleBubbleClick
<1>2. CASE bubble[m].actions
  <2> DEFINE b == [bubble[m] EXCEPT !.x = 0, !.actions = FALSE]
  <2>1. /\ bubble' = [bubble EXCEPT ![m].x = 0, ![m].actions = FALSE]
        /\ sel' = sel /\ torn' = torn \ {m}
    BY <1>2 DEF HandleBubbleClick
  <2>2. bubble' = [bubble EXCEPT ![m] = b]
    BY <2>1
  <2>3. b \in Bubbles /\ b.ref = bubble[m].ref /\ b.editing = bubble[m].editing /\ Resting(b)
    BY <1>1, BubbleOf, ClosedOf
  <2> HIDE DEF b
  <2>4. SelPart'
    BY <1>1, <2>1 DEF IInv, SelPart, SelectionInMode, Strays
  <2> QED BY <1>1, <2>1, <2>2, <2>3, <2>4, BubbleStepKeeps DEF IInv
<1>3. CASE ~bubble[m].actions
  <2>1. sel.mode /\ ToggleSelect(m) /\ bubble' = bubble /\ torn' = torn
    BY <1>3 DEF HandleBubbleClick
  <2>2. SelPart'
    BY <1>1, <2>1, ToggleKeeps DEF IInv
  <2> QED BY <1>1, <2>1, <2>2, SameParts DEF IInv
<1> QED BY <1>2, <1>3

LEMMA TouchStartKeeps ==
  ASSUME IInv, NEW m \in Messages, OnTouchStart(m)
  PROVE  IInv'
<1> DEFINE a == [bubble[m] EXCEPT !.active = TRUE]
           b == [a EXCEPT !.sideways = FALSE]
<1>1. /\ m \in shown /\ UNCHANGED <<shown, timers, sel, replyTo, crowded, strayed>>
      /\ torn' = IF bubble[m].active THEN torn \cup {m} ELSE torn
      /\ bubble' = [bubble EXCEPT ![m].active = TRUE, ![m].sideways = FALSE]
  BY DEF OnTouchStart
<1>2. bubble' = [bubble EXCEPT ![m] = b]
  BY <1>1
<1>3. /\ a \in Bubbles /\ a.editing = bubble[m].editing /\ a.ref = bubble[m].ref /\ a.x = bubble[m].x
      /\ a.actions = bubble[m].actions
  BY <1>1, BubbleOf, MovesOf
<1> HIDE DEF a
<1>4. /\ b \in Bubbles /\ b.editing = bubble[m].editing /\ b.ref = bubble[m].ref /\ b.x = bubble[m].x
      /\ b.actions = bubble[m].actions
  BY <1>3, MovesOf
<1> HIDE DEF b
<1>5. m \in torn' \/ Resting(b)
  BY <1>1, <1>4, BubbleOf DEF Resting
<1>6. SelPart'
  BY <1>1, SameParts
<1> QED BY <1>1, <1>2, <1>4, <1>5, <1>6, BubbleStepKeeps DEF IInv

LEMMA TouchMoveKeeps ==
  ASSUME IInv, NEW m \in Messages, NEW to \in Places \cup {Opened + 1}, OnTouchMove(m, to)
  PROVE  IInv'
<1>1. /\ m \in shown /\ bubble[m].active /\ UNCHANGED <<shown, timers, sel, replyTo, ghosts>>
  BY DEF OnTouchMove
<1>2. SelPart'
  BY <1>1, SameParts DEF ghosts
<1>3. CASE to \in Places
  <2> DEFINE a == [bubble[m] EXCEPT !.sideways = TRUE]
             b == [a EXCEPT !.x = to]
  <2>1. bubble' = [bubble EXCEPT ![m] = b]
    BY <1>3 DEF OnTouchMove
  <2>2. /\ a \in Bubbles /\ a.editing = bubble[m].editing /\ a.ref = bubble[m].ref
        /\ a.active = bubble[m].active /\ a.sideways
    BY <1>1, BubbleOf, MovesOf
  <2> HIDE DEF a
  <2>3. /\ b \in Bubbles /\ b.editing = bubble[m].editing /\ b.ref = bubble[m].ref
        /\ b.active = bubble[m].active /\ b.sideways
    BY <1>3, <2>2 DEF Bubbles
  <2> HIDE DEF b
  <2> QED BY <1>1, <1>2, <2>1, <2>3, BubbleStepKeeps DEF IInv, ghosts
<1>4. CASE to \notin Places /\ bubble[m].sideways
  <2>1. bubble' = bubble
    BY <1>1, <1>4, BubbleOf DEF OnTouchMove
  <2> QED BY <1>1, <1>2, <2>1, SameParts DEF IInv, ghosts
<1>5. CASE to \notin Places /\ ~bubble[m].sideways
  <2> DEFINE b == [bubble[m] EXCEPT !.active = FALSE]
  <2>1. bubble' = [bubble EXCEPT ![m] = b]
    BY <1>5 DEF OnTouchMove
  <2>2. /\ b \in Bubbles /\ b.editing = bubble[m].editing /\ b.ref = bubble[m].ref /\ b.x = bubble[m].x
        /\ b.actions = bubble[m].actions
    BY <1>1, BubbleOf, MovesOf
  <2> HIDE DEF b
  <2>3. m \in torn \/ Resting(b)
    BY <1>1, <1>5, <2>2, BubbleOf DEF Resting
  <2> QED BY <1>1, <1>2, <2>1, <2>2, <2>3, BubbleStepKeeps DEF IInv, ghosts
<1> QED BY <1>3, <1>4, <1>5

LEMMA TouchEndKeeps ==
  ASSUME IInv, NEW m \in Messages, OnTouchEnd(m)
  PROVE  IInv'
<1> DEFINE b == Snapped(bubble[m])
<1>1. /\ m \in shown /\ bubble[m].active /\ UNCHANGED <<shown, timers, sel, replyTo, crowded, strayed>>
      /\ bubble' = [bubble EXCEPT ![m] = b] /\ torn' = IF bubble[m].sideways THEN torn \ {m} ELSE torn
  BY DEF OnTouchEnd
<1>2. /\ b \in Bubbles /\ b.editing = bubble[m].editing /\ b.ref = bubble[m].ref
      /\ bubble[m].sideways \/ Resting(bubble[m]) => Resting(b)
  BY <1>1, BubbleOf, SnappedOf
<1> HIDE DEF b
<1>3. m \in torn' \/ Resting(b)
  BY <1>1, <1>2, BubbleOf
<1>4. SelPart'
  BY <1>1, SameParts
<1> QED BY <1>1, <1>2, <1>3, <1>4, BubbleStepKeeps DEF IInv

LEMMA TouchCancelKeeps ==
  ASSUME IInv, NEW m \in Messages, TouchCancel(m)
  PROVE  IInv'
<1>1. /\ torn \subseteq torn' /\ UNCHANGED <<shown, bubble, timers, sel, replyTo, crowded, strayed>>
  BY DEF TouchCancel, page, gestures
<1> QED BY <1>1, SameParts DEF IInv

LEMMA SwipeActionKeeps ==
  ASSUME IInv, NEW m \in Messages, SwipeAction(m)
  PROVE  IInv'
<1> DEFINE b == [bubble[m] EXCEPT !.x = 0, !.actions = FALSE]
<1>1. /\ m \in shown /\ torn' = torn \ {m} /\ UNCHANGED <<shown, timers, sel, crowded, strayed>>
      /\ bubble' = [bubble EXCEPT ![m].x = 0, ![m].actions = FALSE]
  BY DEF SwipeAction
<1>2. bubble' = [bubble EXCEPT ![m] = b]
  BY <1>1
<1>3. b \in Bubbles /\ b.ref = bubble[m].ref /\ b.editing = bubble[m].editing /\ Resting(b)
  BY <1>1, BubbleOf, ClosedOf
<1> HIDE DEF b
<1>4. replyTo' \in Messages \cup {None}
  BY DEF SwipeAction, IInv
<1>5. SelPart'
  BY <1>1, SameParts
<1> QED BY <1>1, <1>2, <1>3, <1>4, <1>5, BubbleStepKeeps

\* Menus, pickers and edits open and close.
LEMMA PaneKeeps ==
  ASSUME IInv, NEW m \in shown, NEW b \in Bubbles, bubble' = [bubble EXCEPT ![m] = b],
         b.ref = bubble[m].ref, b.x = bubble[m].x, b.actions = bubble[m].actions,
         b.active = bubble[m].active, b.sideways = bubble[m].sideways,
         b.editing => bubble[m].editing \/ m \in Mine,
         UNCHANGED <<shown, timers, crowded, torn>>, SelPart', replyTo' \in Messages \cup {None}
  PROVE  IInv'
<1>1. m \in torn \/ Resting(b) \/ (b.active /\ b.sideways)
  BY BubbleOf DEF Resting
<1> QED BY <1>1, BubbleStepKeeps

LEMMA MenuKeeps ==
  ASSUME IInv, NEW m \in Messages, HandleContextMenu(m) \/ CloseMenu(m)
  PROVE  IInv'
<1>1. m \in shown /\ UNCHANGED <<shown, timers, sel, replyTo, ghosts>>
  BY DEF HandleContextMenu, CloseMenu
<1>2. bubble[m] \in Bubbles /\ SelPart'
  BY <1>1, BubbleOf, SameParts DEF ghosts
<1>3. CASE HandleContextMenu(m)
  <2> DEFINE b == [bubble[m] EXCEPT !.menu = TRUE]
  <2>1. bubble' = [bubble EXCEPT ![m] = b]
    BY <1>3 DEF HandleContextMenu
  <2>2. /\ b \in Bubbles /\ b.ref = bubble[m].ref /\ b.x = bubble[m].x /\ b.actions = bubble[m].actions
        /\ b.active = bubble[m].active /\ b.sideways = bubble[m].sideways /\ b.editing = bubble[m].editing
    BY <1>2, PanesOf
  <2> HIDE DEF b
  <2> QED BY <1>1, <1>2, <2>1, <2>2, PaneKeeps DEF IInv, ghosts
<1>4. CASE CloseMenu(m)
  <2> DEFINE b == [bubble[m] EXCEPT !.menu = FALSE]
  <2>1. bubble' = [bubble EXCEPT ![m] = b]
    BY <1>4 DEF CloseMenu
  <2>2. /\ b \in Bubbles /\ b.ref = bubble[m].ref /\ b.x = bubble[m].x /\ b.actions = bubble[m].actions
        /\ b.active = bubble[m].active /\ b.sideways = bubble[m].sideways /\ b.editing = bubble[m].editing
    BY <1>2, PanesOf
  <2> HIDE DEF b
  <2> QED BY <1>1, <1>2, <2>1, <2>2, PaneKeeps DEF IInv, ghosts
<1> QED BY <1>3, <1>4

LEMMA EditsKeep ==
  ASSUME IInv, NEW m \in Messages, HandleAddReaction(m) \/ SaveEdit(m) \/ CancelEdit(m)
  PROVE  IInv'
<1>1. m \in shown /\ UNCHANGED <<shown, timers, sel, replyTo, ghosts>>
  BY DEF HandleAddReaction, SaveEdit, CancelEdit
<1>2. bubble[m] \in Bubbles /\ SelPart'
  BY <1>1, BubbleOf, SameParts DEF ghosts
<1>3. CASE HandleAddReaction(m)
  <2> DEFINE b == [bubble[m] EXCEPT !.picker = FALSE]
  <2>1. bubble' = [bubble EXCEPT ![m] = b]
    BY <1>3 DEF HandleAddReaction
  <2>2. /\ b \in Bubbles /\ b.ref = bubble[m].ref /\ b.x = bubble[m].x /\ b.actions = bubble[m].actions
        /\ b.active = bubble[m].active /\ b.sideways = bubble[m].sideways /\ b.editing = bubble[m].editing
    BY <1>2, PanesOf
  <2> HIDE DEF b
  <2> QED BY <1>1, <1>2, <2>1, <2>2, PaneKeeps DEF IInv, ghosts
<1>4. CASE SaveEdit(m) \/ CancelEdit(m)
  <2> DEFINE b == [bubble[m] EXCEPT !.editing = FALSE]
  <2>1. bubble' = [bubble EXCEPT ![m] = b]
    BY <1>4 DEF SaveEdit, CancelEdit
  <2>2. /\ b \in Bubbles /\ b.ref = bubble[m].ref /\ b.x = bubble[m].x /\ b.actions = bubble[m].actions
        /\ b.active = bubble[m].active /\ b.sideways = bubble[m].sideways /\ ~b.editing
    BY <1>2, PanesOf
  <2> HIDE DEF b
  <2> QED BY <1>1, <1>2, <2>1, <2>2, PaneKeeps DEF IInv, ghosts
<1> QED BY <1>3, <1>4

LEMMA ChooseKeeps ==
  ASSUME IInv, NEW m \in Messages, NEW item \in MenuItems(m), ChooseItem(m, item)
  PROVE  IInv'
<1> DEFINE a == [bubble[m] EXCEPT !.menu = FALSE]
           p == [a EXCEPT !.picker = TRUE]
           e == [a EXCEPT !.editing = TRUE]
           b == IF item = "react" THEN p ELSE IF item = "edit" THEN e ELSE a
<1>1. /\ m \in shown /\ UNCHANGED <<shown, timers, crowded, torn>>
      /\ replyTo' = IF item = "reply" THEN m ELSE replyTo
      /\ IF item = "select" THEN StartDragSelect(m) ELSE UNCHANGED <<sel, strayed>>
  BY DEF ChooseItem
<1>2. bubble' = [bubble EXCEPT ![m] = b]
  BY DEF ChooseItem
<1>3. item = "edit" => m \in Mine
  BY DEF MenuItems
<1>4. /\ a \in Bubbles /\ a.ref = bubble[m].ref /\ a.x = bubble[m].x /\ a.actions = bubble[m].actions
      /\ a.active = bubble[m].active /\ a.sideways = bubble[m].sideways /\ a.editing = bubble[m].editing
  BY <1>1, BubbleOf, PanesOf
<1> HIDE DEF a
<1>5. /\ p \in Bubbles /\ p.ref = bubble[m].ref /\ p.x = bubble[m].x /\ p.actions = bubble[m].actions
      /\ p.active = bubble[m].active /\ p.sideways = bubble[m].sideways /\ p.editing = bubble[m].editing
  BY <1>4, PanesOf
<1>6. /\ e \in Bubbles /\ e.ref = bubble[m].ref /\ e.x = bubble[m].x /\ e.actions = bubble[m].actions
      /\ e.active = bubble[m].active /\ e.sideways = bubble[m].sideways
  BY <1>4, PanesOf
<1> HIDE DEF p, e
<1>7. /\ b \in Bubbles /\ b.ref = bubble[m].ref /\ b.x = bubble[m].x /\ b.actions = bubble[m].actions
      /\ b.active = bubble[m].active /\ b.sideways = bubble[m].sideways
      /\ b.editing => bubble[m].editing \/ m \in Mine
  BY <1>3, <1>4, <1>5, <1>6
<1> HIDE DEF b
<1>8. SelPart'
  BY <1>1, StartKeeps, SameParts
<1>9. replyTo' \in Messages \cup {None}
  BY <1>1 DEF IInv
<1> QED BY <1>1, <1>2, <1>7, <1>8, <1>9, PaneKeeps

LEMMA DoubleClickKeeps ==
  ASSUME IInv, NEW m \in Messages, DoubleClick(m)
  PROVE  IInv'
<1>1. replyTo' = m /\ UNCHANGED <<shown, bubble, timers, sel, ghosts>>
  BY DEF DoubleClick
<1> QED BY <1>1, SameParts DEF IInv, ghosts

\* Escape changes every bubble.
LEMMA EscapeKeeps ==
  ASSUME IInv, NEW at \in Messages \cup {None}, Escape(at)
  PROVE  IInv'
<1> DEFINE b(m) == [bubble[m] EXCEPT !.menu = FALSE, !.picker = FALSE, !.editing = @ /\ m # at]
<1>1. /\ bubble' = [m \in Messages |-> b(m)] /\ replyTo' = None /\ sel' = ExitSelectMode /\ Strays
      /\ UNCHANGED <<shown, timers, crowded, torn>>
  BY DEF Escape
<1>2. /\ bubble \in [Messages -> Bubbles] /\ shown \subseteq Messages
  BY DEF IInv, BubblePart
<1>3. ASSUME NEW m \in Messages
      PROVE  /\ b(m) \in Bubbles /\ b(m).ref = bubble[m].ref /\ b(m).x = bubble[m].x
             /\ b(m).actions = bubble[m].actions /\ b(m).active = bubble[m].active
             /\ b(m).sideways = bubble[m].sideways /\ (b(m).editing => bubble[m].editing)
             /\ bubble[m] = Fresh => b(m) = Fresh
  <2> DEFINE a == [bubble[m] EXCEPT !.menu = FALSE]
             p == [a EXCEPT !.picker = FALSE]
             e == [p EXCEPT !.editing = FALSE]
  <2>1. bubble[m] \in Bubbles
    BY <1>2
  <2>2. /\ a \in Bubbles /\ a.ref = bubble[m].ref /\ a.x = bubble[m].x /\ a.actions = bubble[m].actions
        /\ a.active = bubble[m].active /\ a.sideways = bubble[m].sideways /\ a.editing = bubble[m].editing
    BY <2>1, PanesOf
  <2>3. bubble[m] = Fresh => a = Fresh
    BY FreshIs, PanesOf
  <2>4. b(m) = [[a EXCEPT !.picker = FALSE] EXCEPT !.editing = bubble[m].editing /\ m # at]
    BY <2>1 DEF Bubbles
  <2> HIDE DEF a
  <2>5. /\ p \in Bubbles /\ p.ref = bubble[m].ref /\ p.x = bubble[m].x /\ p.actions = bubble[m].actions
        /\ p.active = bubble[m].active /\ p.sideways = bubble[m].sideways /\ p.editing = bubble[m].editing
    BY <2>2, PanesOf
  <2>6. bubble[m] = Fresh => p = Fresh
    BY <2>3, FreshIs, PanesOf
  <2>7. b(m) = [p EXCEPT !.editing = bubble[m].editing /\ m # at]
    BY <2>4
  <2> HIDE DEF p, b
  <2>8. CASE bubble[m].editing /\ m # at
    <3>1. (bubble[m].editing /\ m # at) = TRUE /\ bubble[m].editing = TRUE
      BY <2>1, <2>8 DEF Bubbles
    <3>2. [p EXCEPT !.editing = TRUE] = p
      BY <2>5, <3>1 DEF Bubbles
    <3>3. b(m) = p
      BY <2>7, <3>1, <3>2
    <3> QED BY <2>5, <2>6, <3>3
  <2>9. CASE ~(bubble[m].editing /\ m # at)
    <3>1. (bubble[m].editing /\ m # at) = FALSE
      BY <2>9
    <3>2. b(m) = e
      BY <2>7, <3>1
    <3>3. /\ e \in Bubbles /\ e.ref = bubble[m].ref /\ e.x = bubble[m].x /\ e.actions = bubble[m].actions
          /\ e.active = bubble[m].active /\ e.sideways = bubble[m].sideways /\ ~e.editing
      BY <2>5, PanesOf
    <3>4. bubble[m] = Fresh => e = Fresh
      BY <2>6, FreshIs, PanesOf
    <3> HIDE DEF e
    <3> QED BY <3>2, <3>3, <3>4
  <2> QED BY <2>8, <2>9
<1> HIDE DEF b
<1>4. \A m \in Messages : /\ bubble'[m] \in Bubbles /\ bubble'[m].ref = bubble[m].ref /\ bubble'[m].x = bubble[m].x
                          /\ bubble'[m].actions = bubble[m].actions /\ bubble'[m].active = bubble[m].active
                          /\ bubble'[m].sideways = bubble[m].sideways /\ (bubble'[m].editing => bubble[m].editing)
                          /\ bubble[m] = Fresh => bubble'[m] = Fresh
  BY <1>1, <1>3
<1>5. bubble' \in [Messages -> Bubbles]
  BY <1>1, <1>3
<1>6. BubblePart'
  BY <1>1, <1>2, <1>4, <1>5 DEF IInv, BubblePart, Resting
<1>7. PressPart'
  <2>1. \A t \in timers : t[1] \in Messages
    BY DEF IInv, PressPart
  <2> QED BY <1>1, <1>4, <2>1 DEF IInv, PressPart, PressCanBeEnded
<1>8. SelPart'
  BY <1>1, ExitKeeps DEF IInv
<1> QED BY <1>1, <1>6, <1>7, <1>8 DEF IInv

\* A bubble goes, and its timer with it.
LEMMA UnmountKeeps ==
  ASSUME IInv, NEW m \in Messages, NEW back \in BOOLEAN, Unmount(m, back)
  PROVE  IInv'
<1>1. /\ m \in shown /\ shown' = (IF back THEN shown ELSE shown \ {m})
      /\ timers' = timers \ {<<m, bubble[m].ref>>} /\ bubble' = [bubble EXCEPT ![m] = Fresh]
      /\ torn' = torn \ {m} /\ Thins /\ UNCHANGED <<sel, replyTo, strayed>>
  BY DEF Unmount, ClearLongPress
<1>2. /\ bubble \in [Messages -> Bubbles] /\ shown' \subseteq shown /\ shown \ {m} \subseteq shown'
      /\ m \in Messages
  BY <1>1 DEF IInv, BubblePart
<1>3. bubble'[m] = Fresh /\ \A n \in Messages \ {m} : bubble'[n] = bubble[n]
  BY <1>1, <1>2
<1>4. BubblePart'
  <2>1. bubble' \in [Messages -> Bubbles]
    BY <1>1, <1>2, FreshIs
  <2>2. \A n \in Messages \ shown' : bubble'[n] = Fresh
    BY <1>2, <1>3 DEF IInv, BubblePart
  <2>3. \A n \in Messages : bubble'[n].editing => n \in Mine
    BY <1>3, FreshIs DEF IInv, BubblePart
  <2>4. \A n \in shown' \ torn' : (bubble'[n].active /\ bubble'[n].sideways) \/ Resting(bubble'[n])
    BY <1>1, <1>2, <1>3, FreshIs DEF IInv, BubblePart
  <2>5. shown' \subseteq Messages
    BY <1>2 DEF IInv, BubblePart
  <2> QED BY <2>1, <2>2, <2>3, <2>4, <2>5 DEF BubblePart, Resting
<1>5. \A t \in timers' : t[1] \in crowded \/ (t[1] \in shown' /\ bubble'[t[1]].ref = t[2])
  <2> SUFFICES ASSUME NEW t \in timers', t[1] \notin crowded
               PROVE  t[1] \in shown' /\ bubble'[t[1]].ref = t[2]
    OBVIOUS
  <2>1. t \in timers /\ t[1] \in Messages /\ t = <<t[1], bubble[t[1]].ref>>
    BY <1>1, OthersAreCrowded
  <2>2. t[1] # m
    BY <1>1, <2>1
  <2>3. t[1] \in shown /\ bubble[t[1]].ref = t[2]
    BY <2>1 DEF IInv, PressPart, PressCanBeEnded
  <2> QED BY <1>2, <1>3, <2>1, <2>2, <2>3
<1>6. PressPart'
  BY <1>1, <1>5, TimersEnd DEF IInv
<1>7. SelPart'
  BY <1>1, SameParts
<1> QED BY <1>1, <1>4, <1>6, <1>7 DEF IInv

LEMMA StepKeeps == IInv /\ [Next]_vars => IInv'
<1> SUFFICES ASSUME IInv, [Next]_vars PROVE IInv'
  OBVIOUS
<1>1. ASSUME NEW m \in Messages,
             \/ PointerDown(m) \/ HandleDragSelectEnter(m) \/ HandleBubbleClick(m) \/ OnTouchStart(m)
             \/ OnTouchEnd(m) \/ TouchCancel(m) \/ SwipeAction(m) \/ HandleContextMenu(m) \/ CloseMenu(m)
             \/ DoubleClick(m) \/ HandleAddReaction(m) \/ SaveEdit(m) \/ CancelEdit(m)
      PROVE  IInv'
  BY <1>1, PointerDownKeeps, EnterKeeps, ClickKeeps, TouchStartKeeps, TouchEndKeeps, TouchCancelKeeps,
     SwipeActionKeeps, MenuKeeps, DoubleClickKeeps, EditsKeep
<1>2. ASSUME NEW m \in Messages, NEW to \in Places \cup {Opened + 1}, OnTouchMove(m, to)
      PROVE  IInv'
  BY <1>2, TouchMoveKeeps
<1>3. ASSUME NEW m \in Messages, NEW item \in MenuItems(m), ChooseItem(m, item)
      PROVE  IInv'
  BY <1>3, ChooseKeeps
<1>4. ASSUME NEW m \in Messages, NEW back \in BOOLEAN, Unmount(m, back)
      PROVE  IInv'
  BY <1>4, UnmountKeeps
<1>5. ASSUME NEW m \in Messages \cup {None}, PointerUp(m) \/ Escape(m)
      PROVE  IInv'
  BY <1>5, PointerUpKeeps, EscapeKeeps
<1>6. ASSUME NEW t \in timers, LongPress(t)
      PROVE  IInv'
  BY <1>6, LongPressKeeps
<1>7. CASE HandleSelectAll \/ HandleBatchDelete \/ LeaveSelectMode
  BY <1>7, SelectAllKeeps, LeaveKeeps
<1>8. CASE UNCHANGED vars
  <2>1. UNCHANGED <<shown, bubble, timers, sel, replyTo, crowded, torn, strayed>>
    BY <1>8 DEF vars, page, gestures, ghosts
  <2> QED BY <2>1, SameParts DEF IInv
<1> QED BY <1>1, <1>2, <1>3, <1>4, <1>5, <1>6, <1>7, <1>8 DEF Next

LEMMA AlwaysIInv == Spec => []IInv
<1>1. Init => IInv
  BY InitHolds
<1>2. IInv /\ [Next]_vars => IInv'
  BY StepKeeps
<1> QED BY <1>1, <1>2, PTL DEF Spec

-----------------------------------------------------------------------------
(* Theorems                                                                *)

\* However fingers, timers, cancelled touches and messages that go overlap, a press ends by
\* letting go and a swipe by resting (handlePointerDown, onTouchEnd): the timer that runs is
\* the one its bubble knows, but for a second finger; and no bubble stays between two places,
\* but for a touch that was taken away.
THEOREM GesturesEnd == Spec => []GesturesInv
<1>1. IInv => GesturesInv
  <2> SUFFICES ASSUME IInv PROVE GesturesInv
    OBVIOUS
  <2>1. TypeOK
    BY DEF IInv, BubblePart, PressPart, SelPart, TypeOK
  <2>2. SwipeRests
    BY DEF IInv, BubblePart, SwipeRests, Resting
  <2>3. PressCanBeEnded
    BY DEF IInv, PressPart
  <2> QED BY <2>1, <2>2, <2>3 DEF GesturesInv
<1> QED BY <1>1, AlwaysIInv, PTL

\* Outside of select mode nothing is selected (exitSelectMode, toggleSelect), unless the mode was
\* left with a drag under way.
THEOREM SelectionHasMode == Spec => []SelectionInMode
<1>1. IInv => SelectionInMode
  BY DEF IInv, SelPart
<1> QED BY <1>1, AlwaysIInv, PTL

\* Whatever way leads there, only the user's own messages are deleted and edited, and only what
\* is on the page is asked for: also when a selection outlives its messages, or an edit begun in
\* the menu is saved much later (handleBatchDelete, saveEdit).
THEOREM RequestsAreOwn == Spec => RequestsAreDue
<1> DEFINE Due ==
             sent' # <<>> =>
               /\ sent'[2] \subseteq shown
               /\ sent'[1] \in {"delete", "edit"} => sent'[2] \subseteq Mine
<1>1. IInv /\ [Next]_vars => Due \/ UNCHANGED vars
  <2> SUFFICES ASSUME IInv, Next PROVE Due
    OBVIOUS
  <2>1. ASSUME NEW m \in Messages,
               \/ PointerDown(m) \/ HandleDragSelectEnter(m) \/ HandleBubbleClick(m) \/ OnTouchStart(m)
               \/ OnTouchEnd(m) \/ TouchCancel(m) \/ HandleContextMenu(m) \/ CloseMenu(m)
               \/ DoubleClick(m) \/ CancelEdit(m)
        PROVE  Due
    BY <2>1 DEF PointerDown, HandleDragSelectEnter, HandleBubbleClick, OnTouchStart, OnTouchEnd, TouchCancel,
                HandleContextMenu, CloseMenu, DoubleClick, CancelEdit, Silent
  <2>2. ASSUME NEW m \in Messages, SwipeAction(m)
        PROVE  Due
    BY <2>2 DEF SwipeAction, Silent, Request
  <2>3. ASSUME NEW m \in Messages, HandleAddReaction(m)
        PROVE  Due
    BY <2>3 DEF HandleAddReaction, Request
  <2>4. ASSUME NEW m \in Messages, SaveEdit(m)
        PROVE  Due
    <3>1. m \in shown /\ m \in Mine
      BY <2>4, BubbleOf DEF SaveEdit
    <3> QED BY <2>4, <3>1 DEF SaveEdit, Request
  <2>5. ASSUME NEW m \in Messages, NEW to \in Places \cup {Opened + 1}, OnTouchMove(m, to)
        PROVE  Due
    BY <2>5 DEF OnTouchMove, Silent
  <2>6. ASSUME NEW m \in Messages, NEW item \in MenuItems(m), ChooseItem(m, item)
        PROVE  Due
    <3>1. m \in shown /\ (item \in {"edit", "delete"} => m \in Mine)
      BY <2>6 DEF ChooseItem, MenuItems
    <3> QED BY <2>6, <3>1 DEF ChooseItem, Silent, Request
  <2>7. ASSUME NEW m \in Messages, NEW back \in BOOLEAN, Unmount(m, back)
        PROVE  Due
    BY <2>7 DEF Unmount, Silent
  <2>8. ASSUME NEW m \in Messages \cup {None}, PointerUp(m) \/ Escape(m)
        PROVE  Due
    BY <2>8 DEF PointerUp, Escape, Silent
  <2>9. ASSUME NEW t \in timers, LongPress(t)
        PROVE  Due
    BY <2>9 DEF LongPress, Silent
  <2>10. CASE HandleSelectAll \/ LeaveSelectMode
    BY <2>10 DEF HandleSelectAll, LeaveSelectMode, Silent
  <2>11. CASE HandleBatchDelete
    BY <2>11 DEF HandleBatchDelete, BatchDeletes, Request
  <2> QED BY <2>1, <2>2, <2>3, <2>4, <2>5, <2>6, <2>7, <2>8, <2>9, <2>10, <2>11 DEF Next
<1> QED BY <1>1, AlwaysIInv, PTL DEF Spec, RequestsAreDue
=============================================================================
