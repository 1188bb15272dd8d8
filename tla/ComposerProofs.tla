---------------------------- MODULE ComposerProofs ----------------------------
(***************************************************************************)
(* Proofs about Composer, for any texts, names and messages, and with the  *)
(* picker, compositions, the list of names and answers in use at once.     *)
(***************************************************************************)
EXTENDS Composer, TLAPS

Messages == [text : Texts, state : {"local", "known", "deleted"}]

\* The room sees the flag, if nothing said of it was missed.
Shown(r, flag) == r \in Indicators /\ (~r.missed => r.told = flag)
FlagIsTold ==
  /\ Shown(indicator, input.typing)
  /\ input.typing => HasContent(input) /\ connected
  /\ HasContent(input) /\ ~input.composing /\ connected => input.typing

\* What is stashed was an empty input; what is to be saved is the text; a highlighted name
\* is in the list.
InputOK(i) ==
  /\ (i.editing = None) <=> (i.stash = None)
  /\ i.stash \in {None, Empty} /\ i.saver \in {None, i.text}
  /\ i.mention => i.index < i.found

\* A message that is edited is there.
EditInRoom == Len(room) <= MaxRoom /\ (input.editing # None => input.editing \in 1..Len(room))

\* What was sent is typed no more, and neither in the input nor the draft, but for an edit.
SentIsGone ==
  /\ sentTexts \subseteq (Tokens \cap used) \cup {At}
  /\ ~kept => /\ input.editing = None => input.text \notin sentTexts \ {At}
              /\ draft \notin sentTexts \ {At}

\* Every text that is anywhere was typed.
Seen == used \cup {Empty, Blank, At}
TextsAreSeen == input.text \in Seen /\ draft \in Seen /\ \A k \in 1..Len(room) : room[k].text \in Seen

IInv == TypeOK /\ InputOK(input) /\ DraftFollows /\ FlagIsTold /\ EditInRoom /\ SentIsGone /\ TextsAreSeen

-----------------------------------------------------------------------------
(* Inputs                                                                  *)

\* Each field of an input may be set on its own.
LEMMA InputWith ==
  ASSUME NEW i \in Inputs
  PROVE  /\ \A v \in Texts : [i EXCEPT !.text = v] \in Inputs
         /\ \A v \in Texts \cup {None} : [i EXCEPT !.saver = v] \in Inputs
         /\ \A v \in 1..MaxRoom \cup {None} : [i EXCEPT !.editing = v] \in Inputs
         /\ \A v \in Texts \cup {None} : [i EXCEPT !.stash = v] \in Inputs
         /\ \A v \in BOOLEAN : [i EXCEPT !.sending = v] \in Inputs
         /\ \A v \in BOOLEAN : [i EXCEPT !.composing = v] \in Inputs
         /\ \A v \in BOOLEAN : [i EXCEPT !.typing = v] \in Inputs
         /\ \A v \in BOOLEAN : [i EXCEPT !.mention = v] \in Inputs
         /\ \A v \in 0..MaxNames : [i EXCEPT !.index = v] \in Inputs
         /\ \A v \in BOOLEAN : [i EXCEPT !.query = v] \in Inputs
         /\ \A v \in 0..MaxNames : [i EXCEPT !.found = v] \in Inputs
         /\ \A v \in BOOLEAN : [i EXCEPT !.picker = v] \in Inputs
<1>1. \A v \in Texts : [i EXCEPT !.text = v] \in Inputs
  BY DEF Inputs
<1>2. \A v \in Texts \cup {None} : [i EXCEPT !.saver = v] \in Inputs
  BY DEF Inputs
<1>3. \A v \in 1..MaxRoom \cup {None} : [i EXCEPT !.editing = v] \in Inputs
  BY DEF Inputs
<1>4. \A v \in Texts \cup {None} : [i EXCEPT !.stash = v] \in Inputs
  BY DEF Inputs
<1>5. \A v \in BOOLEAN : [i EXCEPT !.sending = v] \in Inputs
  BY DEF Inputs
<1>6. \A v \in BOOLEAN : [i EXCEPT !.composing = v] \in Inputs
  BY DEF Inputs
<1>7. \A v \in BOOLEAN : [i EXCEPT !.typing = v] \in Inputs
  BY DEF Inputs
<1>8. \A v \in BOOLEAN : [i EXCEPT !.mention = v] \in Inputs
  BY DEF Inputs
<1>9. \A v \in 0..MaxNames : [i EXCEPT !.index = v] \in Inputs
  BY DEF Inputs
<1>10. \A v \in BOOLEAN : [i EXCEPT !.query = v] \in Inputs
  BY DEF Inputs
<1>11. \A v \in 0..MaxNames : [i EXCEPT !.found = v] \in Inputs
  BY DEF Inputs
<1>12. \A v \in BOOLEAN : [i EXCEPT !.picker = v] \in Inputs
  BY DEF Inputs
<1> QED BY <1>1, <1>2, <1>3, <1>4, <1>5, <1>6, <1>7, <1>8, <1>9, <1>10, <1>11, <1>12

LEMMA MountedOK ==
  ASSUME NEW text \in Texts
  PROVE  /\ Mounted(text) \in Inputs /\ InputOK(Mounted(text))
         /\ Mounted(text).text = text /\ Mounted(text).saver = text /\ Mounted(text).editing = None
         /\ ~Mounted(text).typing /\ ~Mounted(text).composing
<1>1. MaxNames \in Nat /\ 0 \in 0..MaxNames
  BY ComposerAssumption
<1>2. Mounted(text) \in Inputs
  BY <1>1 DEF Mounted, Inputs
<1>3. InputOK(Mounted(text))
  BY DEF Mounted, InputOK
<1> QED BY <1>2, <1>3 DEF Mounted

\* A text that is set leaves all but the query as it was.
LEMMA BecomesOK ==
  ASSUME NEW i \in Inputs, NEW text \in Texts
  PROVE  LET j == Becomes(i, text) IN
         /\ j \in Inputs /\ j.text = text /\ j.saver = text
         /\ j.editing = i.editing /\ j.stash = i.stash /\ j.sending = i.sending /\ j.composing = i.composing
         /\ j.typing = i.typing /\ j.mention = i.mention /\ j.index = i.index /\ j.found = i.found /\ j.picker = i.picker
<1> DEFINE q == i.query /\ text # Empty
           a == [i EXCEPT !.text = text]
           b == [a EXCEPT !.saver = text]
           j == [b EXCEPT !.query = q]
<1>1. Becomes(i, text) = j
  BY DEF Becomes
<1>2. a \in Inputs /\ q \in BOOLEAN
  BY InputWith DEF Inputs
<1>3. /\ a.text = text /\ a.editing = i.editing /\ a.stash = i.stash /\ a.sending = i.sending /\ a.composing = i.composing
      /\ a.typing = i.typing /\ a.mention = i.mention /\ a.index = i.index /\ a.found = i.found /\ a.picker = i.picker
  BY DEF Inputs
<1> HIDE DEF a, q
<1>4. b \in Inputs
  BY <1>2, InputWith
<1>5. /\ b.text = text /\ b.saver = text /\ b.editing = i.editing /\ b.stash = i.stash /\ b.sending = i.sending /\ b.composing = i.composing
      /\ b.typing = i.typing /\ b.mention = i.mention /\ b.index = i.index /\ b.found = i.found /\ b.picker = i.picker
  BY <1>2, <1>3 DEF Inputs
<1> HIDE DEF b
<1>6. j \in Inputs
  BY <1>2, <1>4, InputWith
<1>7. /\ j.text = text /\ j.saver = text /\ j.editing = i.editing /\ j.stash = i.stash /\ j.sending = i.sending /\ j.composing = i.composing
      /\ j.typing = i.typing /\ j.mention = i.mention /\ j.index = i.index /\ j.found = i.found /\ j.picker = i.picker
  BY <1>4, <1>5 DEF Inputs
<1> QED BY <1>1, <1>6, <1>7

\* The list of names highlights one it has; all but the list stays.
LEMMA NamesListedOK ==
  ASSUME NEW i \in Inputs, NEW n \in 1..MaxNames, i.mention => i.index < i.found
  PROVE  LET j == NamesListed(i, n) IN
         /\ j \in Inputs /\ (j.mention => j.index < j.found)
         /\ j.text = i.text /\ j.saver = i.saver /\ j.editing = i.editing /\ j.stash = i.stash
         /\ j.composing = i.composing /\ j.typing = i.typing
<1> DEFINE m == IF i.query THEN n ELSE 0
           a == [i EXCEPT !.found = m]
           b == [a EXCEPT !.mention = m > 0]
           c == [b EXCEPT !.index = 0]
<1>1. MaxNames \in Nat /\ m \in 0..MaxNames /\ 0 \in 0..MaxNames
  BY ComposerAssumption
<1>2. NamesListed(i, n) = IF m = i.found THEN i ELSE c
  BY DEF NamesListed
<1> HIDE DEF m
<1>3. a \in Inputs
  BY <1>1, InputWith
<1>4. /\ a.found = m /\ a.text = i.text /\ a.saver = i.saver /\ a.editing = i.editing /\ a.stash = i.stash
      /\ a.composing = i.composing /\ a.typing = i.typing
  BY DEF Inputs
<1> HIDE DEF a
<1>5. b \in Inputs
  <2>1. CASE m > 0
    <3>1. b = [a EXCEPT !.mention = TRUE]
      BY <2>1
    <3> QED BY <1>3, <3>1, InputWith
  <2>2. CASE ~(m > 0)
    <3>1. (m > 0) = FALSE
      BY <2>2
    <3>2. b = [a EXCEPT !.mention = FALSE]
      BY <3>1
    <3> QED BY <1>3, <3>2, InputWith
  <2> QED BY <2>1, <2>2
<1>6. /\ b.found = m /\ b.mention = (m > 0) /\ b.text = i.text /\ b.saver = i.saver /\ b.editing = i.editing /\ b.stash = i.stash
      /\ b.composing = i.composing /\ b.typing = i.typing
  BY <1>3, <1>4 DEF Inputs
<1> HIDE DEF b
<1>7. c \in Inputs
  BY <1>1, <1>5, InputWith
<1>8. /\ c.found = m /\ c.mention = (m > 0) /\ c.index = 0
      /\ c.text = i.text /\ c.saver = i.saver /\ c.editing = i.editing /\ c.stash = i.stash
      /\ c.composing = i.composing /\ c.typing = i.typing
  BY <1>5, <1>6 DEF Inputs
<1> HIDE DEF c
<1>9. c.mention => c.index < c.found
  BY <1>8
<1> QED BY <1>2, <1>7, <1>8, <1>9

\* A start or a stop that is not missed is seen; so is the end of a connection.
LEMMA ToldOK ==
  ASSUME NEW r \in Indicators
  PROVE  /\ \A q \in Started(r) : Shown(q, TRUE)
         /\ \A q \in Stopped(r) : Shown(q, FALSE)
         /\ \A i \in Inputs : Shown(r, i.typing) => Shown(CutOff(r, i), FALSE)
<1>1. /\ r.told \in BOOLEAN /\ r.recent \in BOOLEAN /\ r.missed \in BOOLEAN
      /\ r = [told |-> r.told, recent |-> r.recent, missed |-> r.missed]
  BY DEF Indicators
<1>2. ASSUME NEW q \in Started(r)
      PROVE  Shown(q, TRUE)
  <2>1. CASE r.recent
    <3>1. q = [r EXCEPT !.missed = TRUE]
      BY <1>2, <2>1 DEF Started
    <3> QED BY <1>1, <3>1 DEF Shown, Indicators
  <2>2. CASE ~r.recent
    <3> DEFINE a == [r EXCEPT !.recent = TRUE]
    <3>1. a \in Indicators
      BY <1>1 DEF Indicators
    <3>2. q = [told |-> TRUE, recent |-> TRUE, missed |-> FALSE] \/ q = [a EXCEPT !.missed = TRUE]
      BY <1>2, <2>2 DEF Started
    <3> HIDE DEF a
    <3>3. [a EXCEPT !.missed = TRUE] \in Indicators /\ [a EXCEPT !.missed = TRUE].missed
      BY <3>1 DEF Indicators
    <3>4. CASE q = [told |-> TRUE, recent |-> TRUE, missed |-> FALSE]
      BY <3>4 DEF Shown, Indicators
    <3> QED BY <3>2, <3>3, <3>4 DEF Shown
  <2> QED BY <2>1, <2>2
<1>3. ASSUME NEW q \in Stopped(r)
      PROVE  Shown(q, FALSE)
  BY <1>1, <1>3 DEF Stopped, Shown, Indicators
<1>4. ASSUME NEW i \in Inputs, Shown(r, i.typing)
      PROVE  Shown(CutOff(r, i), FALSE)
  <2> DEFINE m == r.missed \/ i.typing
             c == [r EXCEPT !.missed = m]
  <2>1. i.typing \in BOOLEAN /\ m \in BOOLEAN /\ CutOff(r, i) = c
    BY <1>1 DEF Inputs, CutOff
  <2>2. ~m => r.told = FALSE
    BY <1>1, <1>4, <2>1 DEF Shown
  <2> HIDE DEF m
  <2>3. c \in Indicators /\ c.missed = m /\ c.told = r.told
    BY <2>1 DEF Indicators
  <2> QED BY <2>1, <2>2, <2>3 DEF Shown
<1> QED BY <1>2, <1>3, <1>4

\* After a render the flag is that of the text, and the room has been told of it.
LEMMA Rendered ==
  ASSUME NEW r, NEW i \in Inputs, Shown(r, i.typing), NEW n \in 1..MaxNames, NEW up \in BOOLEAN, InputOK(i),
         RenderAfter(r, i, n, up)
  PROVE  /\ input' \in Inputs /\ InputOK(input')
         /\ input'.text = i.text /\ input'.saver = i.saver /\ input'.editing = i.editing
         /\ Shown(indicator', input'.typing)
         /\ input'.typing => HasContent(i) /\ up
         /\ HasContent(i) /\ ~input'.composing /\ up => input'.typing
<1> DEFINE j == NamesListed(i, n)
           e == TypingEffect(j, up)
<1>1. /\ j \in Inputs /\ (j.mention => j.index < j.found)
      /\ j.text = i.text /\ j.saver = i.saver /\ j.editing = i.editing /\ j.stash = i.stash
      /\ j.composing = i.composing /\ j.typing = i.typing
  BY NamesListedOK DEF InputOK
<1>2. input' = [j EXCEPT !.typing = e] /\ Tell(r, i, input', up)
  BY DEF RenderAfter
<1> HIDE DEF j
<1>3. HasContent(j) <=> HasContent(i)
  BY <1>1 DEF HasContent
<1>4. e \in BOOLEAN /\ (e => HasContent(i) /\ up) /\ (HasContent(i) /\ ~j.composing /\ up => e)
  BY <1>1, <1>3 DEF TypingEffect, Inputs
<1> HIDE DEF e
<1>5. input' \in Inputs
  BY <1>1, <1>2, <1>4, InputWith
<1>6. /\ input'.typing = e /\ input'.text = i.text /\ input'.saver = i.saver /\ input'.editing = i.editing /\ input'.stash = i.stash
      /\ input'.composing = j.composing /\ input'.mention = j.mention /\ input'.index = j.index /\ input'.found = j.found
  BY <1>1, <1>2 DEF Inputs
<1>7. Shown(indicator', input'.typing)
  <2>1. i.typing \in BOOLEAN /\ input'.typing \in BOOLEAN /\ r \in Indicators
    BY <1>5 DEF Inputs, Shown
  <2>2. CASE input'.typing = i.typing
    <3>1. indicator' = r
      BY <1>2, <2>2 DEF Tell
    <3> QED BY <2>2, <3>1
  <2>3. CASE input'.typing # i.typing /\ input'.typing
    <3>1. indicator' \in Started(r) /\ input'.typing = TRUE
      BY <1>2, <2>1, <2>3 DEF Tell
    <3>2. Shown(indicator', TRUE)
      BY <2>1, <3>1, ToldOK
    <3> QED BY <3>1, <3>2
  <2>4. CASE input'.typing # i.typing /\ ~input'.typing
    <3>1. (indicator' \in Stopped(r) \/ indicator' = CutOff(r, i)) /\ input'.typing = FALSE
      BY <1>2, <2>1, <2>4 DEF Tell
    <3>2. Shown(indicator', FALSE)
      BY <2>1, <3>1, ToldOK
    <3> QED BY <3>1, <3>2
  <2> QED BY <2>2, <2>3, <2>4
<1>8. InputOK(input')
  BY <1>1, <1>6 DEF InputOK
<1> QED BY <1>4, <1>5, <1>6, <1>7, <1>8

-----------------------------------------------------------------------------
(* The steps                                                               *)

\* A step that renders an input in order, with the draft, the room and what was sent as
\* they should be, leaves all in order.
LEMMA RenderKeeps ==
  ASSUME NEW r, NEW i \in Inputs, Shown(r, i.typing), InputOK(i), RenderAfter(r, i, names', connected'),
         names' \in 1..MaxNames, connected' \in BOOLEAN, page' \in {"up", "fallback"}, draft' \in Texts, replyTo' \in BOOLEAN,
         room' \in Seq(Messages), Len(room') <= MaxRoom,
         used' \subseteq Tokens, kept' \in BOOLEAN,
         page' = "up" /\ i.saver = None => draft' = IF HasContent(i) THEN i.text ELSE Empty,
         i.editing # None => i.editing \in 1..Len(room'),
         sentTexts' \subseteq (Tokens \cap used') \cup {At},
         ~kept' /\ i.editing = None => i.text \notin sentTexts' \ {At},
         ~kept' => draft' \notin sentTexts' \ {At},
         i.text \in Seen', draft' \in Seen', \A k \in 1..Len(room') : room'[k].text \in Seen'
  PROVE  IInv'
<1>1. /\ input' \in Inputs /\ InputOK(input')
      /\ input'.text = i.text /\ input'.saver = i.saver /\ input'.editing = i.editing
      /\ Shown(indicator', input'.typing)
      /\ input'.typing => HasContent(i) /\ connected'
      /\ HasContent(i) /\ ~input'.composing /\ connected' => input'.typing
  BY Rendered
<1>2. HasContent(input') <=> HasContent(i)
  BY <1>1 DEF HasContent
<1>3. TypeOK'
  <2>1. indicator' \in Indicators
    BY <1>1 DEF Shown
  <2> QED BY <1>1, <2>1 DEF TypeOK, InputOK, Messages
<1>4. DraftFollows' /\ FlagIsTold' /\ EditInRoom' /\ SentIsGone'
  BY <1>1, <1>2 DEF DraftFollows, FlagIsTold, EditInRoom, SentIsGone, HasContent
<1>5. TextsAreSeen'
  BY <1>1 DEF TextsAreSeen
<1> QED BY <1>1, <1>3, <1>4, <1>5 DEF IInv

\* A text that was not there, or the same text, is shown.
LEMMA ShowsKeeps ==
  ASSUME IInv, NEW i \in Inputs, InputOK(i), i.typing = input.typing, Shows(i), used \subseteq used', used' \subseteq Tokens,
         \/ i.text = input.text /\ i.saver = input.saver /\ i.editing = input.editing
         \/ /\ i.saver = i.text /\ i.editing \in {input.editing, None}
            /\ i.text \in (Tokens \ used) \cup {Empty, Blank, At} /\ i.text \in Seen'
  PROVE  IInv'
<1>1. /\ TypeOK /\ DraftFollows /\ Shown(indicator, input.typing) /\ EditInRoom /\ SentIsGone /\ TextsAreSeen
      /\ room \in Seq(Messages)
  BY DEF IInv, FlagIsTold, TypeOK, Messages
<1>2. /\ page = "up" /\ Render(i, names, connected)
      /\ UNCHANGED <<page, draft, names, connected, replyTo, room, sentTexts, kept>>
  BY DEF Shows, outside
<1>3. page' = "up" /\ i.saver = None => draft' = IF HasContent(i) THEN i.text ELSE Empty
  BY <1>1, <1>2, ComposerAssumption DEF DraftFollows, HasContent, Texts
<1>4. /\ i.editing # None => i.editing \in 1..Len(room')
      /\ Len(room') <= MaxRoom
  BY <1>1, <1>2 DEF EditInRoom
<1>5. sentTexts' \subseteq (Tokens \cap used') \cup {At} /\ (~kept' => draft' \notin sentTexts' \ {At})
  BY <1>1, <1>2 DEF SentIsGone
<1>6. ~kept' /\ i.editing = None => i.text \notin sentTexts' \ {At}
  BY <1>1, <1>2, ComposerAssumption DEF SentIsGone, InputOK, IInv
<1>7. /\ names' \in 1..MaxNames /\ connected' \in BOOLEAN /\ page' \in {"up", "fallback"} /\ draft' \in Texts
      /\ replyTo' \in BOOLEAN /\ kept' \in BOOLEAN /\ room' \in Seq(Messages)
      /\ Shown(indicator, i.typing) /\ RenderAfter(indicator, i, names', connected')
  BY <1>1, <1>2 DEF TypeOK, Render
<1>8. i.text \in Seen' /\ draft' \in Seen' /\ \A k \in 1..Len(room') : room'[k].text \in Seen'
  BY <1>1, <1>2 DEF TextsAreSeen, Seen
<1> QED BY <1>1, <1>3, <1>4, <1>5, <1>6, <1>7, <1>8, RenderKeeps

LEMMA TypeKeeps ==
  ASSUME IInv, NEW t \in Texts, Type(t)
  PROVE  IInv'
<1> DEFINE b == Becomes(input, t)
           i == Typed(input, t)
<1>1. input \in Inputs /\ InputOK(input) /\ used \subseteq Tokens
  BY DEF IInv, TypeOK
<1>2. /\ b \in Inputs /\ b.text = t /\ b.saver = t /\ b.editing = input.editing /\ b.stash = input.stash
      /\ b.typing = input.typing /\ b.mention = input.mention /\ b.index = input.index /\ b.found = input.found
  BY <1>1, BecomesOK
<1>3. i = [b EXCEPT !.query = TRUE] \/ i = [b EXCEPT !.query = FALSE]
  <2>1. CASE t = At
    BY <2>1 DEF Typed
  <2>2. CASE t # At
    <3>1. (t = At) = FALSE
      BY <2>2
    <3> QED BY <3>1 DEF Typed
  <2> QED BY <2>1, <2>2
<1>4. Shows(i)
  BY DEF Type
<1> HIDE DEF b, i
<1>5. i \in Inputs
  BY <1>2, <1>3, InputWith
<1>6. /\ i.text = t /\ i.saver = t /\ i.editing = input.editing /\ i.stash = input.stash
      /\ i.typing = input.typing /\ i.mention = input.mention /\ i.index = input.index /\ i.found = input.found
  BY <1>2, <1>3 DEF Inputs
<1>7. InputOK(i)
  BY <1>1, <1>6 DEF InputOK
<1>8. /\ used \subseteq used' /\ used' \subseteq Tokens /\ t \in (Tokens \ used) \cup {Empty, Blank, At} /\ t \in Seen'
  BY <1>1 DEF Type, Unused, Texts, Seen
<1> QED BY <1>4, <1>5, <1>6, <1>7, <1>8, ShowsKeeps

\* A text that is inserted: an emoji, the name of the assistant, a name from the list.
LEMMA InsertKeeps ==
  ASSUME IInv, NEW t \in Tokens, InsertEmoji(t) \/ InsertAssistant(t) \/ InsertMention(t)
  PROVE  IInv'
<1> DEFINE b == Becomes(input, t)
<1>1. input \in Inputs /\ InputOK(input) /\ used \subseteq Tokens /\ t \in Texts
  BY DEF IInv, TypeOK, Texts
<1>2. /\ b \in Inputs /\ b.text = t /\ b.saver = t /\ b.editing = input.editing /\ b.stash = input.stash
      /\ b.typing = input.typing /\ b.mention = input.mention /\ b.index = input.index /\ b.found = input.found
  BY <1>1, BecomesOK
<1>3. /\ t \notin used /\ used' = used \cup {t}
      /\ Shows([b EXCEPT !.picker = FALSE]) \/ Shows(b) \/ Shows([b EXCEPT !.mention = FALSE])
  BY DEF InsertEmoji, InsertAssistant, InsertMention, Unused
<1> HIDE DEF b
<1>4. ASSUME NEW i \in Inputs, Shows(i), i.text = t, i.saver = t, i.editing = input.editing, i.stash = input.stash,
             i.typing = input.typing, i.mention => input.mention, i.index = input.index, i.found = input.found
      PROVE  IInv'
  <2>1. InputOK(i)
    BY <1>1, <1>4 DEF InputOK
  <2>2. t \in Seen'
    BY <1>3 DEF Seen
  <2> QED BY <1>1, <1>3, <1>4, <2>1, <2>2, ShowsKeeps
<1>5. CASE Shows([b EXCEPT !.picker = FALSE])
  <2> DEFINE i == [b EXCEPT !.picker = FALSE]
  <2>1. i \in Inputs
    BY <1>2, InputWith
  <2>2. /\ i.text = t /\ i.saver = t /\ i.editing = input.editing /\ i.stash = input.stash
        /\ i.typing = input.typing /\ i.mention = input.mention /\ i.index = input.index /\ i.found = input.found
    BY <1>2 DEF Inputs
  <2> HIDE DEF i
  <2> QED BY <1>4, <1>5, <2>1, <2>2 DEF i
<1>6. CASE Shows([b EXCEPT !.mention = FALSE])
  <2> DEFINE i == [b EXCEPT !.mention = FALSE]
  <2>1. i \in Inputs
    BY <1>2, InputWith
  <2>2. /\ i.text = t /\ i.saver = t /\ i.editing = input.editing /\ i.stash = input.stash
        /\ i.typing = input.typing /\ ~i.mention /\ i.index = input.index /\ i.found = input.found
    BY <1>2 DEF Inputs
  <2> HIDE DEF i
  <2> QED BY <1>4, <1>6, <2>1, <2>2 DEF i
<1> QED BY <1>2, <1>3, <1>4, <1>5, <1>6

\* What changes neither the text nor what is edited.
LEMMA AsideKeeps ==
  ASSUME IInv, Compose \/ MoveHighlight \/ TogglePicker
  PROVE  IInv'
<1>1. input \in Inputs /\ InputOK(input) /\ used' = used /\ used \subseteq Tokens
  BY DEF IInv, TypeOK, Compose, MoveHighlight, TogglePicker
<1>2. ASSUME NEW i \in Inputs, Shows(i), i.text = input.text, i.saver = input.saver, i.editing = input.editing, i.stash = input.stash,
             i.typing = input.typing /\ i.mention = input.mention, i.found = input.found, input.mention => i.index < input.found
      PROVE  IInv'
  <2>1. InputOK(i)
    BY <1>1, <1>2 DEF InputOK
  <2> QED BY <1>1, <1>2, <2>1, ShowsKeeps
<1>3. CASE Compose
  <2> DEFINE v == ~input.composing
             i == [input EXCEPT !.composing = v]
  <2>1. Shows(i)
    BY <1>1, <1>3 DEF Compose
  <2>2. v \in BOOLEAN
    BY <1>1 DEF Inputs
  <2> HIDE DEF v
  <2>3. i \in Inputs
    BY <1>1, <2>2, InputWith
  <2>4. /\ i.text = input.text /\ i.saver = input.saver /\ i.editing = input.editing /\ i.stash = input.stash
        /\ i.typing = input.typing /\ i.mention = input.mention /\ i.index = input.index /\ i.found = input.found
    BY <1>1 DEF Inputs
  <2> HIDE DEF i
  <2> QED BY <1>1, <1>2, <2>1, <2>3, <2>4 DEF InputOK
<1>4. CASE MoveHighlight
  <2>1. input.mention /\ input.found \in 0..MaxNames /\ MaxNames \in Nat /\ input.index \in 0..MaxNames
    BY <1>1, <1>4, ComposerAssumption DEF MoveHighlight, Inputs
  <2>2. PICK k \in {input.index - 1, input.index + 1} \cap 0..(input.found - 1) : Shows([input EXCEPT !.index = k])
    BY <1>4 DEF MoveHighlight
  <2>3. k \in 0..MaxNames /\ k < input.found
    BY <2>1
  <2> DEFINE i == [input EXCEPT !.index = k]
  <2>4. i \in Inputs
    BY <1>1, <2>3, InputWith
  <2>5. /\ i.text = input.text /\ i.saver = input.saver /\ i.editing = input.editing /\ i.stash = input.stash
        /\ i.typing = input.typing /\ i.mention = input.mention /\ i.index = k /\ i.found = input.found
    BY <1>1 DEF Inputs
  <2>6. Shows(i)
    BY <2>2
  <2> HIDE DEF i
  <2> QED BY <1>2, <2>3, <2>4, <2>5, <2>6
<1>5. CASE TogglePicker
  <2> DEFINE v == ~input.picker
             i == [input EXCEPT !.picker = v]
  <2>1. Shows(i)
    BY <1>1, <1>5 DEF TogglePicker
  <2>2. v \in BOOLEAN
    BY <1>1 DEF Inputs
  <2> HIDE DEF v
  <2>3. i \in Inputs
    BY <1>1, <2>2, InputWith
  <2>4. /\ i.text = input.text /\ i.saver = input.saver /\ i.editing = input.editing /\ i.stash = input.stash
        /\ i.typing = input.typing /\ i.mention = input.mention /\ i.index = input.index /\ i.found = input.found
    BY <1>1 DEF Inputs
  <2> HIDE DEF i
  <2> QED BY <1>1, <1>2, <2>1, <2>3, <2>4 DEF InputOK
<1> QED BY <1>3, <1>4, <1>5

\* An edit that is given up leaves an empty input.
LEMMA CancelledOK ==
  ASSUME NEW i \in Inputs, InputOK(i), i.editing # None
  PROVE  /\ Cancelled(i) \in Inputs /\ InputOK(Cancelled(i))
         /\ Cancelled(i).text = Empty /\ Cancelled(i).saver = Empty /\ Cancelled(i).editing = None
         /\ Cancelled(i).typing = i.typing
<1> DEFINE b == Becomes(i, i.stash)
           c == [b EXCEPT !.editing = None]
           d == [c EXCEPT !.stash = None]
<1>1. i.stash = Empty /\ Empty \in Texts
  BY DEF InputOK, Texts
<1>2. /\ b \in Inputs /\ b.text = Empty /\ b.saver = Empty
      /\ b.typing = i.typing /\ b.mention = i.mention /\ b.index = i.index /\ b.found = i.found
  BY <1>1, BecomesOK
<1>3. Cancelled(i) = d
  BY DEF Cancelled
<1> HIDE DEF b
<1>4. c \in Inputs
  BY <1>2, InputWith
<1>5. /\ c.text = Empty /\ c.saver = Empty /\ c.editing = None
      /\ c.typing = i.typing /\ c.mention = i.mention /\ c.index = i.index /\ c.found = i.found
  BY <1>2 DEF Inputs
<1> HIDE DEF c
<1>6. d \in Inputs
  BY <1>4, InputWith
<1>7. /\ d.text = Empty /\ d.saver = Empty /\ d.editing = None /\ d.stash = None
      /\ d.typing = i.typing /\ d.mention = i.mention /\ d.index = i.index /\ d.found = i.found
  BY <1>4, <1>5 DEF Inputs
<1>8. InputOK(d)
  BY <1>7 DEF InputOK
<1> QED BY <1>3, <1>6, <1>7, <1>8

\* Escape, and the cross of the edit.
LEMMA EscapeKeeps ==
  ASSUME IInv, CancelEdit \/ Escape
  PROVE  IInv'
<1>1. /\ input \in Inputs /\ InputOK(input) /\ Shown(indicator, input.typing) /\ DraftFollows /\ EditInRoom /\ SentIsGone /\ used \subseteq Tokens
      /\ TextsAreSeen
      /\ names \in 1..MaxNames /\ connected \in BOOLEAN /\ draft \in Texts /\ kept \in BOOLEAN /\ room \in Seq(Messages)
  BY DEF IInv, TypeOK, FlagIsTold, Messages
<1>2. CASE CancelEdit
  <2>1. used' = used /\ Shows(Cancelled(input)) /\ input.editing # None
    BY <1>2 DEF CancelEdit
  <2>2. Empty \in Seen'
    BY DEF Seen
  <2> QED BY <1>1, <2>1, <2>2, CancelledOK, ShowsKeeps
<1>3. CASE Escape
  <2> DEFINE p == [input EXCEPT !.picker = FALSE]
  <2>1. /\ page = "up" /\ replyTo' = FALSE
        /\ Render(IF p.mention THEN [p EXCEPT !.mention = FALSE]
                  ELSE IF p.editing # None THEN Cancelled(p) ELSE p, names, connected)
        /\ UNCHANGED <<page, draft, names, connected, room, used, sentTexts, kept>>
    BY <1>3 DEF Escape, ghosts
  <2>2. p \in Inputs
    BY <1>1, InputWith
  <2>3. /\ p.text = input.text /\ p.saver = input.saver /\ p.editing = input.editing /\ p.stash = input.stash
        /\ p.typing = input.typing /\ p.mention = input.mention /\ p.index = input.index /\ p.found = input.found
    BY <1>1 DEF Inputs
  <2> HIDE DEF p
  <2>4. InputOK(p)
    BY <1>1, <2>3 DEF InputOK
  <2>5. \E i \in Inputs : /\ InputOK(i) /\ i.typing = input.typing /\ Render(i, names, connected)
                          /\ \/ i.text = input.text /\ i.saver = input.saver /\ i.editing = input.editing
                             \/ i.text = Empty /\ i.saver = Empty /\ i.editing = None
    <3>1. CASE p.mention
      <4> DEFINE i == [p EXCEPT !.mention = FALSE]
      <4>1. i \in Inputs
        BY <2>2, InputWith
      <4>2. /\ i.text = input.text /\ i.saver = input.saver /\ i.editing = input.editing /\ i.stash = input.stash /\ i.typing = input.typing /\ ~i.mention
        BY <2>2, <2>3 DEF Inputs
      <4>3. Render(i, names, connected)
        BY <2>1, <3>1
      <4> HIDE DEF i
      <4>4. InputOK(i)
        BY <1>1, <4>2 DEF InputOK
      <4> QED BY <4>1, <4>2, <4>3, <4>4
    <3>2. CASE ~p.mention /\ p.editing # None
      <4>1. Render(Cancelled(p), names, connected)
        BY <2>1, <3>2
      <4> QED BY <2>2, <2>3, <2>4, <3>2, <4>1, CancelledOK
    <3>3. CASE ~p.mention /\ p.editing = None
      <4>1. Render(p, names, connected)
        BY <2>1, <3>3
      <4> QED BY <2>2, <2>3, <2>4, <4>1
    <3> QED BY <3>1, <3>2, <3>3
  <2>6. PICK i \in Inputs : /\ InputOK(i) /\ i.typing = input.typing /\ Render(i, names, connected)
                            /\ \/ i.text = input.text /\ i.saver = input.saver /\ i.editing = input.editing
                               \/ i.text = Empty /\ i.saver = Empty /\ i.editing = None
    BY <2>5
  <2>7. page' = "up" /\ i.saver = None => draft' = IF HasContent(i) THEN i.text ELSE Empty
    BY <1>1, <2>1, <2>6, ComposerAssumption DEF DraftFollows, HasContent, Texts
  <2>8. i.editing # None => i.editing \in 1..Len(room)
    BY <1>1, <2>6 DEF EditInRoom
  <2>9. ~kept /\ i.editing = None => i.text \notin sentTexts \ {At}
    BY <1>1, <2>6, ComposerAssumption DEF SentIsGone, InputOK
  <2>10. Len(room) <= MaxRoom /\ sentTexts \subseteq (Tokens \cap used) \cup {At} /\ (~kept => draft \notin sentTexts \ {At})
    BY <1>1 DEF EditInRoom, SentIsGone
  <2>11. /\ names' \in 1..MaxNames /\ connected' \in BOOLEAN /\ page' \in {"up", "fallback"} /\ draft' \in Texts /\ replyTo' \in BOOLEAN
         /\ kept' \in BOOLEAN /\ room' \in Seq(Messages) /\ Len(room') <= MaxRoom /\ used' \subseteq Tokens
         /\ Shown(indicator, i.typing) /\ RenderAfter(indicator, i, names', connected')
    BY <1>1, <2>1, <2>6, <2>10 DEF Render
  <2>12. /\ i.editing # None => i.editing \in 1..Len(room')
         /\ sentTexts' \subseteq (Tokens \cap used') \cup {At}
         /\ ~kept' /\ i.editing = None => i.text \notin sentTexts' \ {At}
         /\ ~kept' => draft' \notin sentTexts' \ {At}
    BY <2>1, <2>8, <2>9, <2>10
  <2>13. i.text \in Seen' /\ draft' \in Seen' /\ \A k \in 1..Len(room') : room'[k].text \in Seen'
    BY <1>1, <2>1, <2>6 DEF TextsAreSeen, Seen
  <2> QED BY <1>1, <2>6, <2>7, <2>11, <2>12, <2>13, RenderKeeps
<1> QED BY <1>2, <1>3

\* Names come and go, and so does the connection.
LEMMA AroundKeeps ==
  ASSUME IInv, NamesChange \/ Connect \/ Drop
  PROVE  IInv'
<1>1. /\ input \in Inputs /\ InputOK(input) /\ Shown(indicator, input.typing) /\ DraftFollows /\ EditInRoom /\ SentIsGone /\ used \subseteq Tokens
      /\ TextsAreSeen
      /\ names \in 1..MaxNames /\ connected \in BOOLEAN /\ draft \in Texts /\ kept \in BOOLEAN /\ room \in Seq(Messages)
      /\ page \in {"up", "fallback"} /\ replyTo \in BOOLEAN
  BY DEF IInv, TypeOK, FlagIsTold, Messages
<1>2. /\ RenderAfter(indicator, input, names', connected') /\ names' \in 1..MaxNames /\ connected' \in BOOLEAN
      /\ UNCHANGED <<page, draft, replyTo, room, used, sentTexts, kept>>
  BY <1>1 DEF NamesChange, Connect, Drop, ghosts, Render
<1>3. page' = "up" /\ input.saver = None => draft' = IF HasContent(input) THEN input.text ELSE Empty
  BY <1>1, <1>2 DEF DraftFollows
<1>4. /\ Len(room') <= MaxRoom /\ (input.editing # None => input.editing \in 1..Len(room'))
  BY <1>1, <1>2 DEF EditInRoom
<1>5. /\ sentTexts' \subseteq (Tokens \cap used') \cup {At}
      /\ ~kept' /\ input.editing = None => input.text \notin sentTexts' \ {At}
      /\ ~kept' => draft' \notin sentTexts' \ {At}
  BY <1>1, <1>2 DEF SentIsGone
<1>6. input.text \in Seen' /\ draft' \in Seen' /\ \A k \in 1..Len(room') : room'[k].text \in Seen'
  BY <1>1, <1>2 DEF TextsAreSeen, Seen
<1> QED BY <1>1, <1>2, <1>3, <1>4, <1>5, <1>6, RenderKeeps

\* A page that is opened, or whose input is replaced.
LEMMA MountKeeps ==
  ASSUME IInv, Reload \/ CustomTab
  PROVE  IInv'
<1>1. /\ TypeOK /\ DraftFollows /\ FlagIsTold /\ EditInRoom /\ SentIsGone /\ TextsAreSeen /\ room \in Seq(Messages) /\ draft \in Texts /\ Empty \in Texts
  BY DEF IInv, TypeOK, Messages, Texts
<1>2. /\ page' \in {"up", "fallback"} /\ UNCHANGED <<draft, names, used, sentTexts, kept>>
      /\ connected' \in BOOLEAN /\ replyTo' \in BOOLEAN
      /\ \/ input' = Mounted(draft) /\ connected' = FALSE
         \/ input' = Mounted(Empty)
  BY <1>1 DEF Reload, CustomTab, outside, ghosts, TypeOK
<1>3. room' \in Seq(Messages) /\ Len(room') = Len(room) /\ \A k \in 1..Len(room) : room'[k].text = room[k].text
  <2>1. CASE Reload
    <3>1. room' = [k \in 1..Len(room) |-> Remembered(room[k])] /\ Len(room) \in Nat
      BY <1>1, <2>1 DEF Reload
    <3>2. ASSUME NEW k \in 1..Len(room)
          PROVE  Remembered(room[k]) \in Messages /\ Remembered(room[k]).text = room[k].text
      <4>1. room[k] \in Messages
        BY <1>1, <3>2
      <4> QED BY <4>1 DEF Remembered, Messages
    <3> QED BY <3>1, <3>2
  <2>2. CASE CustomTab
    BY <1>1, <2>2 DEF CustomTab, outside
  <2> QED BY <2>1, <2>2
<1>4. /\ input' \in Inputs /\ InputOK(input') /\ input'.editing = None /\ ~input'.typing /\ ~input'.composing
      /\ input'.saver = input'.text /\ input'.text \in {draft, Empty} /\ (input'.text = draft \/ input'.text = Empty)
      /\ connected' => input'.text = Empty
  BY <1>1, <1>2, MountedOK
<1>5. FlagIsTold'
  <2>1. /\ input \in Inputs /\ input.typing \in BOOLEAN /\ indicator \in Indicators /\ Shown(indicator, input.typing)
        /\ input'.typing = FALSE /\ input'.typing \in BOOLEAN
    BY <1>1, <1>4 DEF TypeOK, FlagIsTold, Inputs
  <2>2. Shown(CutOff(indicator, input), FALSE) /\ \A q \in Stopped(indicator) : Shown(q, FALSE)
    BY <2>1, ToldOK
  <2>3. ASSUME Reload
        PROVE  Shown(indicator', FALSE)
    BY <2>2, <2>3 DEF Reload
  <2>4. ASSUME CustomTab
        PROVE  Shown(indicator', FALSE)
    <3>1. indicator' \in IF input.typing THEN Stopped(indicator) ELSE {indicator}
      BY <2>4 DEF CustomTab
    <3>2. CASE input.typing
      BY <2>2, <3>1, <3>2
    <3>3. CASE ~input.typing
      <4>1. indicator' = indicator /\ input.typing = FALSE
        BY <2>1, <3>1, <3>3
      <4> QED BY <2>1, <4>1
    <3> QED BY <3>2, <3>3
  <2>5. Shown(indicator', input'.typing)
    BY <2>1, <2>3, <2>4
  <2> QED BY <1>2, <1>4, <2>5 DEF FlagIsTold, HasContent
<1>6. TypeOK'
  <2>1. indicator' \in Indicators
    BY <1>5 DEF FlagIsTold, Shown
  <2> QED BY <1>1, <1>2, <1>3, <1>4, <2>1 DEF TypeOK, InputOK, Messages
<1>7. DraftFollows' /\ EditInRoom'
  BY <1>1, <1>3, <1>4, ComposerAssumption DEF DraftFollows, EditInRoom, Texts
<1>8. SentIsGone'
  BY <1>1, <1>2, <1>4, ComposerAssumption DEF SentIsGone
<1>9. TextsAreSeen'
  BY <1>1, <1>2, <1>3, <1>4 DEF TextsAreSeen, Seen
<1> QED BY <1>4, <1>5, <1>6, <1>7, <1>8, <1>9 DEF IInv

\* The draft is the text; that of an edit makes it one of the kept.
LEMMA SaveDraftKeeps ==
  ASSUME IInv, SaveDraft
  PROVE  IInv'
<1>1. /\ TypeOK /\ input \in Inputs /\ InputOK(input) /\ DraftFollows /\ FlagIsTold /\ EditInRoom /\ SentIsGone /\ TextsAreSeen
  BY DEF IInv, TypeOK
<1>2. /\ page = "up" /\ input.saver # None
      /\ draft' = IF input.saver \in {Empty, Blank} THEN Empty ELSE input.saver
      /\ input' = [input EXCEPT !.saver = None]
      /\ kept' = (draft' # Empty /\ (kept \/ input.editing # None))
      /\ UNCHANGED <<page, names, connected, replyTo, room, used, sentTexts, indicator>>
  BY DEF SaveDraft
<1>3. input.saver = input.text /\ input.text \in Texts
  BY <1>1, <1>2 DEF InputOK, Inputs
<1>4. input' \in Inputs
  BY <1>1, <1>2, InputWith
<1>5. /\ input'.text = input.text /\ input'.saver = None /\ input'.editing = input.editing /\ input'.stash = input.stash
      /\ input'.composing = input.composing /\ input'.typing = input.typing
      /\ input'.mention = input.mention /\ input'.index = input.index /\ input'.found = input.found
  BY <1>1, <1>2 DEF Inputs
<1>6. draft' = IF HasContent(input) THEN input.text ELSE Empty
  BY <1>2, <1>3 DEF HasContent
<1>7. draft' \in Texts /\ (HasContent(input') <=> HasContent(input)) /\ kept' \in BOOLEAN
  BY <1>2, <1>3, <1>5 DEF HasContent, Texts
<1>8. InputOK(input')
  BY <1>1, <1>5 DEF InputOK
<1>9. TypeOK'
  BY <1>1, <1>2, <1>4, <1>7, <1>8 DEF TypeOK, InputOK
<1>10. DraftFollows' /\ FlagIsTold' /\ EditInRoom'
  BY <1>1, <1>2, <1>5, <1>6, <1>7 DEF DraftFollows, FlagIsTold, Shown, EditInRoom, HasContent
<1>11. SentIsGone'
  <2>1. sentTexts \cap {Empty, Blank} = {}
    BY <1>1, ComposerAssumption DEF SentIsGone, At, Empty, Blank
  <2>2. Empty \notin sentTexts \ {At} /\ Blank \notin sentTexts \ {At}
    BY <2>1
  <2>3. ASSUME ~kept', input.editing = None
        PROVE  input.text \notin sentTexts \ {At}
    <3>1. CASE kept
      <4>1. draft' = Empty
        BY <1>2, <2>3, <3>1
      <4> QED BY <1>3, <1>6, <2>2, <4>1 DEF HasContent
    <3>2. CASE ~kept
      BY <1>1, <2>3, <3>2 DEF SentIsGone
    <3> QED BY <3>1, <3>2
  <2>4. ASSUME ~kept'
        PROVE  draft' \notin sentTexts \ {At}
    <3>1. CASE draft' = Empty
      BY <2>2, <3>1
    <3>2. CASE draft' # Empty
      <4>1. ~kept /\ input.editing = None
        BY <1>2, <2>4, <3>2
      <4>2. draft' = input.text
        BY <1>6, <3>2
      <4> QED BY <1>1, <4>1, <4>2 DEF SentIsGone
    <3> QED BY <3>1, <3>2
  <2> QED BY <1>1, <1>2, <1>5, <2>3, <2>4 DEF SentIsGone
<1>12. TextsAreSeen'
  BY <1>1, <1>2, <1>5, <1>6 DEF TextsAreSeen, Seen
<1> QED BY <1>8, <1>9, <1>10, <1>11, <1>12 DEF IInv

\* The button, an answered message, and what the room says of a message.
LEMMA RestKeeps ==
  ASSUME IInv, MaySendAgain \/ SetReplyTo \/ \E k \in 1..MaxRoom : RoomAnswers(k)
  PROVE  IInv'
<1>1. /\ TypeOK /\ input \in Inputs /\ InputOK(input) /\ DraftFollows /\ FlagIsTold /\ EditInRoom /\ SentIsGone /\ TextsAreSeen
      /\ room \in Seq(Messages)
  BY DEF IInv, TypeOK, Messages
<1>2. /\ UNCHANGED <<page, draft, names, connected, used, sentTexts, kept, indicator>> /\ replyTo' \in BOOLEAN
  BY <1>1 DEF MaySendAgain, SetReplyTo, RoomAnswers, outside, ghosts, TypeOK
<1>3. /\ input' \in Inputs
      /\ input'.text = input.text /\ input'.saver = input.saver /\ input'.editing = input.editing /\ input'.stash = input.stash
      /\ input'.composing = input.composing /\ input'.typing = input.typing
      /\ input'.mention = input.mention /\ input'.index = input.index /\ input'.found = input.found
  <2>1. CASE MaySendAgain
    <3>1. input' = [input EXCEPT !.sending = FALSE]
      BY <2>1 DEF MaySendAgain
    <3>2. input' \in Inputs
      BY <1>1, <3>1, InputWith
    <3> QED BY <1>1, <3>1, <3>2 DEF Inputs
  <2>2. CASE ~MaySendAgain
    BY <1>1, <2>2 DEF SetReplyTo, RoomAnswers
  <2> QED BY <2>1, <2>2
<1>4. room' \in Seq(Messages) /\ Len(room') = Len(room) /\ \A j \in 1..Len(room) : room'[j].text = room[j].text
  <2>1. ASSUME NEW k \in 1..Len(room), NEW state \in {"local", "known", "deleted"}, room' = [room EXCEPT ![k].state = state]
        PROVE  room' \in Seq(Messages) /\ Len(room') = Len(room) /\ \A j \in 1..Len(room) : room'[j].text = room[j].text
    <3> DEFINE m == [room[k] EXCEPT !.state = state]
    <3>1. room[k] \in Messages
      BY <1>1, <2>1
    <3>2. m \in Messages /\ m.text = room[k].text
      BY <3>1 DEF Messages
    <3>3. room' = [room EXCEPT ![k] = m]
      BY <2>1
    <3> HIDE DEF m
    <3> QED BY <1>1, <3>2, <3>3
  <2>2. CASE \E k \in 1..MaxRoom : RoomAnswers(k)
    BY <2>1, <2>2 DEF RoomAnswers
  <2> QED BY <1>1, <2>2 DEF MaySendAgain, SetReplyTo, outside
<1>5. InputOK(input')
  BY <1>1, <1>3 DEF InputOK
<1>6. TypeOK'
  BY <1>1, <1>2, <1>3, <1>4, <1>5 DEF TypeOK, InputOK, Messages
<1>7. DraftFollows' /\ FlagIsTold' /\ EditInRoom' /\ SentIsGone'
  BY <1>1, <1>2, <1>3, <1>4 DEF DraftFollows, FlagIsTold, EditInRoom, SentIsGone, HasContent
<1>8. TextsAreSeen'
  BY <1>1, <1>2, <1>3, <1>4 DEF TextsAreSeen, Seen
<1> QED BY <1>5, <1>6, <1>7, <1>8 DEF IInv

\* An edit begins with the text of a message that is there.
LEMMA ArrowUpKeeps ==
  ASSUME IInv, ArrowUp
  PROVE  IInv'
<1> DEFINE text == room[LastOwn].text
           b == Becomes(input, text)
           c == [b EXCEPT !.editing = LastOwn]
           i == [c EXCEPT !.stash = Empty]
<1>1. /\ TypeOK /\ input \in Inputs /\ InputOK(input) /\ Shown(indicator, input.typing) /\ EditInRoom /\ SentIsGone /\ TextsAreSeen
      /\ room \in Seq(Messages) /\ Len(room) \in Nat /\ MaxRoom \in Nat /\ Len(room) <= MaxRoom
  BY ComposerAssumption DEF IInv, TypeOK, FlagIsTold, Messages, EditInRoom
<1>2. /\ page = "up" /\ input.text = Empty /\ LastOwn # None
      /\ Render([Becomes(input, text) EXCEPT !.editing = LastOwn, !.stash = input.text], names, connected)
      /\ replyTo' = FALSE /\ UNCHANGED <<page, draft, names, connected, room, used, sentTexts, kept>>
  BY DEF ArrowUp, ghosts
<1>3. LastOwn \in 1..Len(room)
  BY <1>2 DEF LastOwn
<1>4. text \in Texts /\ LastOwn \in 1..MaxRoom \cup {None} /\ Empty \in Texts /\ text \in Seen
  <2>1. room[LastOwn] \in Messages /\ text \in Seen
    BY <1>1, <1>3 DEF TextsAreSeen
  <2> QED BY <1>1, <1>3, <2>1 DEF Messages, Texts
<1>5. Render(i, names, connected)
  BY <1>2
<1> HIDE DEF text
<1>6. /\ b \in Inputs /\ b.text = text /\ b.saver = text
      /\ b.typing = input.typing /\ b.mention = input.mention /\ b.index = input.index /\ b.found = input.found
  BY <1>1, <1>4, BecomesOK
<1> HIDE DEF b
<1>7. c \in Inputs
  BY <1>4, <1>6, InputWith
<1>8. /\ c.text = text /\ c.saver = text /\ c.editing = LastOwn
      /\ c.typing = input.typing /\ c.mention = input.mention /\ c.index = input.index /\ c.found = input.found
  BY <1>6 DEF Inputs
<1> HIDE DEF c
<1>9. i \in Inputs
  BY <1>4, <1>7, InputWith
<1>10. /\ i.text = text /\ i.saver = text /\ i.editing = LastOwn /\ i.stash = Empty
       /\ i.typing = input.typing /\ i.mention = input.mention /\ i.index = input.index /\ i.found = input.found
  BY <1>7, <1>8 DEF Inputs
<1> HIDE DEF i
<1>11. Empty # None /\ text # None
  BY <1>4, ComposerAssumption
<1>12. InputOK(i)
  BY <1>1, <1>2, <1>10, <1>11 DEF InputOK
<1>13. /\ names' \in 1..MaxNames /\ connected' \in BOOLEAN /\ page' \in {"up", "fallback"} /\ draft' \in Texts /\ replyTo' \in BOOLEAN
       /\ kept' \in BOOLEAN /\ room' \in Seq(Messages) /\ Len(room') <= MaxRoom /\ used' \subseteq Tokens
       /\ Shown(indicator, i.typing) /\ RenderAfter(indicator, i, names', connected')
  BY <1>1, <1>2, <1>5, <1>10 DEF TypeOK, Render
<1>14. /\ page' = "up" /\ i.saver = None => draft' = IF HasContent(i) THEN i.text ELSE Empty
       /\ i.editing # None => i.editing \in 1..Len(room')
       /\ sentTexts' \subseteq (Tokens \cap used') \cup {At}
       /\ ~kept' /\ i.editing = None => i.text \notin sentTexts' \ {At}
       /\ ~kept' => draft' \notin sentTexts' \ {At}
  BY <1>1, <1>2, <1>3, <1>10, <1>11 DEF SentIsGone
<1>15. i.text \in Seen' /\ draft' \in Seen' /\ \A k \in 1..Len(room') : room'[k].text \in Seen'
  BY <1>1, <1>2, <1>4, <1>10 DEF TextsAreSeen, Seen
<1> QED BY <1>1, <1>9, <1>12, <1>13, <1>14, <1>15, RenderKeeps

\* The text that is sent gives way to an empty input.
LEMMA SentInputOK ==
  ASSUME NEW i \in Inputs, InputOK(i)
  PROVE  /\ SentInput(i) \in Inputs /\ InputOK(SentInput(i))
         /\ SentInput(i).text = Empty /\ SentInput(i).saver = Empty /\ SentInput(i).editing = None /\ ~SentInput(i).typing
<1> DEFINE text == IF i.editing # None THEN i.stash ELSE Empty
           b == Becomes(i, text)
           c == [b EXCEPT !.editing = None]
           d == [c EXCEPT !.stash = None]
           e == [d EXCEPT !.sending = TRUE]
           f == [e EXCEPT !.typing = FALSE]
<1>1. text = Empty /\ Empty \in Texts
  BY DEF InputOK, Texts
<1>2. /\ b \in Inputs /\ b.text = Empty /\ b.saver = Empty
      /\ b.mention = i.mention /\ b.index = i.index /\ b.found = i.found
  BY <1>1, BecomesOK
<1>3. SentInput(i) = f
  BY DEF SentInput
<1> HIDE DEF b
<1>4. c \in Inputs
  BY <1>2, InputWith
<1>5. /\ c.text = Empty /\ c.saver = Empty /\ c.editing = None
      /\ c.mention = i.mention /\ c.index = i.index /\ c.found = i.found
  BY <1>2 DEF Inputs
<1> HIDE DEF c
<1>6. d \in Inputs
  BY <1>4, InputWith
<1>7. /\ d.text = Empty /\ d.saver = Empty /\ d.editing = None /\ d.stash = None
      /\ d.mention = i.mention /\ d.index = i.index /\ d.found = i.found
  BY <1>4, <1>5 DEF Inputs
<1> HIDE DEF d
<1>8. e \in Inputs
  BY <1>6, InputWith
<1>9. /\ e.text = Empty /\ e.saver = Empty /\ e.editing = None /\ e.stash = None
      /\ e.mention = i.mention /\ e.index = i.index /\ e.found = i.found
  BY <1>6, <1>7 DEF Inputs
<1> HIDE DEF e
<1>10. f \in Inputs
  BY <1>8, InputWith
<1>11. /\ f.text = Empty /\ f.saver = Empty /\ f.editing = None /\ f.stash = None /\ ~f.typing
       /\ f.mention = i.mention /\ f.index = i.index /\ f.found = i.found
  BY <1>8, <1>9 DEF Inputs
<1>12. InputOK(f)
  BY <1>11 DEF InputOK
<1> QED BY <1>3, <1>10, <1>11, <1>12

LEMMA HandleSendKeeps ==
  ASSUME IInv, NEW enter \in BOOLEAN, HandleSend(enter)
  PROVE  IInv'
<1> DEFINE i == SentInput(input)
<1>1. /\ TypeOK /\ input \in Inputs /\ InputOK(input) /\ Shown(indicator, input.typing) /\ EditInRoom /\ SentIsGone /\ TextsAreSeen
      /\ room \in Seq(Messages) /\ Len(room) \in Nat /\ MaxRoom \in Nat /\ Len(room) <= MaxRoom
  BY ComposerAssumption DEF IInv, TypeOK, FlagIsTold, Messages, EditInRoom
<1>2. /\ page = "up" /\ HasContent(input)
      /\ IF input.editing # None
         THEN /\ UNCHANGED sentTexts
              /\ room' = IF room[input.editing].state = "known"
                         THEN [room EXCEPT ![input.editing].text = input.text] ELSE room
         ELSE /\ Len(room) < MaxRoom
              /\ sentTexts' = sentTexts \cup {input.text}
              /\ room' = Append(room, [text |-> input.text, state |-> "local"])
      /\ replyTo' = FALSE /\ draft' = Empty /\ kept' = FALSE
      /\ \E r \in IF input.typing \/ input.editing = None THEN Stopped(indicator) ELSE {indicator} :
           RenderAfter(r, i, names, connected)
      /\ UNCHANGED <<page, names, connected, used>>
  BY DEF HandleSend, CanSend, AfterSend
<1>3. i \in Inputs /\ InputOK(i) /\ i.text = Empty /\ i.saver = Empty /\ i.editing = None /\ ~i.typing
  BY <1>1, SentInputOK
<1> HIDE DEF i
<1>4. input.text \in Texts /\ input.text \notin {Empty, Blank}
  BY <1>1, <1>2 DEF Inputs, HasContent
<1>5. room' \in Seq(Messages) /\ Len(room') <= MaxRoom /\ \A j \in 1..Len(room') : room'[j].text \in Seen
  <2>1. CASE input.editing # None
    <3>1. CASE room[input.editing].state = "known"
      <4> DEFINE k == input.editing
                 m == [room[k] EXCEPT !.text = input.text]
      <4>1. k \in 1..Len(room)
        BY <1>1, <2>1 DEF EditInRoom
      <4>2. room[k] \in Messages
        BY <1>1, <4>1
      <4>3. m \in Messages /\ m.text \in Seen
        BY <1>1, <1>4, <4>2 DEF Messages, TextsAreSeen
      <4>4. room' = [room EXCEPT ![k] = m]
        BY <1>2, <2>1, <3>1
      <4> HIDE DEF m, k
      <4> QED BY <1>1, <4>1, <4>3, <4>4 DEF TextsAreSeen
    <3>2. CASE room[input.editing].state # "known"
      BY <1>1, <1>2, <2>1, <3>2 DEF TextsAreSeen
    <3> QED BY <3>1, <3>2
  <2>2. CASE input.editing = None
    <3> DEFINE m == [text |-> input.text, state |-> "local"]
    <3>1. m \in Messages /\ m.text \in Seen
      BY <1>1, <1>4 DEF Messages, TextsAreSeen
    <3>2. room' = Append(room, m) /\ Len(room) < MaxRoom
      BY <1>2, <2>2
    <3> HIDE DEF m
    <3>3. /\ room' \in Seq(Messages) /\ Len(room') = Len(room) + 1 /\ room'[Len(room) + 1] = m
          /\ \A j \in 1..Len(room) : room'[j] = room[j]
      BY <1>1, <3>1, <3>2
    <3>4. \A j \in 1..Len(room') : j \in 1..Len(room) \/ j = Len(room) + 1
      BY <1>1, <3>3
    <3> QED BY <1>1, <3>1, <3>2, <3>3, <3>4 DEF TextsAreSeen
  <2> QED BY <2>1, <2>2
<1>6. sentTexts' \subseteq (Tokens \cap used') \cup {At}
  <2>1. CASE input.editing # None
    BY <1>1, <1>2, <2>1 DEF SentIsGone
  <2>2. CASE input.editing = None
    <3>1. input.text \in (Tokens \cap used) \cup {At}
      BY <1>1, <1>4 DEF TextsAreSeen, Seen, Texts, TypeOK
    <3> QED BY <1>1, <1>2, <2>2, <3>1 DEF SentIsGone
  <2> QED BY <2>1, <2>2
<1>7. Empty \notin sentTexts' \ {At} /\ Empty # None
  BY <1>6, ComposerAssumption DEF Texts
<1>8. /\ names' \in 1..MaxNames /\ connected' \in BOOLEAN /\ page' \in {"up", "fallback"} /\ draft' \in Texts /\ replyTo' \in BOOLEAN
      /\ kept' \in BOOLEAN /\ used' \subseteq Tokens
  BY <1>1, <1>2 DEF TypeOK, Texts
<1>9. /\ page' = "up" /\ i.saver = None => draft' = IF HasContent(i) THEN i.text ELSE Empty
      /\ i.editing # None => i.editing \in 1..Len(room')
      /\ ~kept' /\ i.editing = None => i.text \notin sentTexts' \ {At}
      /\ ~kept' => draft' \notin sentTexts' \ {At}
  BY <1>2, <1>3, <1>7
<1>10. i.text \in Seen' /\ draft' \in Seen' /\ \A k \in 1..Len(room') : room'[k].text \in Seen'
  BY <1>2, <1>3, <1>5 DEF Seen
<1>11. PICK r : Shown(r, FALSE) /\ RenderAfter(r, i, names', connected')
  <2>1. input.typing \in BOOLEAN /\ indicator \in Indicators
    BY <1>1 DEF Inputs, TypeOK
  <2>2. PICK r \in IF input.typing \/ input.editing = None THEN Stopped(indicator) ELSE {indicator} :
          RenderAfter(r, i, names, connected)
    BY <1>2
  <2>3. Shown(r, FALSE)
    <3>1. CASE input.typing \/ input.editing = None
      <4>1. r \in Stopped(indicator)
        BY <2>2, <3>1
      <4> QED BY <2>1, <4>1, ToldOK
    <3>2. CASE ~(input.typing \/ input.editing = None)
      <4>1. r = indicator /\ input.typing = FALSE
        BY <2>1, <2>2, <3>2
      <4> QED BY <1>1, <4>1
    <3> QED BY <3>1, <3>2
  <2>4. names' = names /\ connected' = connected
    BY <1>2
  <2> QED BY <2>2, <2>3, <2>4
<1>12. Shown(r, i.typing)
  <2>1. i.typing = FALSE
    BY <1>3 DEF Inputs
  <2> QED BY <1>11, <2>1
<1> QED BY <1>1, <1>3, <1>5, <1>6, <1>8, <1>9, <1>10, <1>11, <1>12, RenderKeeps

\* Time passes: the server lets a start pass again, the indicator goes.
LEMMA TimeKeeps ==
  ASSUME IInv, CoolDown \/ Expire
  PROVE  IInv'
<1>1. /\ TypeOK /\ InputOK(input) /\ DraftFollows /\ FlagIsTold /\ EditInRoom /\ SentIsGone /\ TextsAreSeen
      /\ indicator \in Indicators /\ input.typing \in BOOLEAN
  BY DEF IInv, TypeOK, Inputs
<1>2. UNCHANGED <<page, input, draft, names, connected, replyTo, room, used, sentTexts, kept>>
  BY DEF CoolDown, Expire, outside, ghosts
<1>3. Shown(indicator', input.typing)
  <2>1. CASE CoolDown
    BY <1>1, <2>1 DEF CoolDown, FlagIsTold, Shown, Indicators
  <2>2. CASE Expire
    BY <1>1, <2>2 DEF Expire, Shown, Indicators
  <2> QED BY <2>1, <2>2
<1>4. TypeOK' /\ InputOK(input')
  <2>1. indicator' \in Indicators
    BY <1>3 DEF Shown
  <2> QED BY <1>1, <1>2, <2>1 DEF TypeOK, InputOK
<1>5. FlagIsTold'
  BY <1>1, <1>2, <1>3 DEF FlagIsTold, HasContent
<1>6. DraftFollows' /\ EditInRoom' /\ SentIsGone' /\ TextsAreSeen'
  BY <1>1, <1>2 DEF DraftFollows, EditInRoom, SentIsGone, TextsAreSeen, Seen, HasContent
<1> QED BY <1>4, <1>5, <1>6 DEF IInv

LEMMA Starts == Init => IInv
<1> SUFFICES ASSUME Init PROVE IInv
  OBVIOUS
<1>1. Empty \in Texts /\ 1 \in 1..MaxNames /\ Len(<<>>) = 0 /\ MaxRoom \in Nat
  BY ComposerAssumption DEF Texts
<1>2. /\ input \in Inputs /\ InputOK(input) /\ input.text = Empty /\ input.saver = Empty /\ input.editing = None
      /\ ~input.typing /\ ~input.composing
  BY <1>1, MountedOK DEF Init
<1>3. /\ page = "up" /\ draft = Empty /\ names = 1 /\ connected = FALSE /\ replyTo = FALSE /\ room = <<>>
      /\ used = {} /\ sentTexts = {} /\ indicator = [told |-> FALSE, recent |-> FALSE, missed |-> FALSE] /\ kept = FALSE
  BY DEF Init
<1>4. TypeOK
  <2>1. room \in Seq([text : Texts, state : {"local", "known", "deleted"}])
    BY <1>3
  <2>2. indicator \in Indicators
    BY <1>3 DEF Indicators
  <2> QED BY <1>1, <1>2, <1>3, <2>1, <2>2 DEF TypeOK, InputOK
<1>5. DraftFollows /\ EditInRoom /\ SentIsGone
  <2>1. Len(room) <= MaxRoom
    BY <1>1, <1>3
  <2> QED BY <1>1, <1>2, <1>3, <2>1, ComposerAssumption DEF DraftFollows, EditInRoom, SentIsGone, Texts
<1>6. FlagIsTold
  <2>1. input.typing = FALSE /\ ~HasContent(input)
    BY <1>2 DEF HasContent, Inputs
  <2>2. Shown(indicator, FALSE)
    BY <1>3 DEF Shown, Indicators
  <2> QED BY <2>1, <2>2 DEF FlagIsTold
<1>7. TextsAreSeen
  BY <1>1, <1>2, <1>3 DEF TextsAreSeen, Seen
<1> QED BY <1>2, <1>4, <1>5, <1>6, <1>7 DEF IInv

LEMMA Inductive ==
  ASSUME IInv, [Next]_vars
  PROVE  IInv'
<1>1. CASE Next
  BY <1>1, TypeKeeps, InsertKeeps, AsideKeeps, EscapeKeeps, AroundKeeps, MountKeeps, SaveDraftKeeps, RestKeeps,
     ArrowUpKeeps, HandleSendKeeps, TimeKeeps DEF Next
<1>2. CASE UNCHANGED vars
  <2>1. UNCHANGED <<page, input, draft, names, connected, replyTo, room, used, sentTexts, kept, indicator>>
    BY <1>2 DEF vars, outside, ghosts
  <2>2. TypeOK' /\ InputOK(input')
    BY <2>1 DEF IInv, TypeOK, InputOK
  <2>3. DraftFollows' /\ FlagIsTold' /\ EditInRoom' /\ SentIsGone' /\ TextsAreSeen'
    BY <2>1 DEF IInv, DraftFollows, FlagIsTold, Shown, EditInRoom, SentIsGone, TextsAreSeen, Seen, HasContent
  <2> QED BY <2>2, <2>3 DEF IInv
<1> QED BY <1>1, <1>2

LEMMA AlwaysIInv == Spec => []IInv
BY Starts, Inductive, PTL DEF Spec

-----------------------------------------------------------------------------
(* What the input shows, keeps and sends                                   *)

\* A draft at rest is the text of the input, a highlighted name is in the list, and what is
\* stashed is there exactly while a message is edited.
THEOREM InputHolds == Spec => []InputInv
<1>1. IInv => InputInv
  BY DEF IInv, InputInv, InputOK, HighlightInList
<1> QED BY <1>1, AlwaysIInv, PTL

\* The page takes it that it types exactly while there is a text and a connection, and the
\* room sees the same whatever drops, sends, edits and cancels come between, unless the
\* last start or stop was lost, came within three seconds of a start, was due when the
\* connection ended, or is ten seconds old.
THEOREM TypingIsHonest == Spec => []TypingHonest
<1>1. IInv => TypingHonest
  BY DEF IInv, TypeOK, Inputs, FlagIsTold, Shown, Indicators, TypingHonest
<1> QED BY <1>1, AlwaysIInv, PTL

\* A message is added by a send alone, of a text that was not sent before.
LEMMA SendsOnce ==
  ASSUME IInv, [Next]_vars, Len(room') > Len(room)
  PROVE  kept \/ room'[Len(room')].text \notin sentTexts \ {At}
<1>1. room \in Seq(Messages) /\ Len(room) \in Nat /\ SentIsGone
  BY DEF IInv, TypeOK, Messages
<1>2. PICK enter \in BOOLEAN : HandleSend(enter)
  <2>1. ~(UNCHANGED room)
    BY <1>1
  <2>2. ASSUME Reload
        PROVE  FALSE
    BY <1>1, <2>2 DEF Reload
  <2>3. ASSUME NEW k \in 1..MaxRoom, RoomAnswers(k)
        PROVE  FALSE
    <3>1. k \in 1..Len(room) /\ \E m : room' = [room EXCEPT ![k] = m]
      BY <2>3 DEF RoomAnswers
    <3>2. Len(room') = Len(room)
      BY <1>1, <3>1
    <3> QED BY <1>1, <3>2
  <2>4. CASE UNCHANGED vars
    BY <2>1, <2>4 DEF vars, outside
  <2>5. ASSUME \/ \E t \in Texts : Type(t)
               \/ \E t \in Tokens : InsertEmoji(t) \/ InsertAssistant(t) \/ InsertMention(t)
               \/ Compose \/ MoveHighlight \/ CancelEdit \/ TogglePicker
        PROVE  FALSE
    BY <2>1, <2>5 DEF Type, InsertEmoji, InsertAssistant, InsertMention, Compose, MoveHighlight, CancelEdit, TogglePicker,
       Shows, outside
  <2>6. ASSUME NamesChange \/ SaveDraft \/ MaySendAgain \/ ArrowUp \/ Escape \/ SetReplyTo \/ CustomTab \/ Connect \/ Drop
               \/ CoolDown \/ Expire
        PROVE  FALSE
    BY <2>1, <2>6 DEF NamesChange, SaveDraft, MaySendAgain, ArrowUp, Escape, SetReplyTo, CustomTab, Connect, Drop, CoolDown, Expire, outside
  <2> QED BY <2>2, <2>3, <2>4, <2>5, <2>6 DEF Next
<1>3. /\ input.editing = None
      /\ room' = Append(room, [text |-> input.text, state |-> "local"])
  <2>1. CASE input.editing # None
    <3>1. room' = room \/ \E m : room' = [room EXCEPT ![input.editing] = m]
      BY <1>2, <2>1 DEF HandleSend
    <3>2. Len(room') = Len(room)
      BY <1>1, <3>1
    <3> QED BY <1>1, <3>2
  <2>2. CASE input.editing = None
    BY <1>2, <2>2 DEF HandleSend
  <2> QED BY <2>1, <2>2
<1>4. room'[Len(room')].text = input.text
  <2> DEFINE m == [text |-> input.text, state |-> "local"]
  <2>1. room' = Append(room, m) /\ m.text = input.text
    BY <1>3
  <2> HIDE DEF m
  <2>2. room'[Len(room')] = m
    BY <1>1, <2>1
  <2> QED BY <2>1, <2>2
<1> QED BY <1>1, <1>3, <1>4 DEF SentIsGone

\* No text is sent as two messages, neither by two clicks nor after a reload between the send
\* and the removal of the draft, unless the page was left with an edit in the input.
THEOREM NothingIsSentTwice == Spec => SentOnce
<1>1. ASSUME IInv, [Next]_vars
      PROVE  [Len(room') > Len(room) => kept \/ room'[Len(room')].text \notin sentTexts \ {At}]_vars
  BY <1>1, SendsOnce
<1> QED BY <1>1, AlwaysIInv, PTL DEF Spec, SentOnce
=============================================================================
