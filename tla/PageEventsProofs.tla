----------------------------- MODULE PageEventsProofs -----------------------------
(***************************************************************************)
(* Proofs about PageEvents, for any answers, users, options, messages and  *)
(* bounds, and with all of its parts in use at once.                       *)
(***************************************************************************)
EXTENDS PageEvents, FiniteSetTheorems, TLAPS

\* As long as answers have not overlapped, and none was cut, one runs at most, and the
\* accumulator holds text of it.
OneRuns ==
  ~mixed =>
    /\ \A a, b \in Answers : answers[a].at = "runs" /\ answers[b].at = "runs" => a = b
    /\ acc # <<>> => \E a \in Answers : /\ answers[a].at = "runs" /\ Len(acc) <= answers[a].chunks
                                        /\ \A i \in 1..Len(acc) : acc[i] = a

StreamsIInv == StreamsInv /\ TextOfOne /\ OneRuns

-----------------------------------------------------------------------------
\* What was read of the poll is a part of it.
Earlier(p, q) ==
  /\ p.author = q.author /\ p.multiple = q.multiple /\ (p.closed => q.closed)
  /\ \A i \in Options : p.voters[i] \subseteq q.voters[i] /\ p.votes[i] <= q.votes[i]

\* The options this user has voted for, and those asked for.
Wanted == VotesOf(poll, Me) \cup {i \in Options \ {Close} : Contains(asks, i)}

\* Before there is a poll nothing is done about it.
NotYet ==
  poll = None => /\ shown = None /\ asks = <<>> /\ card = NoCard
                 /\ \A c \in Clients : handlers[c] = [at |-> "idle", seen |-> None]

\* What is read of the poll, or shown, is a part of it.
AllEarlier ==
  /\ \A c \in Clients : handlers[c].at = "read" => handlers[c].seen # None
  /\ \A c \in Clients : handlers[c].seen # None => Earlier(handlers[c].seen, poll)
  /\ shown # None => Earlier(shown, poll)

\* Of a single choice one option is selected.
Selections ==
  /\ IsFiniteSet(card.selected)
  /\ card.selected # {} => shown # None /\ (shown.multiple \/ \E i \in Options : card.selected = {i})

\* Each mount has its vote: the options that are voted or asked for, and the one this
\* screen may still send.
Allowed == IF card.there /\ space = "public" /\ ~card.hasVoted THEN card.mounts - 1 ELSE card.mounts

MountsCounted ==
  poll # None /\ ~poll.multiple => IsFiniteSet(Wanted) /\ Cardinality(Wanted) <= Allowed

PollsIInv == PollsTypeOK /\ VotesAreVoters /\ NotYet /\ AllEarlier /\ Selections /\ MountsCounted

-----------------------------------------------------------------------------
\* The last answer on its way is what the server has, unless a change was not told.
LastEcho ==
  /\ pref = None => mute.row = None /\ echoes = <<>>
  /\ ~stale => IF echoes = <<>> THEN mute.row = pref ELSE echoes[Len(echoes)] = pref

MuteForms ==
  /\ mute.listed => mute.row # None /\ mute.row.until = 1
  /\ ~passed /\ mute.row # None /\ mute.row.until = 1 => mute.listed

NoticesIInv == NoticesTypeOK /\ LastEcho /\ MuteForms /\ TitleTrue

-----------------------------------------------------------------------------
Statuses == [known : SUBSET Others, online : SUBSET Others]

\* While it is calm, the rosters of joins that are on their way are right.
CalmRosters == calm => roster = In /\ NoneOlder(In)

PeopleTypes ==
  /\ making \in [Others -> [next : {"nothing", "user_joined", "user_status"}, seen : Statuses \cup {None}]]
  /\ channel \in Seq([kind : {"nothing", "user_joined", "user_status"}, seen : Statuses])
  /\ before \in Statuses

PeopleIInv == PeopleTypeOK /\ PeopleTypes /\ CalmRosters

-----------------------------------------------------------------------------
Holding(kind) == {f \in Fans : hands[f] # None /\ hands[f].kind = kind}

\* Unless its last change was overtaken or lost, one connection at most has reactions to
\* tell, and they are the latest; when none has, the last ones in the channel are, and
\* when there are none, those that are shown.
ReactionsTold ==
  "reactions" \notin unsure =>
    /\ \A f \in Holding("reactions") : hands[f].seen = reacted /\ \A g \in Holding("reactions") : f = g
    /\ Holding("reactions") = {} =>
         IF wire = <<>> THEN reacted # {} => ShownReactions = reacted ELSE wire[Len(wire)] = reacted

PinsTold ==
  "pin" \notin unsure =>
    /\ \A f \in Holding("pin") : hands[f].seen = pinned /\ \A g \in Holding("pin") : f = g
    /\ Holding("pin") = {} => (worn.pins > 0 => pinned)

\* A pin that is shown, and one that is to be told, are changes.
PinsCounted == IsFiniteSet(Holding("pin")) /\ worn.pins + Cardinality(Holding("pin")) <= changes

PreviewStops ==
  /\ space = "bot" => preview = None
  /\ preview # None /\ preview.isTooOld => preview.pending = "nothing"

Bodies == [url : Urls \cup {None}, edits : 0..MaxEdits]
Previews == [url : Urls, isTooOld : BOOLEAN, status : {"loading", "error", "empty", "success"},
             pending : {"nothing", "timer", "answer"}]

PreviewIInv ==
  /\ body \in Bodies /\ old \in BOOLEAN /\ preview \in {None} \cup Previews
  /\ PreviewEnds /\ PreviewStops

ToldTypes ==
  /\ reacted \subseteq Fans /\ pinned \in BOOLEAN /\ changes \in 0..MaxChanges
  /\ hands \in [Fans -> {None} \cup Frames] /\ wire \in Seq(SUBSET Fans) /\ Len(wire) <= Room
  /\ worn \in [map : {None} \cup SUBSET Fans, carried : SUBSET Fans, pins : Nat]
  /\ unsure \subseteq {"reactions", "pin"}

ToldIInv == ToldTypes /\ ReactionsTold /\ PinsTold /\ PinsCounted

MarksIInv == PreviewIInv /\ ToldIInv

\* The parts share the space, and lost frames.
IInv == StreamsIInv /\ PollsIInv /\ NoticesIInv /\ PeopleIInv /\ MarksIInv /\ space \in {"public", "bot"}
-----------------------------------------------------------------------------
(* Streamed answers and typing                                             *)

\* A chunk goes to the end of the text.
LEMMA OneMore ==
  ASSUME NEW S, NEW s \in Seq(S), NEW a \in S
  PROVE  /\ s \o <<a>> \in Seq(S) /\ Len(s \o <<a>>) = Len(s) + 1 /\ s \o <<a>> # <<>>
         /\ \A i \in 1..Len(s) : (s \o <<a>>)[i] = s[i]
         /\ (s \o <<a>>)[Len(s) + 1] = a
OBVIOUS

\* One sequence after another.
LEMMA BothAppended ==
  ASSUME NEW S, NEW s \in Seq(S), NEW t \in Seq(S)
  PROVE  /\ s \o t \in Seq(S) /\ Len(s \o t) = Len(s) + Len(t) /\ Len(s) \in Nat /\ Len(t) \in Nat
         /\ \A i \in 1..Len(s \o t) : (s \o t)[i] = IF i <= Len(s) THEN s[i] ELSE t[i - Len(s)]
OBVIOUS

\* What stream does to the two lists: the other one is left alone; the last chunk ends the
\* card and the accumulator; another one shows what is accumulated, or leaves the card or
\* what has become of it.
LEMMA StreamedLists ==
  ASSUME StreamsTypeOK, NEW l \in Lists, NEW text \in Seq(Answers), NEW done \in BOOLEAN, NEW flush \in BOOLEAN,
         Streamed(l, text, done, flush)
  PROVE  /\ acc' \in Seq(Answers) /\ cards' \in [Lists -> Seq(Answers)]
         /\ \A k \in Lists : k # l => cards'[k] = cards[k]
         /\ done => acc' = <<>> /\ cards'[l] = <<>>
         /\ ~done => acc' = acc \o text /\ cards'[l] \in {cards[l], <<>>, acc'}
<1> DEFINE start == IF acc = <<>> THEN [cards EXCEPT ![l] = <<>>] ELSE cards
<1>1. acc \in Seq(Answers) /\ cards \in [Lists -> Seq(Answers)] /\ acc \o text \in Seq(Answers) /\ <<>> \in Seq(Answers)
  BY DEF StreamsTypeOK
<1>2. /\ start \in [Lists -> Seq(Answers)] /\ start[l] \in {cards[l], <<>>}
      /\ \A k \in Lists : k # l => start[k] = cards[k]
  BY <1>1
<1>3. CASE done
  <2>1. acc' = <<>> /\ cards' = [start EXCEPT ![l] = <<>>]
    BY <1>3 DEF Streamed
  <2> QED BY <1>1, <1>2, <1>3, <2>1
<1>4. CASE ~done
  <2>1. acc' = acc \o text /\ (cards' = [start EXCEPT ![l] = acc \o text] \/ cards' = start)
    BY <1>4 DEF Streamed
  <2> QED BY <1>1, <1>2, <1>4, <2>1
<1> QED BY <1>3, <1>4

LEMMA ListOfType == \A a \in Answers : ListOf(a) \in Lists
BY DEF ListOf, Lists

\* Initially there is no answer.
LEMMA StreamsStart == StreamsInit => StreamsIInv
<1> SUFFICES ASSUME StreamsInit PROVE StreamsIInv
  OBVIOUS
<1>1. StreamsTypeOK
  <2>1. 0 \in 0..MaxChunks /\ <<>> \in Seq(Answers)
    BY StreamsAssumption
  <2> QED BY <2>1 DEF StreamsInit, StreamsTypeOK
<1>2. CardsEnd /\ TypingTimed /\ TextOfOne /\ OneRuns
  BY DEF StreamsInit, CardsEnd, TypingTimed, TextOfOne, OneRuns
<1> QED BY <1>1, <1>2 DEF StreamsIInv, StreamsInv

\* A chunk that reaches the page is text of the answer that runs.
LEMMA ChunkKeeps ==
  ASSUME StreamsIInv, NEW a \in Answers, Chunk(a)
  PROVE  StreamsIInv'
<1>1. /\ StreamsTypeOK /\ CardsEnd /\ TypingTimed /\ TextOfOne /\ OneRuns /\ ListOf(a) \in Lists
      /\ MaxChunks \in Nat
  BY ListOfType, StreamsAssumption DEF StreamsIInv, StreamsInv
<1>2. /\ answers[a].at = "runs" /\ answers[a].chunks < MaxChunks /\ UNCHANGED <<typing, timers>>
      /\ answers' = [answers EXCEPT ![a].chunks = @ + 1]
  BY DEF Chunk
<1>3. /\ answers' \in [Answers -> [at : {"no", "runs", "done", "told", "over"}, chunks : 0..MaxChunks]]
      /\ \A b \in Answers : answers'[b].at = answers[b].at /\ answers'[b].chunks >= answers[b].chunks
      /\ answers'[a].chunks = answers[a].chunks + 1 /\ answers[a].chunks \in Nat
  BY <1>1, <1>2 DEF StreamsTypeOK
<1>4. \A l \in Lists : Running(l)' = Running(l)
  BY <1>3 DEF Running, ListOf
<1>5. a \in Running(ListOf(a))
  BY <1>2 DEF Running
<1>6. CASE \E flush \in BOOLEAN : Streamed(ListOf(a), <<a>>, FALSE, flush) /\ UNCHANGED <<cut, mixed>>
  <2>1. PICK flush \in BOOLEAN : Streamed(ListOf(a), <<a>>, FALSE, flush)
    BY <1>6
  <2>2. <<a>> \in Seq(Answers)
    OBVIOUS
  <2>3. /\ acc' \in Seq(Answers) /\ cards' \in [Lists -> Seq(Answers)] /\ acc' = acc \o <<a>>
        /\ \A k \in Lists : k # ListOf(a) => cards'[k] = cards[k]
        /\ cards'[ListOf(a)] \in {cards[ListOf(a)], <<>>, acc'}
    BY <1>1, <2>1, <2>2, StreamedLists
  <2>4. /\ acc \in Seq(Answers) /\ Len(acc') = Len(acc) + 1 /\ acc' # <<>> /\ Len(acc) \in Nat
        /\ \A i \in 1..Len(acc) : acc'[i] = acc[i]
        /\ acc'[Len(acc) + 1] = a
    BY <1>1, <2>3, OneMore DEF StreamsTypeOK
  <2>5. StreamsTypeOK' /\ TypingTimed'
    BY <1>1, <1>2, <1>3, <1>6, <2>3 DEF StreamsTypeOK, TypingTimed
  <2>6. CardsEnd'
    BY <1>1, <1>4, <1>5, <1>6, <2>3 DEF CardsEnd
  <2>7. ASSUME ~mixed'
        PROVE  Len(acc') <= answers'[a].chunks /\ \A i \in 1..Len(acc') : acc'[i] = a
    <3>1. acc # <<>> => Len(acc) <= answers[a].chunks /\ \A i \in 1..Len(acc) : acc[i] = a
      BY <1>1, <1>2, <1>6, <2>7 DEF OneRuns
    <3>2. Len(acc) <= answers[a].chunks /\ \A i \in 1..Len(acc) : acc[i] = a
      BY <1>3, <2>4, <3>1
    <3>3. \A i \in 1..(Len(acc) + 1) : i \in 1..Len(acc) \/ i = Len(acc) + 1
      BY <2>4
    <3>4. Len(acc') <= answers'[a].chunks
      BY <1>3, <2>4, <3>2
    <3>5. \A i \in 1..Len(acc') : acc'[i] = a
      BY <2>4, <3>2, <3>3
    <3> QED BY <3>4, <3>5
  <2>8. OneRuns'
    BY <1>1, <1>2, <1>3, <1>6, <2>7 DEF OneRuns
  <2>9. TextOfOne'
    <3> SUFFICES ASSUME ~mixed', NEW l \in Lists, cards'[l] # <<>>
                 PROVE  \E b \in Running(l)' : ToSet(cards'[l]) = {b} /\ Len(cards'[l]) <= answers'[b].chunks
      BY DEF TextOfOne
    <3>1. CASE cards'[l] = cards[l]
      <4>1. PICK b \in Running(l) : ToSet(cards[l]) = {b} /\ Len(cards[l]) <= answers[b].chunks
        BY <1>1, <1>6, <3>1 DEF TextOfOne
      <4>2. b \in Answers /\ Len(cards[l]) \in Nat /\ answers[b].chunks \in Nat /\ answers'[b].chunks \in Nat
        BY <1>1, <1>3 DEF Running, StreamsTypeOK
      <4> QED BY <1>3, <1>4, <3>1, <4>1, <4>2
    <3>2. CASE l = ListOf(a) /\ cards'[l] = acc'
      <4>1. DOMAIN acc' = 1..Len(acc') /\ 1 \in 1..Len(acc')
        BY <2>3, <2>4
      <4>2. ToSet(acc') = {a}
        BY <2>7, <4>1 DEF ToSet
      <4> QED BY <1>4, <1>5, <2>7, <3>2, <4>2
    <3> QED BY <2>3, <3>1, <3>2
  <2> QED BY <2>5, <2>6, <2>8, <2>9 DEF StreamsIInv, StreamsInv
<1>7. CASE cut' = cut \cup {ListOf(a)} /\ mixed' = TRUE /\ UNCHANGED <<acc, cards>>
  <2>1. StreamsTypeOK' /\ TypingTimed'
    BY <1>1, <1>2, <1>3, <1>7 DEF StreamsTypeOK, TypingTimed
  <2>2. CardsEnd'
    BY <1>1, <1>4, <1>7 DEF CardsEnd
  <2> QED BY <1>7, <2>1, <2>2 DEF StreamsIInv, StreamsInv, TextOfOne, OneRuns
<1> QED BY <1>6, <1>7 DEF Chunk

\* A step that leaves the cards and the answers that run only has to keep the types, and
\* to show nobody as typing without a timer.
LEMMA StreamsAside ==
  ASSUME StreamsIInv, StreamsTypeOK', TypingTimed', UNCHANGED <<cards, cut, mixed>>, acc' = acc \/ acc' = <<>>,
         \A a \in Answers : (answers'[a].at = "runs" <=> answers[a].at = "runs") /\ answers'[a].chunks = answers[a].chunks
  PROVE  StreamsIInv'
<1>1. \A l \in Lists : Running(l)' = Running(l)
  BY DEF Running, ListOf
<1>2. CardsEnd'
  BY <1>1 DEF CardsEnd, StreamsIInv, StreamsInv
<1>3. TextOfOne'
  <2> SUFFICES ASSUME ~mixed, NEW l \in Lists, cards[l] # <<>>
               PROVE  \E a \in Running(l) : ToSet(cards[l]) = {a} /\ Len(cards[l]) <= answers'[a].chunks
    BY <1>1 DEF TextOfOne
  <2>1. PICK a \in Running(l) : ToSet(cards[l]) = {a} /\ Len(cards[l]) <= answers[a].chunks
    BY DEF StreamsIInv, TextOfOne
  <2> QED BY <2>1 DEF Running
<1>4. OneRuns'
  BY DEF OneRuns, StreamsIInv
<1> QED BY <1>2, <1>3, <1>4 DEF StreamsIInv, StreamsInv

\* An answer starts where none runs, or it overlaps.
LEMMA AskKeeps ==
  ASSUME StreamsIInv, NEW a \in Answers, Ask(a)
  PROVE  StreamsIInv'
<1>1. StreamsTypeOK /\ CardsEnd /\ TypingTimed /\ TextOfOne /\ OneRuns /\ Bot \in Typists
  BY StreamsAssumption DEF StreamsIInv, StreamsInv
<1>2. /\ answers[a].at = "no" /\ answers' = [answers EXCEPT ![a].at = "runs"] /\ UNCHANGED <<acc, cards, cut>>
      /\ mixed' = (mixed \/ \E b \in Answers : answers[b].at = "runs")
      /\ \/ typing' = typing \cup {Bot} /\ timers' = timers \cup {Bot}
         \/ UNCHANGED <<typing, timers>>
  BY DEF Ask, Types
<1>3. /\ answers' \in [Answers -> [at : {"no", "runs", "done", "told", "over"}, chunks : 0..MaxChunks]]
      /\ answers'[a].at = "runs" /\ \A b \in Answers : b # a => answers'[b] = answers[b]
  BY <1>1, <1>2 DEF StreamsTypeOK
<1>4. StreamsTypeOK' /\ TypingTimed'
  BY <1>1, <1>2, <1>3 DEF StreamsTypeOK, TypingTimed
<1>5. \A l \in Lists : Running(l) \subseteq Running(l)'
  BY <1>2, <1>3 DEF Running, ListOf
<1>6. CardsEnd'
  BY <1>1, <1>2, <1>5 DEF CardsEnd
<1>7. ASSUME ~mixed'
      PROVE  ~mixed /\ acc = <<>> /\ \A b \in Answers : answers[b].at # "runs"
  BY <1>1, <1>2, <1>7 DEF OneRuns, StreamsTypeOK
<1>8. TextOfOne'
  BY <1>1, <1>2, <1>7 DEF TextOfOne, Running
<1>9. OneRuns'
  BY <1>2, <1>3, <1>7 DEF OneRuns
<1> QED BY <1>4, <1>6, <1>8, <1>9 DEF StreamsIInv, StreamsInv

\* An answer that ends takes its card along, or leaves it to be cut.
LEMMA DoneKeeps ==
  ASSUME StreamsIInv, NEW a \in Answers, Done(a)
  PROVE  StreamsIInv'
<1>1. StreamsTypeOK /\ CardsEnd /\ TypingTimed /\ TextOfOne /\ OneRuns /\ ListOf(a) \in Lists
  BY ListOfType DEF StreamsIInv, StreamsInv
<1>2. answers[a].at = "runs" /\ answers' = [answers EXCEPT ![a].at = "done"] /\ timers' = timers
  BY DEF Done
<1>3. /\ answers' \in [Answers -> [at : {"no", "runs", "done", "told", "over"}, chunks : 0..MaxChunks]]
      /\ answers'[a].at = "done" /\ \A b \in Answers : b # a => answers'[b] = answers[b]
  BY <1>1, <1>2 DEF StreamsTypeOK
<1>4. \A l \in Lists : l # ListOf(a) => Running(l)' = Running(l)
  BY <1>2, <1>3 DEF Running, ListOf
<1>5. CASE /\ typing' = typing \ {Bot} /\ cut' = cut \ {ListOf(a)} /\ mixed' = mixed
           /\ \E flush \in BOOLEAN : Streamed(ListOf(a), <<>>, TRUE, flush)
  <2>1. PICK flush \in BOOLEAN : Streamed(ListOf(a), <<>>, TRUE, flush)
    BY <1>5
  <2>2. <<>> \in Seq(Answers)
    OBVIOUS
  <2>3. /\ acc' = <<>> /\ cards' \in [Lists -> Seq(Answers)] /\ cards'[ListOf(a)] = <<>>
        /\ \A k \in Lists : k # ListOf(a) => cards'[k] = cards[k]
    BY <1>1, <2>1, <2>2, StreamedLists
  <2>4. StreamsTypeOK' /\ TypingTimed'
    BY <1>1, <1>2, <1>3, <1>5, <2>2, <2>3 DEF StreamsTypeOK, TypingTimed
  <2>5. CardsEnd'
    BY <1>1, <1>4, <1>5, <2>3 DEF CardsEnd
  <2>6. TextOfOne'
    <3> SUFFICES ASSUME ~mixed, NEW l \in Lists, cards'[l] # <<>>
                 PROVE  \E b \in Running(l)' : ToSet(cards'[l]) = {b} /\ Len(cards'[l]) <= answers'[b].chunks
      BY <1>5 DEF TextOfOne
    <3>1. l # ListOf(a) /\ cards'[l] = cards[l]
      BY <2>3
    <3>2. PICK b \in Running(l) : ToSet(cards[l]) = {b} /\ Len(cards[l]) <= answers[b].chunks
      BY <1>1, <3>1 DEF TextOfOne
    <3>3. b \in Answers /\ b # a /\ b \in Running(l)'
      BY <1>4, <3>1, <3>2 DEF Running
    <3> QED BY <1>3, <3>1, <3>2, <3>3
  <2>7. OneRuns'
    BY <1>1, <1>3, <1>5, <2>3 DEF OneRuns
  <2> QED BY <2>4, <2>5, <2>6, <2>7 DEF StreamsIInv, StreamsInv
<1>6. CASE cut' = cut \cup {ListOf(a)} /\ mixed' = TRUE /\ UNCHANGED <<acc, cards, typing>>
  <2>1. StreamsTypeOK' /\ TypingTimed'
    BY <1>1, <1>2, <1>3, <1>6 DEF StreamsTypeOK, TypingTimed
  <2>2. CardsEnd'
    BY <1>1, <1>4, <1>6 DEF CardsEnd
  <2> QED BY <1>6, <2>1, <2>2 DEF StreamsIInv, StreamsInv, TextOfOne, OneRuns
<1> QED BY <1>5, <1>6 DEF Done

\* An answer that ends without a word leaves its card to be cut.
LEMMA EndsSilentlyKeeps ==
  ASSUME StreamsIInv, NEW a \in Answers, EndsSilently(a)
  PROVE  StreamsIInv'
<1>1. StreamsTypeOK /\ CardsEnd /\ TypingTimed /\ ListOf(a) = "public"
  BY StreamsAssumption DEF StreamsIInv, StreamsInv, EndsSilently, ListOf
<1>2. /\ answers' = [answers EXCEPT ![a].at = "over"] /\ cut' = cut \cup {"public"} /\ mixed' = TRUE
      /\ UNCHANGED <<acc, cards, typing, timers>>
  BY DEF EndsSilently
<1>3. /\ answers' \in [Answers -> [at : {"no", "runs", "done", "told", "over"}, chunks : 0..MaxChunks]]
      /\ \A b \in Answers : b # a => answers'[b] = answers[b]
  BY <1>1, <1>2 DEF StreamsTypeOK
<1>4. \A l \in Lists : l # "public" => Running(l) \subseteq Running(l)'
  BY <1>1, <1>3 DEF Running, ListOf
<1>5. StreamsTypeOK' /\ TypingTimed'
  BY <1>1, <1>2, <1>3 DEF StreamsTypeOK, TypingTimed, Lists
<1>6. CardsEnd'
  BY <1>1, <1>2, <1>4 DEF CardsEnd
<1> QED BY <1>2, <1>5, <1>6 DEF StreamsIInv, StreamsInv, TextOfOne, OneRuns

LEMMA StreamsStep ==
  ASSUME StreamsIInv, StreamsNext
  PROVE  StreamsIInv'
<1>1. StreamsTypeOK /\ TypingTimed /\ <<>> \in Seq(Answers)
  BY DEF StreamsIInv, StreamsInv
<1>2. ASSUME NEW a \in Answers, Told(a)
      PROVE  StreamsIInv'
  <2>1. /\ answers' = [answers EXCEPT ![a].at = IF a \in PublicAnswers THEN "told" ELSE "over"]
        /\ answers[a].at = "done" /\ (typing' = typing \ {Bot} \/ typing' = typing)
        /\ UNCHANGED <<acc, cards, timers, cut, mixed>>
    BY <1>2 DEF Told
  <2>2. StreamsTypeOK' /\ TypingTimed'
    BY <1>1, <2>1 DEF StreamsTypeOK, TypingTimed
  <2> QED BY <1>1, <2>1, <2>2, StreamsAside DEF StreamsTypeOK
<1>3. ASSUME NEW a \in Answers, TypingStops(a)
      PROVE  StreamsIInv'
  <2>1. /\ answers[a].at = "told" /\ answers' = [answers EXCEPT ![a].at = "over"]
        /\ \/ typing' = typing \ {Bot} /\ timers' = timers \ {Bot}
           \/ UNCHANGED <<typing, timers>>
        /\ UNCHANGED <<acc, cards, cut, mixed>>
    BY <1>3 DEF TypingStops, Stops
  <2>2. StreamsTypeOK' /\ TypingTimed'
    BY <1>1, <2>1 DEF StreamsTypeOK, TypingTimed
  <2> QED BY <1>1, <2>1, <2>2, StreamsAside DEF StreamsTypeOK
<1>4. CASE Forget
  <2>1. acc' = <<>> /\ UNCHANGED <<answers, cards, typing, timers, cut, mixed>>
    BY <1>4 DEF Forget
  <2>2. StreamsTypeOK' /\ TypingTimed'
    BY <1>1, <2>1 DEF StreamsTypeOK, TypingTimed
  <2> QED BY <2>1, <2>2, StreamsAside
<1>5. ASSUME NEW u \in Typists, SomebodyTypes(u) \/ TypingTimesOut(u)
      PROVE  StreamsIInv'
  <2>1. UNCHANGED <<answers, acc, cards, cut, mixed>>
    BY <1>5 DEF SomebodyTypes, TypingTimesOut
  <2>2. StreamsTypeOK' /\ TypingTimed'
    BY <1>1, <1>5, <2>1 DEF StreamsTypeOK, TypingTimed, SomebodyTypes, TypingTimesOut, Types, Stops
  <2> QED BY <2>1, <2>2, StreamsAside
<1> QED BY <1>2, <1>3, <1>4, <1>5, AskKeeps, ChunkKeeps, DoneKeeps, EndsSilentlyKeeps DEF StreamsNext

LEMMA StreamsStay ==
  ASSUME StreamsIInv, UNCHANGED streamVars
  PROVE  StreamsIInv'
BY DEF streamVars, StreamsIInv, StreamsInv, StreamsTypeOK, CardsEnd, TypingTimed, TextOfOne, OneRuns, Running, ListOf

\* A log-out leaves the private card, for nothing to end, and what runs has overlapped.
LEMMA StreamsLogOut ==
  ASSUME StreamsIInv, LogOutAndIn
  PROVE  StreamsIInv'
<1>1. StreamsTypeOK /\ CardsEnd /\ TypingTimed /\ TextOfOne /\ OneRuns /\ "private" \in Lists /\ <<>> \in Seq(Answers)
  BY DEF StreamsIInv, StreamsInv, Lists
<1>2. /\ cards' = [cards EXCEPT !["public"] = <<>>] /\ typing' = {} /\ UNCHANGED <<acc, timers>>
      /\ answers' = [a \in Answers |-> IF a \in PrivateAnswers /\ answers[a].at # "no"
                                       THEN [answers[a] EXCEPT !.at = "over"] ELSE answers[a]]
      /\ cut' = cut \cup {l \in {"private"} : cards[l] # <<>>}
      /\ mixed' = (mixed \/ acc # <<>> \/ \E a \in Answers : answers[a].at = "runs")
  BY DEF LogOutAndIn
<1>3. answers' \in [Answers -> [at : {"no", "runs", "done", "told", "over"}, chunks : 0..MaxChunks]]
  BY <1>1, <1>2 DEF StreamsTypeOK
<1>4. StreamsTypeOK' /\ TypingTimed'
  BY <1>1, <1>2, <1>3 DEF StreamsTypeOK, TypingTimed, Lists
<1>5. /\ \A l \in Lists : cards'[l] # <<>> => cards'[l] = cards[l]
      /\ CardsEnd'
  BY <1>1, <1>2 DEF CardsEnd, StreamsTypeOK, Lists
<1>6. ~mixed' => ~mixed /\ acc = <<>> /\ \A a \in Answers : answers[a].at # "runs" /\ answers'[a].at # "runs"
  BY <1>1, <1>2 DEF StreamsTypeOK
<1>7. TextOfOne' /\ OneRuns'
  BY <1>1, <1>2, <1>5, <1>6 DEF TextOfOne, OneRuns, Running
<1> QED BY <1>4, <1>5, <1>7 DEF StreamsIInv, StreamsInv
-----------------------------------------------------------------------------
(* The poll                                                                *)

LEMMA EarlierIsReflexive == \A p \in AllPolls : Earlier(p, p)
BY DEF Earlier, AllPolls

LEMMA EarlierIsTransitive ==
  ASSUME NEW p \in AllPolls, NEW q \in AllPolls, NEW r \in AllPolls, Earlier(p, q), Earlier(q, r)
  PROVE  Earlier(p, r)
<1>1. \A i \in Options : p.voters[i] \subseteq r.voters[i]
  BY DEF Earlier
<1>2. ASSUME NEW i \in Options PROVE p.votes[i] <= r.votes[i]
  <2>1. p.votes[i] \in Nat /\ q.votes[i] \in Nat /\ r.votes[i] \in Nat
    BY DEF AllPolls
  <2> QED BY <2>1 DEF Earlier
<1> QED BY <1>1, <1>2 DEF Earlier

\* A vote adds its voter to one option, and a vote for each voter that was not there.
LEMMA VotedAdds ==
  ASSUME NEW p \in AllPolls, NEW i \in Options, NEW c \in Clients,
         \A j \in Options : p.votes[j] = Cardinality(p.voters[j])
  PROVE  /\ Voted(p, i, c) \in AllPolls /\ Earlier(p, Voted(p, i, c))
         /\ VotesOf(Voted(p, i, c), c) = VotesOf(p, c) \cup {i}
         /\ \A d \in Clients : d # c => VotesOf(Voted(p, i, c), d) = VotesOf(p, d)
         /\ \A j \in Options : Voted(p, i, c).votes[j] = Cardinality(Voted(p, i, c).voters[j])
<1>1. CASE c \in p.voters[i]
  <2>1. Voted(p, i, c) = p
    BY <1>1 DEF Voted
  <2> QED BY <1>1, <2>1, EarlierIsReflexive DEF VotesOf
<1>2. CASE c \notin p.voters[i]
  <2> DEFINE q == [p EXCEPT !.votes[i] = @ + 1, !.voters[i] = @ \cup {c}]
  <2>1. Voted(p, i, c) = q
    BY <1>2 DEF Voted
  <2>2. /\ q \in AllPolls /\ q.author = p.author /\ q.multiple = p.multiple /\ q.closed = p.closed
        /\ q.votes[i] = p.votes[i] + 1 /\ q.voters[i] = p.voters[i] \cup {c} /\ p.votes[i] \in Nat
        /\ \A j \in Options : j # i => q.votes[j] = p.votes[j] /\ q.voters[j] = p.voters[j]
    <3> DEFINE votes == [p.votes EXCEPT ![i] = @ + 1]
               voters == [p.voters EXCEPT ![i] = @ \cup {c}]
    <3>1. /\ p.votes \in [Options -> Nat] /\ p.voters \in [Options -> SUBSET Clients]
          /\ p.author \in Clients /\ p.multiple \in BOOLEAN /\ p.closed \in BOOLEAN
      BY DEF AllPolls
    <3>2. /\ votes \in [Options -> Nat] /\ votes[i] = p.votes[i] + 1 /\ p.votes[i] \in Nat
          /\ \A j \in Options : j # i => votes[j] = p.votes[j]
      BY <3>1
    <3>3. /\ voters \in [Options -> SUBSET Clients] /\ voters[i] = p.voters[i] \cup {c}
          /\ \A j \in Options : j # i => voters[j] = p.voters[j]
      BY <3>1
    <3>4. q = [p EXCEPT !.votes = votes, !.voters = voters]
      BY DEF AllPolls
    <3> HIDE DEF votes, voters, q
    <3> QED BY <3>1, <3>2, <3>3, <3>4 DEF AllPolls
  <2>3. Earlier(p, q)
    <3>1. \A j \in Options : p.votes[j] \in Nat
      BY DEF AllPolls
    <3> QED BY <2>2, <3>1 DEF Earlier
  <2>4. /\ VotesOf(q, c) = VotesOf(p, c) \cup {i}
        /\ \A d \in Clients : d # c => VotesOf(q, d) = VotesOf(p, d)
    BY <2>2 DEF VotesOf
  <2>5. IsFiniteSet(p.voters[i])
    <3>1. p.voters[i] \subseteq {Me, Other}
      BY DEF AllPolls, Clients
    <3>2. IsFiniteSet({Me} \cup {Other}) /\ {Me} \cup {Other} = {Me, Other}
      BY FS_Singleton, FS_AddElement
    <3> QED BY <3>1, <3>2, FS_Subset
  <2>6. Cardinality(p.voters[i] \cup {c}) = Cardinality(p.voters[i]) + 1
    BY <1>2, <2>5, FS_AddElement
  <2>7. \A j \in Options : q.votes[j] = Cardinality(q.voters[j])
    BY <2>2, <2>6
  <2> HIDE DEF q
  <2> QED BY <2>1, <2>2, <2>3, <2>4, <2>7
<1> QED BY <1>1, <1>2

LEMMA PollsStart ==
  ASSUME PollsInit, space = "public"
  PROVE  PollsIInv
<1>1. IsFiniteSet({}) /\ 0 \in 0..MaxMounts
  BY FS_EmptySet, PollsAssumption
<1>2. PollsTypeOK /\ NotYet /\ Selections
  BY <1>1 DEF PollsInit, PollsTypeOK, NotYet, Selections, NoCard
<1>3. VotesAreVoters /\ AllEarlier /\ MountsCounted
  BY DEF PollsInit, VotesAreVoters, AllEarlier, MountsCounted
<1> QED BY <1>2, <1>3 DEF PollsIInv

\* Fewer options wanted, or more mounts, keep the count.
LEMMA MountsKept ==
  ASSUME PollsIInv, PollsTypeOK', poll # None, poll'.multiple = poll.multiple, Wanted' \subseteq Wanted, Allowed <= Allowed'
  PROVE  MountsCounted'
<1> SUFFICES ASSUME ~poll.multiple
             PROVE  IsFiniteSet(Wanted') /\ Cardinality(Wanted') <= Allowed'
  BY DEF MountsCounted
<1>1. IsFiniteSet(Wanted) /\ Cardinality(Wanted) <= Allowed
  BY DEF PollsIInv, MountsCounted
<1>2. IsFiniteSet(Wanted') /\ Cardinality(Wanted') <= Cardinality(Wanted)
  BY <1>1, FS_Subset
<1>3. Cardinality(Wanted) \in Nat /\ Cardinality(Wanted') \in Nat
  BY <1>1, <1>2, FS_CardinalityType
<1>4. Allowed \in Int /\ Allowed' \in Int
  BY DEF PollsIInv, PollsTypeOK, Allowed
<1> QED BY <1>1, <1>2, <1>3, <1>4

\* A connection that changes the poll adds to it, and does not make more options wanted.
LEMMA ChangeKeeps ==
  ASSUME PollsIInv, NEW c \in Clients, NEW p \in AllPolls, Change(c, p), Earlier(poll, p),
         \A i \in Options : p.votes[i] = Cardinality(p.voters[i]),
         asks' \in Seq(Options \cup {Close}), Wanted' \subseteq Wanted, UNCHANGED <<shown, card, space>>
  PROVE  PollsIInv'
<1>1. poll # None /\ poll \in AllPolls /\ poll' = p /\ p # None
  BY PollsAssumption DEF Change, PollsIInv, PollsTypeOK
<1>2. /\ handlers' = [handlers EXCEPT ![c] = [at |-> "changed", seen |-> None]]
      /\ handlers \in [Clients -> [at : {"idle", "changed", "read"}, seen : AllPolls \cup {None}]]
  BY DEF Change, Set, PollsIInv, PollsTypeOK
<1>3. /\ handlers' \in [Clients -> [at : {"idle", "changed", "read"}, seen : AllPolls \cup {None}]]
      /\ handlers'[c] = [at |-> "changed", seen |-> None]
      /\ \A d \in Clients : d # c => handlers'[d] = handlers[d]
  BY <1>2
<1>4. PollsTypeOK'
  BY <1>1, <1>3 DEF PollsIInv, PollsTypeOK
<1>5. VotesAreVoters' /\ NotYet' /\ Selections'
  BY <1>1 DEF VotesAreVoters, NotYet, Selections, PollsIInv
<1>6. AllEarlier'
  <2>1. \A d \in Clients : handlers'[d].at = "read" => handlers'[d].seen # None
    BY <1>3 DEF PollsIInv, AllEarlier
  <2>2. ASSUME NEW d \in Clients, handlers'[d].seen # None
        PROVE  Earlier(handlers'[d].seen, p)
    <3>1. d # c /\ handlers'[d] = handlers[d]
      BY <1>3, <2>2
    <3>2. handlers[d].seen \in AllPolls
      BY <1>2, <2>2, <3>1
    <3>3. Earlier(handlers[d].seen, poll)
      BY <2>2, <3>1 DEF PollsIInv, AllEarlier
    <3> QED BY <1>1, <3>1, <3>2, <3>3, EarlierIsTransitive
  <2>3. shown # None => Earlier(shown, p)
    BY <1>1, EarlierIsTransitive DEF PollsIInv, PollsTypeOK, AllEarlier
  <2> QED BY <1>1, <2>1, <2>2, <2>3 DEF AllEarlier
<1>7. MountsCounted'
  <2>1. Allowed' = Allowed /\ Allowed \in Int
    BY DEF Allowed, PollsIInv, PollsTypeOK
  <2>2. poll'.multiple = poll.multiple
    BY <1>1 DEF Earlier
  <2> QED BY <1>1, <1>4, <2>1, <2>2, MountsKept
<1> QED BY <1>4, <1>5, <1>6, <1>7 DEF PollsIInv

\* Without the first request no more are asked for.
LEMMA AskedTail ==
  ASSUME NEW s \in Seq(Options \cup {Close}), s # <<>>
  PROVE  /\ Tail(s) \in Seq(Options \cup {Close}) /\ Head(s) \in Options \cup {Close} /\ Contains(s, Head(s))
         /\ \A i : Contains(Tail(s), i) => Contains(s, i)
<1>1. /\ Tail(s) \in Seq(Options \cup {Close}) /\ Len(Tail(s)) = Len(s) - 1 /\ Len(s) \in Nat /\ Len(s) >= 1
      /\ \A i \in 1..Len(Tail(s)) : Tail(s)[i] = s[i + 1]
      /\ Head(s) = s[1] /\ s[1] \in Options \cup {Close}
  OBVIOUS
<1>2. \A i \in 1..(Len(s) - 1) : i + 1 \in 1..Len(s)
  BY <1>1
<1> QED BY <1>1, <1>2 DEF Contains

\* A new poll is shown at once, on this screen or later.
LEMMA CreatePollKeeps ==
  ASSUME PollsIInv, NEW author \in Clients, NEW multiple \in BOOLEAN, CreatePoll(author, multiple), UNCHANGED space
  PROVE  PollsIInv'
<1>1. /\ poll = None /\ shown = None /\ asks = <<>> /\ card = NoCard /\ PollsTypeOK
      /\ \A c \in Clients : handlers[c] = [at |-> "idle", seen |-> None]
  BY DEF CreatePoll, PollsIInv, NotYet
<1>2. /\ poll' = [author |-> author, multiple |-> multiple, closed |-> FALSE,
                  votes |-> NoVotes, voters |-> [i \in Options |-> {}]]
      /\ UNCHANGED <<handlers, asks>>
      /\ \/ /\ shown' = poll'
            /\ card' = [card EXCEPT !.there = TRUE, !.mounts = IF space = "public" THEN 1 ELSE 0]
         \/ UNCHANGED <<shown, card>>
  BY DEF CreatePoll
<1>3. poll' \in AllPolls /\ poll' # None
  <2>1. NoVotes \in [Options -> Nat] /\ [i \in Options |-> {}] \in [Options -> SUBSET Clients]
    BY DEF NoVotes
  <2>2. poll' \in AllPolls
    BY <1>2, <2>1 DEF AllPolls
  <2> QED BY <2>2, PollsAssumption
<1>4. /\ IsFiniteSet({}) /\ Cardinality({}) = 0 /\ 0 \in 0..MaxMounts /\ 1 \in 0..MaxMounts
  BY FS_EmptySet, PollsAssumption
<1>5. /\ card'.selected = {} /\ ~card'.hasVoted
      /\ card' \in [there : BOOLEAN, selected : SUBSET Options, hasVoted : BOOLEAN, mounts : 0..MaxMounts]
      /\ IF card'.there /\ space = "public" THEN card'.mounts = 1 ELSE card'.mounts = 0
  <2>1. CASE card' = [card EXCEPT !.there = TRUE, !.mounts = IF space = "public" THEN 1 ELSE 0]
    <3>1. card' = [there |-> TRUE, selected |-> {}, hasVoted |-> FALSE, mounts |-> IF space = "public" THEN 1 ELSE 0]
      BY <1>1, <2>1 DEF NoCard
    <3> QED BY <1>4, <3>1
  <2>2. CASE card' = card
    <3>1. card' = [there |-> FALSE, selected |-> {}, hasVoted |-> FALSE, mounts |-> 0]
      BY <1>1, <2>2 DEF NoCard
    <3> QED BY <1>4, <3>1
  <2> QED BY <1>2, <2>1, <2>2
<1>6. PollsTypeOK' /\ Selections'
  BY <1>1, <1>2, <1>3, <1>4, <1>5 DEF PollsTypeOK, Selections
<1>7. VotesAreVoters'
  BY <1>2, <1>4 DEF VotesAreVoters, NoVotes
<1>8. NotYet' /\ AllEarlier'
  <2>1. \A c \in Clients : handlers'[c].at = "idle" /\ handlers'[c].seen = None
    BY <1>1, <1>2
  <2>2. shown' # None => shown' = poll'
    BY <1>1, <1>2
  <2>3. Earlier(poll', poll')
    BY <1>3, EarlierIsReflexive
  <2> QED BY <1>3, <2>1, <2>2, <2>3 DEF NotYet, AllEarlier
<1>9. MountsCounted'
  <2>1. Wanted' = {}
    BY <1>1, <1>2 DEF Wanted, VotesOf, Contains
  <2>2. Allowed' = 0
    BY <1>5 DEF Allowed
  <2> QED BY <1>4, <2>1, <2>2 DEF MountsCounted
<1> QED BY <1>6, <1>7, <1>8, <1>9 DEF PollsIInv

\* A vote was asked for before.
LEMMA HandleVoteKeeps ==
  ASSUME PollsIInv, HandleVote, UNCHANGED space
  PROVE  PollsIInv'
<1> DEFINE i == Head(asks)
<1>1. /\ PollsTypeOK /\ asks \in Seq(Options \cup {Close}) /\ asks # <<>> /\ i # Close /\ asks' = Tail(asks)
      /\ UNCHANGED <<shown, card>> /\ Me \in Clients
  BY DEF HandleVote, PollsIInv, PollsTypeOK, Clients
<1>2. /\ asks' \in Seq(Options \cup {Close}) /\ i \in Options /\ Contains(asks, i)
      /\ \A j : Contains(asks', j) => Contains(asks, j)
  BY <1>1, AskedTail
<1>3. poll # None
  BY <1>1 DEF PollsIInv, NotYet
<1>4. CASE Change(Me, Voted(poll, i, Me))
  <2>1. poll \in AllPolls /\ \A j \in Options : poll.votes[j] = Cardinality(poll.voters[j])
    BY <1>1, <1>3 DEF PollsTypeOK, PollsIInv, VotesAreVoters
  <2>2. /\ Voted(poll, i, Me) \in AllPolls /\ Earlier(poll, Voted(poll, i, Me))
        /\ VotesOf(Voted(poll, i, Me), Me) = VotesOf(poll, Me) \cup {i}
        /\ \A j \in Options : Voted(poll, i, Me).votes[j] = Cardinality(Voted(poll, i, Me).voters[j])
    BY <1>1, <1>2, <2>1, VotedAdds
  <2>3. poll' = Voted(poll, i, Me)
    BY <1>4 DEF Change
  <2>4. Wanted' \subseteq Wanted
    BY <1>1, <1>2, <2>2, <2>3 DEF Wanted
  <2> HIDE DEF i
  <2> QED BY <1>1, <1>2, <1>4, <2>2, <2>4, ChangeKeeps
<1>5. CASE UNCHANGED <<poll, handlers>>
  <2>1. PollsTypeOK'
    BY <1>1, <1>2, <1>5 DEF PollsTypeOK
  <2>2. Wanted' \subseteq Wanted
    BY <1>2, <1>5 DEF Wanted
  <2>3. Allowed' = Allowed /\ Allowed \in Int
    BY <1>1 DEF Allowed, PollsTypeOK
  <2>4. MountsCounted'
    BY <1>3, <1>5, <2>1, <2>2, <2>3, MountsKept
  <2>5. VotesAreVoters' /\ NotYet' /\ AllEarlier' /\ Selections'
    BY <1>1, <1>3, <1>5 DEF PollsIInv, VotesAreVoters, NotYet, AllEarlier, Selections
  <2> QED BY <2>1, <2>4, <2>5 DEF PollsIInv
<1> QED BY <1>4, <1>5 DEF HandleVote

LEMMA OtherVotesKeeps ==
  ASSUME PollsIInv, NEW i \in Options, OtherVotes(i), UNCHANGED space
  PROVE  PollsIInv'
<1>1. /\ poll # None /\ PollsTypeOK /\ UNCHANGED <<asks, shown, card>> /\ Other \in Clients /\ Me \in Clients /\ Me # Other
      /\ Change(Other, Voted(poll, i, Other)) /\ poll' = Voted(poll, i, Other)
  BY PollsAssumption DEF OtherVotes, Change, PollsIInv, Clients
<1>2. poll \in AllPolls /\ \A j \in Options : poll.votes[j] = Cardinality(poll.voters[j])
  BY <1>1 DEF PollsTypeOK, PollsIInv, VotesAreVoters
<1>3. /\ Voted(poll, i, Other) \in AllPolls /\ Earlier(poll, Voted(poll, i, Other))
      /\ VotesOf(Voted(poll, i, Other), Me) = VotesOf(poll, Me)
      /\ \A j \in Options : Voted(poll, i, Other).votes[j] = Cardinality(Voted(poll, i, Other).voters[j])
  BY <1>1, <1>2, VotedAdds
<1>4. Wanted' \subseteq Wanted /\ asks' \in Seq(Options \cup {Close})
  BY <1>1, <1>3 DEF Wanted, PollsTypeOK
<1> QED BY <1>1, <1>3, <1>4, ChangeKeeps

LEMMA HandleCloseKeeps ==
  ASSUME PollsIInv, NEW c \in Clients, HandleClose(c), UNCHANGED space
  PROVE  PollsIInv'
<1> DEFINE p == [poll EXCEPT !.closed = TRUE]
<1>1. /\ poll # None /\ PollsTypeOK /\ poll \in AllPolls /\ UNCHANGED <<shown, card>> /\ Change(c, p) /\ poll' = p
      /\ asks \in Seq(Options \cup {Close}) /\ (asks' = asks \/ (asks # <<>> /\ asks' = Tail(asks)))
  BY DEF HandleClose, Change, PollsIInv, PollsTypeOK
<1>2. /\ p \in AllPolls /\ p.author = poll.author /\ p.multiple = poll.multiple /\ p.closed
      /\ p.votes = poll.votes /\ p.voters = poll.voters
  BY <1>1 DEF AllPolls
<1>3. Earlier(poll, p)
  <2>1. Earlier(poll, poll)
    BY <1>1, EarlierIsReflexive
  <2> HIDE DEF p
  <2> QED BY <1>2, <2>1 DEF Earlier
<1>4. \A j \in Options : p.votes[j] = Cardinality(p.voters[j])
  BY <1>1, <1>2 DEF PollsIInv, VotesAreVoters
<1>5. asks' \in Seq(Options \cup {Close}) /\ \A j : Contains(asks', j) => Contains(asks, j)
  BY <1>1, AskedTail
<1>6. VotesOf(p, Me) = VotesOf(poll, Me)
  BY <1>2 DEF VotesOf
<1> HIDE DEF p
<1>7. Wanted' \subseteq Wanted
  BY <1>1, <1>5, <1>6 DEF Wanted
<1> QED BY <1>1, <1>2, <1>3, <1>4, <1>5, <1>7, ChangeKeeps

\* What is read is the poll as it is.
LEMMA ReadPollKeeps ==
  ASSUME PollsIInv, NEW c \in Clients, ReadPoll(c), UNCHANGED space
  PROVE  PollsIInv'
<1>1. /\ PollsTypeOK /\ handlers[c].at = "changed" /\ UNCHANGED <<poll, asks, shown, card>>
      /\ handlers' = [handlers EXCEPT ![c] = [at |-> "read", seen |-> poll]]
  BY DEF ReadPoll, Set, PollsIInv
<1>2. poll # None /\ poll \in AllPolls
  BY <1>1 DEF PollsIInv, NotYet, PollsTypeOK
<1>3. /\ handlers' \in [Clients -> [at : {"idle", "changed", "read"}, seen : AllPolls \cup {None}]]
      /\ handlers'[c] = [at |-> "read", seen |-> poll]
      /\ \A d \in Clients : d # c => handlers'[d] = handlers[d]
  BY <1>1, <1>2 DEF PollsTypeOK
<1>4. PollsTypeOK'
  BY <1>1, <1>3 DEF PollsTypeOK
<1>5. AllEarlier'
  BY <1>1, <1>2, <1>3, EarlierIsReflexive DEF PollsIInv, AllEarlier
<1>6. VotesAreVoters' /\ NotYet' /\ Selections' /\ MountsCounted'
  BY <1>1, <1>2 DEF PollsIInv, VotesAreVoters, NotYet, Selections, MountsCounted, Wanted, Allowed
<1> QED BY <1>4, <1>5, <1>6 DEF PollsIInv

\* What is told was read of the same poll: an option that is selected is still one of as many.
LEMMA TellPollKeeps ==
  ASSUME PollsIInv, NEW c \in Clients, TellPoll(c), UNCHANGED space
  PROVE  PollsIInv'
<1>1. /\ PollsTypeOK /\ handlers[c].at = "read" /\ UNCHANGED <<poll, asks, card>>
      /\ handlers' = [handlers EXCEPT ![c] = [at |-> "idle", seen |-> None]]
      /\ shown' = handlers[c].seen \/ shown' = shown
  BY DEF TellPoll, Set, PollsIInv
<1>2. /\ handlers[c].seen # None /\ handlers[c].seen \in AllPolls /\ Earlier(handlers[c].seen, poll)
      /\ poll # None /\ poll \in AllPolls
  BY <1>1 DEF PollsIInv, NotYet, PollsTypeOK, AllEarlier
<1>3. /\ handlers' \in [Clients -> [at : {"idle", "changed", "read"}, seen : AllPolls \cup {None}]]
      /\ handlers'[c] = [at |-> "idle", seen |-> None]
      /\ \A d \in Clients : d # c => handlers'[d] = handlers[d]
  BY <1>1 DEF PollsTypeOK
<1>4. AllEarlier'
  BY <1>1, <1>2, <1>3 DEF PollsIInv, AllEarlier
<1>5. card.selected # {} => shown' # None /\ shown'.multiple = shown.multiple
  BY <1>1, <1>2 DEF PollsIInv, Selections, AllEarlier, Earlier
<1>6. PollsTypeOK' /\ Selections'
  <2>1. card.selected # {} => shown.multiple \/ Cardinality(card.selected) = 1
    BY <1>1 DEF PollsTypeOK
  <2>2. shown' \in AllPolls \cup {None}
    BY <1>1, <1>2 DEF PollsTypeOK
  <2> QED BY <1>1, <1>3, <1>5, <2>1, <2>2 DEF PollsTypeOK, PollsIInv, Selections
<1>7. VotesAreVoters' /\ NotYet' /\ MountsCounted'
  BY <1>1, <1>2 DEF PollsIInv, VotesAreVoters, NotYet, MountsCounted, Wanted, Allowed
<1> QED BY <1>4, <1>6, <1>7 DEF PollsIInv

LEMMA ClickOptionKeeps ==
  ASSUME PollsIInv, NEW i \in Options, ClickOption(i), UNCHANGED space
  PROVE  PollsIInv'
<1>1. /\ PollsTypeOK /\ shown # None /\ UNCHANGED <<poll, handlers, asks, shown>>
      /\ card' = [card EXCEPT !.selected = Selected(card.selected, i)]
      /\ card \in [there : BOOLEAN, selected : SUBSET Options, hasVoted : BOOLEAN, mounts : 0..MaxMounts]
      /\ IsFiniteSet(card.selected)
  BY DEF ClickOption, OnScreen, PollsIInv, PollsTypeOK, Selections
<1>2. poll # None
  BY <1>1 DEF PollsIInv, NotYet
<1>3. /\ Selected(card.selected, i) \subseteq Options /\ IsFiniteSet(Selected(card.selected, i))
      /\ shown.multiple \/ (Selected(card.selected, i) = {i} /\ Cardinality(Selected(card.selected, i)) = 1)
  <2>1. IsFiniteSet({i}) /\ Cardinality({i}) = 1
    BY FS_Singleton
  <2>2. IsFiniteSet(card.selected \ {i}) /\ IsFiniteSet(card.selected \cup {i})
    BY <1>1, FS_AddElement, FS_RemoveElement
  <2> QED BY <1>1, <2>1, <2>2 DEF Selected
<1>4. /\ card' \in [there : BOOLEAN, selected : SUBSET Options, hasVoted : BOOLEAN, mounts : 0..MaxMounts]
      /\ card'.selected = Selected(card.selected, i) /\ card'.there = card.there /\ card'.hasVoted = card.hasVoted
      /\ card'.mounts = card.mounts
  BY <1>1, <1>3
<1>5. PollsTypeOK' /\ Selections'
  BY <1>1, <1>3, <1>4 DEF PollsTypeOK, Selections
<1>6. VotesAreVoters' /\ NotYet' /\ AllEarlier' /\ MountsCounted'
  BY <1>1, <1>2, <1>4 DEF PollsIInv, VotesAreVoters, NotYet, AllEarlier, MountsCounted, Wanted, Allowed
<1> QED BY <1>5, <1>6 DEF PollsIInv

\* Of a single choice one vote is sent, and this screen sends no other.
LEMMA VoteKeeps ==
  ASSUME PollsIInv, Vote, UNCHANGED space
  PROVE  PollsIInv'
<1>1. /\ PollsTypeOK /\ card.there /\ space = "public" /\ shown # None /\ ~card.hasVoted /\ card.selected # {}
      /\ UNCHANGED <<poll, handlers, shown>>
      /\ card' = [card EXCEPT !.hasVoted = TRUE, !.selected = {}]
      /\ card \in [there : BOOLEAN, selected : SUBSET Options, hasVoted : BOOLEAN, mounts : 0..MaxMounts]
      /\ IsFiniteSet(card.selected)
  BY DEF Vote, OnScreen, AfterVote, ShownAfterVote, PollsIInv, PollsTypeOK, Selections
<1>2. PICK order \in SetToSeqs(card.selected) : asks' = asks \o order
  BY DEF Vote
<1>3. /\ poll # None /\ Earlier(shown, poll) /\ (poll.multiple \/ \E i \in Options : card.selected = {i})
  BY <1>1 DEF PollsIInv, NotYet, AllEarlier, Selections, Earlier
<1>4. /\ order \in Seq(Options \cup {Close}) /\ Len(order) = Cardinality(card.selected)
      /\ order \in [1..Cardinality(card.selected) -> card.selected]
  <2>1. Cardinality(card.selected) \in Nat
    BY <1>1, FS_CardinalityType
  <2>2. order \in [1..Cardinality(card.selected) -> card.selected]
    BY <1>2 DEF SetToSeqs
  <2> QED BY <1>1, <2>1, <2>2
<1>5. /\ asks' \in Seq(Options \cup {Close})
      /\ \A j : Contains(asks', j) => Contains(asks, j) \/ j \in card.selected
  <2>1. /\ asks \in Seq(Options \cup {Close}) /\ asks' \in Seq(Options \cup {Close})
        /\ Len(asks') = Len(asks) + Len(order) /\ Len(asks) \in Nat /\ Len(order) \in Nat
        /\ \A k \in 1..Len(asks') : asks'[k] = IF k <= Len(asks) THEN asks[k] ELSE order[k - Len(asks)]
    <3>1. asks \in Seq(Options \cup {Close})
      BY <1>1 DEF PollsTypeOK
    <3> QED BY <1>2, <1>4, <3>1, BothAppended
  <2>2. ASSUME NEW k \in 1..Len(asks'), k > Len(asks)
        PROVE  asks'[k] \in card.selected
    <3>1. k - Len(asks) \in 1..Cardinality(card.selected)
      BY <1>4, <2>1, <2>2
    <3> QED BY <1>4, <2>1, <2>2, <3>1
  <2>3. \A k \in 1..Len(asks') : k <= Len(asks) => k \in 1..Len(asks) /\ asks'[k] = asks[k]
    BY <2>1
  <2> QED BY <2>1, <2>2, <2>3 DEF Contains
<1>6. /\ card' \in [there : BOOLEAN, selected : SUBSET Options, hasVoted : BOOLEAN, mounts : 0..MaxMounts]
      /\ card'.selected = {} /\ card'.there = card.there /\ card'.hasVoted /\ card'.mounts = card.mounts
      /\ IsFiniteSet({})
  BY <1>1, FS_EmptySet
<1>7. PollsTypeOK' /\ Selections'
  BY <1>1, <1>5, <1>6 DEF PollsTypeOK, Selections
<1>8. ASSUME ~poll.multiple
      PROVE  IsFiniteSet(Wanted') /\ Cardinality(Wanted') <= card.mounts
  <2>1. PICK i \in Options : card.selected = {i}
    BY <1>3, <1>8
  <2>2. IsFiniteSet(Wanted) /\ Cardinality(Wanted) <= card.mounts - 1
    BY <1>1, <1>3, <1>8 DEF PollsIInv, MountsCounted, Allowed
  <2>3. Wanted' \subseteq Wanted \cup {i}
    BY <1>1, <1>5, <2>1 DEF Wanted
  <2>4. /\ IsFiniteSet(Wanted \cup {i})
        /\ Cardinality(Wanted \cup {i}) = IF i \in Wanted THEN Cardinality(Wanted) ELSE Cardinality(Wanted) + 1
    BY <2>2, FS_AddElement
  <2>5. IsFiniteSet(Wanted') /\ Cardinality(Wanted') <= Cardinality(Wanted \cup {i})
    BY <2>3, <2>4, FS_Subset
  <2>6. /\ Cardinality(Wanted) \in Nat /\ Cardinality(Wanted') \in Nat /\ Cardinality(Wanted \cup {i}) \in Nat
        /\ card.mounts \in Nat
    BY <1>1, <2>2, <2>4, <2>5, FS_CardinalityType
  <2> QED BY <2>2, <2>4, <2>5, <2>6
<1>9. MountsCounted'
  BY <1>1, <1>6, <1>8 DEF MountsCounted, Allowed
<1>10. VotesAreVoters' /\ NotYet' /\ AllEarlier'
  BY <1>1, <1>3 DEF PollsIInv, VotesAreVoters, NotYet, AllEarlier
<1> QED BY <1>7, <1>9, <1>10 DEF PollsIInv

LEMMA ClosePollKeeps ==
  ASSUME PollsIInv, ClosePoll, UNCHANGED space
  PROVE  PollsIInv'
<1>1. /\ PollsTypeOK /\ shown # None /\ UNCHANGED <<poll, handlers, shown, card>> /\ asks' = Append(asks, Close)
      /\ asks \in Seq(Options \cup {Close})
  BY DEF ClosePoll, OnScreen, PollsIInv, PollsTypeOK
<1>2. /\ asks' \in Seq(Options \cup {Close}) /\ Len(asks') = Len(asks) + 1 /\ Len(asks) \in Nat
      /\ \A k \in 1..Len(asks) : asks'[k] = asks[k]
      /\ asks'[Len(asks) + 1] = Close
  BY <1>1
<1>3. \A j : Contains(asks', j) => Contains(asks, j) \/ j = Close
  <2>1. \A k \in 1..(Len(asks) + 1) : k \in 1..Len(asks) \/ k = Len(asks) + 1
    BY <1>2
  <2> QED BY <1>2, <2>1 DEF Contains
<1>4. Wanted' \subseteq Wanted
  BY <1>1, <1>3 DEF Wanted
<1>5. poll # None
  BY <1>1 DEF PollsIInv, NotYet
<1>6. PollsTypeOK'
  BY <1>1, <1>2 DEF PollsTypeOK
<1>7. MountsCounted'
  <2>1. Allowed' = Allowed /\ Allowed \in Int
    BY <1>1 DEF Allowed, PollsTypeOK
  <2> QED BY <1>1, <1>4, <1>5, <1>6, <2>1, MountsKept
<1>8. VotesAreVoters' /\ NotYet' /\ AllEarlier' /\ Selections'
  BY <1>1, <1>5 DEF PollsIInv, VotesAreVoters, NotYet, AllEarlier, Selections
<1> QED BY <1>6, <1>7, <1>8 DEF PollsIInv

LEMMA PollsStep ==
  ASSUME PollsIInv, PollsNext, UNCHANGED space
  PROVE  PollsIInv'
BY CreatePollKeeps, HandleVoteKeeps, OtherVotesKeeps, HandleCloseKeeps, ReadPollKeeps, TellPollKeeps,
   ClickOptionKeeps, VoteKeeps, ClosePollKeeps DEF PollsNext

LEMMA PollsStay ==
  ASSUME PollsIInv, UNCHANGED <<pollVars, space>>
  PROVE  PollsIInv'
BY DEF pollVars, PollsIInv, PollsTypeOK, VotesAreVoters, NotYet, AllEarlier, Selections, MountsCounted, Wanted, Allowed

\* A poll that comes to the screen again may be voted in again, and is a new mount.
LEMMA PollsSpace ==
  ASSUME PollsIInv, HandleSpaceSelect, space \in {"public", "bot"}
  PROVE  PollsIInv'
<1>1. /\ PollsTypeOK /\ UNCHANGED <<poll, handlers, asks, shown>>
      /\ space' = (IF space = "public" THEN "bot" ELSE "public")
      /\ card \in [there : BOOLEAN, selected : SUBSET Options, hasVoted : BOOLEAN, mounts : 0..MaxMounts]
      /\ MaxMounts \in Nat
  BY PollsAssumption DEF HandleSpaceSelect, PollsIInv, PollsTypeOK
<1>2. /\ card' \in [there : BOOLEAN, selected : SUBSET Options, hasVoted : BOOLEAN, mounts : 0..MaxMounts]
      /\ Allowed <= Allowed' /\ card'.selected \in {{}, card.selected} /\ (~card.there => card' = card)
  <2>1. CASE space = "bot" /\ card.there
    <3>1. /\ card.mounts < MaxMounts
          /\ card' = [there |-> TRUE, selected |-> {}, hasVoted |-> FALSE, mounts |-> card.mounts + 1]
      BY <2>1 DEF HandleSpaceSelect, NoCard
    <3> QED BY <1>1, <2>1, <3>1 DEF Allowed
  <2>2. CASE ~(space = "bot" /\ card.there)
    <3>1. card' = card
      BY <2>2 DEF HandleSpaceSelect
    <3> QED BY <1>1, <2>2, <3>1 DEF Allowed
  <2> QED BY <2>1, <2>2
<1>3. PollsTypeOK'
  BY <1>1, <1>2 DEF PollsTypeOK
<1>4. Selections'
  BY <1>1, <1>2, FS_EmptySet DEF PollsIInv, Selections
<1>5. NotYet'
  BY <1>1, <1>2 DEF PollsIInv, NotYet, NoCard
<1>6. MountsCounted'
  <2>1. CASE poll = None
    BY <1>1, <2>1 DEF MountsCounted
  <2>2. CASE poll # None
    <3>1. Wanted' = Wanted
      BY <1>1 DEF Wanted
    <3> QED BY <1>1, <1>2, <1>3, <2>2, <3>1, MountsKept
  <2> QED BY <2>1, <2>2
<1>7. VotesAreVoters' /\ AllEarlier'
  BY <1>1 DEF PollsIInv, VotesAreVoters, AllEarlier
<1> QED BY <1>3, <1>4, <1>5, <1>6, <1>7 DEF PollsIInv

\* A log-out forgets the poll, and this screen votes no more.
LEMMA PollsLogOut ==
  ASSUME PollsIInv, LogOutAndIn
  PROVE  PollsIInv'
<1>1. /\ PollsTypeOK /\ UNCHANGED <<poll, handlers, asks, space>> /\ shown' = None
      /\ card' = [there |-> FALSE, selected |-> {}, hasVoted |-> FALSE, mounts |-> card.mounts]
      /\ card \in [there : BOOLEAN, selected : SUBSET Options, hasVoted : BOOLEAN, mounts : 0..MaxMounts]
  BY DEF LogOutAndIn, PollsIInv, PollsTypeOK, NoCard
<1>2. PollsTypeOK' /\ Selections'
  <2>1. /\ IsFiniteSet({}) /\ card'.selected = {}
        /\ card' \in [there : BOOLEAN, selected : SUBSET Options, hasVoted : BOOLEAN, mounts : 0..MaxMounts]
    BY <1>1, FS_EmptySet
  <2>2. Selections'
    BY <2>1 DEF Selections
  <2>3. PollsTypeOK'
    BY <1>1, <2>1 DEF PollsTypeOK
  <2> QED BY <2>2, <2>3
<1>3. NotYet'
  <2>1. card = NoCard => card' = NoCard
    BY <1>1 DEF NoCard
  <2> QED BY <1>1, <2>1 DEF PollsIInv, NotYet
<1>4. MountsCounted'
  <2>1. CASE poll = None
    BY <1>1, <2>1 DEF MountsCounted
  <2>2. CASE poll # None
    <3>1. Wanted' = Wanted /\ Allowed <= Allowed'
      BY <1>1 DEF Wanted, Allowed
    <3> QED BY <1>1, <1>2, <2>2, <3>1, MountsKept
  <2> QED BY <2>1, <2>2
<1>5. VotesAreVoters' /\ AllEarlier'
  BY <1>1 DEF PollsIInv, VotesAreVoters, AllEarlier
<1> QED BY <1>2, <1>3, <1>4, <1>5 DEF PollsIInv

LEMMA PollsFollow ==
  ASSUME PollsIInv
  PROVE  PollsInv /\ OneVotePerMount
<1>1. ShownHappened
  BY DEF ShownHappened, PollsIInv, AllEarlier, Earlier
<1>2. ASSUME poll # None, ~poll.multiple
      PROVE  Cardinality(VotesOf(poll, Me)) <= card.mounts
  <2>1. IsFiniteSet(Wanted) /\ Cardinality(Wanted) <= Allowed
    BY <1>2 DEF PollsIInv, MountsCounted
  <2>2. VotesOf(poll, Me) \subseteq Wanted
    BY DEF Wanted
  <2>3. IsFiniteSet(VotesOf(poll, Me)) /\ Cardinality(VotesOf(poll, Me)) <= Cardinality(Wanted)
    BY <2>1, <2>2, FS_Subset
  <2>4. /\ Cardinality(Wanted) \in Nat /\ Cardinality(VotesOf(poll, Me)) \in Nat
        /\ card.mounts \in Int /\ Allowed \in Int /\ Allowed <= card.mounts
    BY <2>1, <2>3, FS_CardinalityType DEF PollsIInv, PollsTypeOK, Allowed
  <2> QED BY <2>1, <2>3, <2>4
<1> QED BY <1>1, <1>2 DEF PollsIInv, PollsInv, OneVotePerMount
-----------------------------------------------------------------------------
(* Mutes, mentions and the title                                           *)

LEMMA EmptyLength ==
  ASSUME NEW S, NEW s \in Seq(S)
  PROVE  s = <<>> <=> Len(s) = 0
OBVIOUS

LEMMA OneLeft ==
  ASSUME NEW S, NEW s \in Seq(S), s # <<>>, Tail(s) = <<>>
  PROVE  Len(s) = 1
<1> DEFINE t == Tail(s)
<1>1. t \in Seq(S) /\ t = <<>> /\ Len(t) = Len(s) - 1 /\ Len(s) \in Nat
  OBVIOUS
<1> HIDE DEF t
<1>2. Len(t) = 0
  BY <1>1, EmptyLength
<1> QED BY <1>1, <1>2

\* What is appended is last; what is left of a sequence has its last element.
LEMMA LastOf ==
  ASSUME NEW S, NEW s \in Seq(S), NEW e \in S
  PROVE  /\ Append(s, e) \in Seq(S) /\ Append(s, e) # <<>> /\ Append(s, e)[Len(Append(s, e))] = e
         /\ s # <<>> => /\ Tail(s) \in Seq(S) /\ Head(s) \in S /\ s[Len(s)] \in S
                        /\ IF Tail(s) = <<>> THEN Head(s) = s[Len(s)] ELSE Tail(s)[Len(Tail(s))] = s[Len(s)]
<1>1. Append(s, e) \in Seq(S) /\ Append(s, e) # <<>> /\ Append(s, e)[Len(Append(s, e))] = e
  OBVIOUS
<1>2. ASSUME s # <<>>
      PROVE  /\ Tail(s) \in Seq(S) /\ Head(s) \in S /\ s[Len(s)] \in S
             /\ IF Tail(s) = <<>> THEN Head(s) = s[Len(s)] ELSE Tail(s)[Len(Tail(s))] = s[Len(s)]
  <2>1. /\ Tail(s) \in Seq(S) /\ Len(Tail(s)) = Len(s) - 1 /\ Len(s) \in Nat /\ Len(s) >= 1 /\ Head(s) = s[1]
        /\ \A i \in 1..Len(Tail(s)) : Tail(s)[i] = s[i + 1]
        /\ \A i \in 1..Len(s) : s[i] \in S
    BY <1>2
  <2>2. Head(s) \in S /\ s[Len(s)] \in S
    BY <2>1
  <2>3. CASE Tail(s) = <<>>
    <3>1. Len(s) = 1
      BY <1>2, <2>3, OneLeft
    <3> QED BY <2>1, <2>2, <2>3, <3>1
  <2>4. CASE Tail(s) # <<>>
    <3>1. Len(Tail(s)) \in 1..Len(Tail(s))
      BY <2>1, <2>4
    <3>2. Tail(s)[Len(Tail(s))] = s[Len(Tail(s)) + 1] /\ Len(Tail(s)) + 1 = Len(s)
      BY <2>1, <3>1
    <3> QED BY <2>1, <2>2, <2>4, <3>2
  <2> QED BY <2>3, <2>4
<1> QED BY <1>1, <1>2

\* What the steps make of the title: one more mention, none at all, or what it was.
TitleOf(t) == t.title = t.count /\ (t.count > 0 => t.hidden)

LEMMA TabsCounted ==
  ASSUME NEW t \in Tabs, t.count < MaxSeen, TitleOf(t), MaxSeen \in Nat
  PROVE  LET n == [t EXCEPT !.mention = TRUE, !.count = IF t.hidden THEN t.count + 1 ELSE t.count,
                            !.title = IF t.hidden THEN t.count + 1 ELSE t.title]
         IN n \in Tabs /\ TitleOf(n)
<1> DEFINE k == IF t.hidden THEN t.count + 1 ELSE t.count
           m == [t EXCEPT !.mention = TRUE]
           c == [m EXCEPT !.count = k]
           n == [t EXCEPT !.mention = TRUE, !.count = IF t.hidden THEN t.count + 1 ELSE t.count,
                          !.title = IF t.hidden THEN t.count + 1 ELSE t.title]
<1>1. k \in 0..MaxSeen /\ (k > 0 => t.hidden) /\ n = [t EXCEPT !.mention = TRUE, !.count = k, !.title = k]
  BY DEF Tabs, TitleOf
<1>2. n = [c EXCEPT !.title = k]
  BY <1>1
<1> HIDE DEF k, m, c, n
<1>3. m \in Tabs /\ m.hidden = t.hidden
  BY DEF m, Tabs
<1>4. c \in Tabs /\ c.hidden = t.hidden /\ c.count = k
  BY <1>1, <1>3 DEF c, Tabs
<1>5. n \in Tabs /\ n.hidden = t.hidden /\ n.count = k /\ n.title = k
  BY <1>1, <1>2, <1>4 DEF Tabs
<1> QED BY <1>1, <1>5 DEF TitleOf, n

LEMMA TabsSeen ==
  ASSUME NEW t \in Tabs, TitleOf(t), MaxSeen \in Nat
  PROVE  /\ [t EXCEPT !.mention = FALSE] \in Tabs /\ TitleOf([t EXCEPT !.mention = FALSE])
         /\ t.unread < MaxSeen => [t EXCEPT !.unread = @ + 1] \in Tabs /\ TitleOf([t EXCEPT !.unread = @ + 1])
         /\ [t EXCEPT !.hidden = TRUE] \in Tabs /\ TitleOf([t EXCEPT !.hidden = TRUE])
         /\ [t EXCEPT !.unread = 0, !.mention = FALSE] \in Tabs /\ TitleOf([t EXCEPT !.unread = 0, !.mention = FALSE])
         /\ LookedAt(t) \in Tabs /\ TitleOf(LookedAt(t)) /\ MarkRead(t) \in Tabs /\ TitleOf(MarkRead(t))
<1> DEFINE h == [t EXCEPT !.hidden = FALSE]
           hc == [h EXCEPT !.count = 0]
           u == [t EXCEPT !.unread = 0]
           uc == [u EXCEPT !.count = 0]
<1>1. 0 \in 0..MaxSeen /\ (t.unread < MaxSeen => t.unread + 1 \in 0..MaxSeen)
  BY DEF Tabs
<1>2. /\ [t EXCEPT !.unread = 0, !.mention = FALSE] = [u EXCEPT !.mention = FALSE]
      /\ LookedAt(t) = [hc EXCEPT !.title = 0] /\ MarkRead(t) = [uc EXCEPT !.title = 0]
  BY DEF LookedAt, MarkRead
<1> HIDE DEF h, hc, u, uc
<1>3. /\ h \in Tabs /\ u \in Tabs /\ u.hidden = t.hidden /\ u.count = t.count /\ u.title = t.title
  BY <1>1 DEF h, u, Tabs
<1>4. hc \in Tabs /\ hc.count = 0 /\ uc \in Tabs /\ uc.count = 0
  BY <1>1, <1>3 DEF hc, uc, Tabs
<1>5. /\ LookedAt(t) \in Tabs /\ LookedAt(t).count = 0 /\ LookedAt(t).title = 0
      /\ MarkRead(t) \in Tabs /\ MarkRead(t).count = 0 /\ MarkRead(t).title = 0
  BY <1>1, <1>2, <1>4 DEF Tabs
<1>6. TitleOf(LookedAt(t)) /\ TitleOf(MarkRead(t))
  BY <1>5 DEF TitleOf
<1>7. [t EXCEPT !.unread = 0, !.mention = FALSE] \in Tabs /\ TitleOf([t EXCEPT !.unread = 0, !.mention = FALSE])
  BY <1>2, <1>3 DEF TitleOf, Tabs
<1>8. /\ [t EXCEPT !.mention = FALSE] \in Tabs /\ TitleOf([t EXCEPT !.mention = FALSE])
      /\ [t EXCEPT !.hidden = TRUE] \in Tabs /\ TitleOf([t EXCEPT !.hidden = TRUE])
      /\ t.unread < MaxSeen => [t EXCEPT !.unread = @ + 1] \in Tabs /\ TitleOf([t EXCEPT !.unread = @ + 1])
  BY <1>1 DEF TitleOf, Tabs
<1> QED BY <1>5, <1>6, <1>7, <1>8

LEMMA NoticesStart == NoticesInit => NoticesIInv
<1> SUFFICES ASSUME NoticesInit PROVE NoticesIInv
  OBVIOUS
<1>0. NoPref \in Rows /\ [NoPref EXCEPT !.until = 1] \in Rows
  BY DEF NoPref, Rows
<1>1. /\ pref \in Rows \cup {None} /\ (pref = None => echoes = <<>>) /\ (pref # None => echoes = <<pref>> /\ pref \in Rows)
      /\ sets = <<>> /\ late = <<>> /\ mute = NoMute /\ ~passed /\ ~unmuted /\ ~stale
      /\ passed \in BOOLEAN /\ unmuted \in BOOLEAN /\ stale \in BOOLEAN
      /\ tab = [hidden |-> FALSE, count |-> 0, title |-> 0, unread |-> 0, mention |-> FALSE]
  BY <1>0 DEF NoticesInit, NoTab
<1>2. /\ \A row \in Rows : <<row>> \in Seq(Rows) /\ <<row>> # <<>> /\ <<row>>[Len(<<row>>)] = row
      /\ <<>> \in Seq(Rows) /\ 0 \in 0..MaxSeen
  BY NoticesAssumption
<1>3. NoticesTypeOK
  <2>1. NoMute \in [row : Rows \cup {None}, listed : BOOLEAN]
    BY DEF NoMute
  <2>2. tab \in Tabs
    BY <1>1, <1>2 DEF Tabs
  <2> QED BY <1>1, <1>2, <2>1, <2>2 DEF NoticesTypeOK
<1>4. LastEcho /\ MuteForms
  BY <1>1, <1>2 DEF LastEcho, MuteForms, NoMute
<1>5. TitleTrue
  BY <1>1 DEF TitleTrue
<1> QED BY <1>3, <1>4, <1>5 DEF NoticesIInv

\* A step that only counts, hides or shows has to keep the title.
LEMMA PrefsAside ==
  ASSUME NoticesIInv, UNCHANGED <<pref, late, echoes, mute, passed, stale>>, sets' \in Seq(Rows), unmuted' \in BOOLEAN,
         tab' \in Tabs,
         TitleOf(tab')
  PROVE  NoticesIInv'
<1>1. NoticesTypeOK'
  <2> QED BY DEF NoticesIInv, NoticesTypeOK
<1>2. LastEcho' /\ MuteForms'
  BY DEF NoticesIInv, LastEcho, MuteForms
<1> QED BY <1>1, <1>2 DEF NoticesIInv, TitleTrue, TitleOf

\* What the panel sends is a row.
LEMMA SendKeeps ==
  ASSUME NoticesIInv, Unmute \/ TogglePreview
  PROVE  NoticesIInv'
<1>1. NoticesTypeOK /\ tab \in Tabs /\ TitleOf(tab)
  BY DEF NoticesIInv, NoticesTypeOK, TitleTrue, TitleOf
<1>2. Row \in Rows
  BY <1>1 DEF NoticesTypeOK, Row, NoPref, Rows
<1>3. [Row EXCEPT !.until = 0] \in Rows /\ [Row EXCEPT !.preview = ~@] \in Rows
  BY <1>2 DEF Rows
<1>4. PICK row \in Rows : Send(row)
  BY <1>3 DEF Unmute, TogglePreview
<1>5. sets' \in Seq(Rows) /\ UNCHANGED <<pref, late, echoes, mute, passed, stale, tab>>
  BY <1>1, <1>4 DEF Send, NoticesTypeOK
<1>6. unmuted' \in BOOLEAN
  BY <1>1 DEF Unmute, TogglePreview, NoticesTypeOK
<1> QED BY <1>1, <1>5, <1>6, PrefsAside

\* The answer to a setting, if it is told, is the last one, and what the server has.
LEMMA HandleSetKeeps ==
  ASSUME NoticesIInv, HandleSet
  PROVE  NoticesIInv'
<1>1. NoticesTypeOK /\ LastEcho /\ MuteForms /\ TitleTrue
  BY DEF NoticesIInv
<1>2. sets # <<>> /\ sets' = Tail(sets) /\ UNCHANGED <<late, mute, passed, unmuted, tab>>
  BY DEF HandleSet
<1>3. sets' \in Seq(Rows) /\ Head(sets) \in Rows /\ Head(sets) # None
  BY <1>1, <1>2, LastOf, NoticesAssumption DEF NoticesTypeOK
<1> DEFINE Heard == /\ pref' \in Rows \cup {None} /\ echoes' \in Seq(Rows) /\ stale' \in BOOLEAN
                   /\ LastEcho'
<1>4. Heard
  <2>1. ASSUME pref' = Head(sets), echoes' = Append(echoes, pref'), stale' = FALSE PROVE Heard
    <3>1. echoes' \in Seq(Rows) /\ echoes' # <<>> /\ echoes'[Len(echoes')] = pref'
      BY <1>1, <1>3, <2>1, LastOf DEF NoticesTypeOK
    <3> QED BY <1>3, <2>1, <3>1 DEF LastEcho
  <2>2. ASSUME pref' = Head(sets), stale' = TRUE, UNCHANGED echoes PROVE Heard
    BY <1>1, <1>2, <1>3, <2>2 DEF LastEcho, NoticesTypeOK
  <2>3. ASSUME UNCHANGED <<pref, echoes, stale>> PROVE Heard
    BY <1>1, <1>2, <2>3 DEF LastEcho, NoticesTypeOK
  <2> QED BY <2>1, <2>2, <2>3 DEF HandleSet
<1>5. NoticesTypeOK'
  BY <1>1, <1>2, <1>3, <1>4 DEF NoticesTypeOK
<1> QED BY <1>1, <1>2, <1>4, <1>5 DEF NoticesIInv, MuteForms, TitleTrue

LEMMA HandleLateKeeps ==
  ASSUME NoticesIInv, HandleLate
  PROVE  NoticesIInv'
<1>1. NoticesTypeOK /\ LastEcho /\ MuteForms /\ TitleTrue
  BY DEF NoticesIInv
<1>2. /\ late # <<>> /\ late' = Tail(late) /\ UNCHANGED <<sets, echoes, mute, passed, unmuted, tab>>
      /\ (pref' = Head(late) /\ stale' = TRUE) \/ UNCHANGED <<pref, stale>>
  BY DEF HandleLate
<1>3. late' \in Seq(Rows) /\ Head(late) \in Rows /\ Head(late) # None
  BY <1>1, <1>2, LastOf, NoticesAssumption DEF NoticesTypeOK
<1>4. NoticesTypeOK'
  BY <1>1, <1>2, <1>3 DEF NoticesTypeOK
<1>5. LastEcho'
  BY <1>1, <1>2, <1>3 DEF LastEcho
<1> QED BY <1>1, <1>2, <1>4, <1>5 DEF NoticesIInv, MuteForms, TitleTrue

\* Both forms of a mute are made of the same frame.
LEMMA NotificationPrefsKeeps ==
  ASSUME NoticesIInv, NotificationPrefs
  PROVE  NoticesIInv'
<1>1. NoticesTypeOK /\ LastEcho /\ MuteForms /\ TitleTrue
  BY DEF NoticesIInv
<1>2. /\ echoes # <<>> /\ echoes' = Tail(echoes) /\ mute' = [row |-> Head(echoes), listed |-> Head(echoes).until = 1 /\ ~passed]
      /\ UNCHANGED <<pref, sets, late, passed, unmuted, stale, tab>>
  BY DEF NotificationPrefs, Noted, Ahead
<1>3. /\ echoes' \in Seq(Rows) /\ Head(echoes) \in Rows
      /\ IF echoes' = <<>> THEN Head(echoes) = echoes[Len(echoes)] ELSE echoes'[Len(echoes')] = echoes[Len(echoes)]
  BY <1>1, <1>2, LastOf DEF NoticesTypeOK
<1>4. NoticesTypeOK'
  BY <1>1, <1>2, <1>3 DEF NoticesTypeOK
<1>5. LastEcho'
  BY <1>1, <1>2, <1>3 DEF LastEcho
<1>6. MuteForms'
  BY <1>2, <1>3, NoticesAssumption DEF MuteForms
<1> QED BY <1>1, <1>2, <1>4, <1>5, <1>6 DEF NoticesIInv, TitleTrue

\* A join is told what the server has, if it ever had anything.
LEMMA JoinedTold ==
  ASSUME NoticesIInv, Joined, mute' \in {mute, NoMute},
         tab' \in Tabs,
         TitleOf(tab')
  PROVE  NoticesIInv'
<1>1. NoticesTypeOK /\ LastEcho /\ MuteForms
  BY DEF NoticesIInv
<1>2. /\ late' = late \o sets /\ sets' = <<>> /\ stale' \in BOOLEAN /\ UNCHANGED <<pref, passed, unmuted>>
      /\ IF pref = None \/ stale' THEN echoes' = <<>> ELSE echoes' = <<pref>>
      /\ stale' => pref # None
  BY DEF Joined
<1>3. /\ late' \in Seq(Rows) /\ sets' \in Seq(Rows) /\ echoes' \in Seq(Rows)
      /\ pref # None /\ ~stale' => echoes' # <<>> /\ echoes'[Len(echoes')] = pref
  <2>1. late \o sets \in Seq(Rows) /\ <<>> \in Seq(Rows)
    BY <1>1 DEF NoticesTypeOK
  <2>2. pref # None => pref \in Rows /\ <<pref>> \in Seq(Rows) /\ <<pref>> # <<>> /\ <<pref>>[Len(<<pref>>)] = pref
    BY <1>1 DEF NoticesTypeOK
  <2> QED BY <1>2, <2>1, <2>2
<1>4. mute' \in [row : Rows \cup {None}, listed : BOOLEAN]
  <2>1. NoMute \in [row : Rows \cup {None}, listed : BOOLEAN]
    BY DEF NoMute
  <2> QED BY <1>1, <2>1 DEF NoticesTypeOK
<1>5. NoticesTypeOK'
  BY <1>1, <1>2, <1>3, <1>4 DEF NoticesTypeOK
<1>6. LastEcho' /\ MuteForms'
  BY <1>1, <1>2, <1>3 DEF LastEcho, MuteForms, NoMute
<1> QED BY <1>5, <1>6 DEF NoticesIInv, TitleTrue, TitleOf

LEMMA NoticesStep ==
  ASSUME NoticesIInv, NoticesNext
  PROVE  NoticesIInv'
<1>1. /\ NoticesTypeOK /\ LastEcho /\ MuteForms /\ TitleTrue /\ MaxSeen \in Nat
      /\ tab \in Tabs /\ TitleOf(tab)
  BY NoticesAssumption DEF NoticesIInv, NoticesTypeOK, TitleTrue, TitleOf
<1>2. CASE TimePasses
  <2>1. passed' = TRUE /\ UNCHANGED <<pref, sets, late, echoes, mute, unmuted, stale, tab>>
    BY <1>2 DEF TimePasses
  <2>2. NoticesTypeOK'
    BY <1>1, <2>1 DEF NoticesTypeOK
  <2> QED BY <1>1, <2>1, <2>2 DEF NoticesIInv, LastEcho, MuteForms, TitleTrue
<1>3. CASE Reconnect
  BY <1>1, <1>3, JoinedTold DEF Reconnect, TitleTrue
<1>4. CASE Mention \/ DismissMention \/ Message \/ HandleVisibility
  <2>1. UNCHANGED <<pref, sets, late, echoes, mute, passed, unmuted, stale>>
    BY <1>4 DEF Mention, DismissMention, Message, HandleVisibility, prefVars
  <2>2. tab' \in Tabs /\ TitleOf(tab')
    <3>1. CASE Mention
      BY <1>1, <3>1, TabsCounted DEF Mention
    <3>2. CASE DismissMention \/ Message \/ HandleVisibility
      BY <1>1, <3>2, TabsSeen DEF DismissMention, Message, HandleVisibility
    <3> QED BY <1>4, <3>1, <3>2
  <2> QED BY <1>1, <2>1, <2>2, PrefsAside DEF NoticesTypeOK
<1> QED BY <1>2, <1>3, <1>4, SendKeeps, HandleSetKeeps, HandleLateKeeps, NotificationPrefsKeeps DEF NoticesNext

LEMMA NoticesStay ==
  ASSUME NoticesIInv, UNCHANGED noticeVars
  PROVE  NoticesIInv'
BY DEF noticeVars, prefVars, NoticesIInv, NoticesTypeOK, LastEcho, MuteForms, TitleTrue

LEMMA NoticesSpace ==
  ASSUME NoticesIInv, HandleSpaceSelect
  PROVE  NoticesIInv'
<1>1. /\ NoticesTypeOK /\ tab \in Tabs /\ TitleOf(tab) /\ MaxSeen \in Nat /\ tab' = MarkRead(tab)
      /\ UNCHANGED <<pref, sets, late, echoes, mute, passed, unmuted, stale>>
  BY NoticesAssumption DEF HandleSpaceSelect, prefVars, NoticesIInv, NoticesTypeOK, TitleTrue, TitleOf
<1>2. tab' \in Tabs /\ TitleOf(tab')
  BY <1>1, TabsSeen
<1> QED BY <1>1, <1>2, PrefsAside DEF NoticesTypeOK

LEMMA NoticesLogOut ==
  ASSUME NoticesIInv, LogOutAndIn
  PROVE  NoticesIInv'
<1>1. /\ tab \in Tabs /\ TitleOf(tab) /\ Joined /\ mute' = NoMute /\ MaxSeen \in Nat
      /\ tab' = [tab EXCEPT !.unread = 0, !.mention = FALSE]
  BY NoticesAssumption DEF LogOutAndIn, NoticesIInv, NoticesTypeOK, TitleTrue, TitleOf
<1>2. tab' \in Tabs /\ TitleOf(tab')
  BY <1>1, TabsSeen
<1> QED BY <1>1, <1>2, JoinedTold

LEMMA NoticesFollow == NoticesIInv => NoticesInv
BY DEF NoticesIInv, NoticesInv, PrefsSettle, LastEcho, MuteForms
-----------------------------------------------------------------------------
(* Who is online                                                           *)

Kinds == {"nothing", "user_joined", "user_status"}

LEMMA PeopleStart == PeopleInit => PeopleIInv
<1> SUFFICES ASSUME PeopleInit PROVE PeopleIInv
  OBVIOUS
<1>1. 0 \in 0..MaxJoins /\ Len(<<>>) <= MaxQueue
  BY PeopleAssumption
<1>2. PeopleTypeOK
  BY <1>1 DEF PeopleInit, PeopleTypeOK, NoStatus, Idle
<1>3. PeopleTypes
  BY DEF PeopleInit, PeopleTypes, NoStatus, Statuses, Idle
<1>4. CalmRosters
  BY DEF PeopleInit, CalmRosters
<1> QED BY <1>2, <1>3, <1>4 DEF PeopleIInv

\* A connection that asks to join, and one that reads who is online.
LEMMA JoinAndReadKeep ==
  ASSUME PeopleIInv, NEW o \in Others, Join(o) \/ Read(o)
  PROVE  PeopleIInv'
<1>1. /\ PeopleTypeOK /\ PeopleTypes /\ CalmRosters /\ UNCHANGED <<channel, roster, before, calm>>
      /\ making[o] \in [next : Kinds, seen : Statuses \cup {None}]
  BY DEF PeopleIInv, Join, Read, PeopleTypes, Kinds
<1>2. In \in SUBSET Others /\ known \in SUBSET Others
  BY <1>1 DEF PeopleTypeOK, In
<1>3. \E new \in [next : Kinds, seen : Statuses \cup {None}] :
        /\ making' = [making EXCEPT ![o] = new]
        /\ new.next = "user_joined" /\ new.seen # None => new.seen.online = In
        /\ known' \subseteq Others /\ In' = In
        /\ people' \in [Others -> {"out", "asked", "in"}] /\ joins' \in 0..MaxJoins
  <2>1. CASE Join(o)
    <3>1. /\ people[o] = "out" /\ making[o] = Idle /\ joins < MaxJoins /\ joins' = joins + 1
          /\ people' = [people EXCEPT ![o] = "asked"] /\ known' = known \cup {o}
          /\ making' = [making EXCEPT ![o] = [making[o] EXCEPT !.next = "user_joined"]]
      BY <1>1, <2>1 DEF Join, PeopleTypes
    <3>2. [making[o] EXCEPT !.next = "user_joined"] = [next |-> "user_joined", seen |-> None]
      BY <3>1 DEF Idle
    <3>3. [next |-> "user_joined", seen |-> None] \in [next : Kinds, seen : Statuses \cup {None}]
      BY DEF Kinds
    <3>4. known' \subseteq Others /\ joins' \in 0..MaxJoins /\ people' \in [Others -> {"out", "asked", "in"}]
      BY <1>1, <3>1, PeopleAssumption DEF PeopleTypeOK
    <3>5. In' = In
      BY <1>1, <3>1 DEF In, PeopleTypeOK
    <3> QED BY <3>1, <3>2, <3>3, <3>4, <3>5
  <2>2. CASE Read(o)
    <3> DEFINE status == [known |-> known, online |-> In]
    <3>1. /\ making' = [making EXCEPT ![o] = [making[o] EXCEPT !.seen = status]] /\ UNCHANGED <<people, joins, known>>
      BY <1>1, <2>2 DEF Read, PeopleTypes
    <3>2. status \in Statuses /\ status.online = In
      BY <1>2 DEF Statuses
    <3> HIDE DEF status
    <3>3. /\ [making[o] EXCEPT !.seen = status] \in [next : Kinds, seen : Statuses \cup {None}]
          /\ [making[o] EXCEPT !.seen = status].seen = status
      BY <1>1, <3>2
    <3>4. In' = In
      BY <3>1 DEF In
    <3> QED BY <1>1, <1>2, <3>1, <3>2, <3>3, <3>4 DEF PeopleTypeOK
  <2> QED BY <2>1, <2>2
<1>4. PICK new \in [next : Kinds, seen : Statuses \cup {None}] :
        /\ making' = [making EXCEPT ![o] = new]
        /\ new.next = "user_joined" /\ new.seen # None => new.seen.online = In
        /\ known' \subseteq Others /\ In' = In
        /\ people' \in [Others -> {"out", "asked", "in"}] /\ joins' \in 0..MaxJoins
  BY <1>3
<1>5. /\ making' \in [Others -> [next : Kinds, seen : Statuses \cup {None}]]
      /\ making'[o] = new /\ \A p \in Others : p # o => making'[p] = making[p]
  BY <1>1, <1>4 DEF PeopleTypes, Kinds
<1>6. PeopleTypeOK' /\ PeopleTypes'
  BY <1>1, <1>4, <1>5 DEF PeopleTypeOK, PeopleTypes, Kinds
<1>7. CalmRosters'
  BY <1>1, <1>4, <1>5 DEF CalmRosters, NoneOlder
<1> QED BY <1>6, <1>7 DEF PeopleIInv

\* A frame goes into the channel as it was read.
LEMMA BroadcastKeeps ==
  ASSUME PeopleIInv, NEW o \in Others, Broadcast(o)
  PROVE  PeopleIInv'
<1> DEFINE frame == [kind |-> making[o].next, seen |-> making[o].seen]
           Frame == [kind : Kinds, seen : Statuses]
<1>1. /\ PeopleTypeOK /\ PeopleTypes /\ CalmRosters /\ UNCHANGED <<people, joins, known, roster, before, calm>>
      /\ making[o].seen # None /\ MaxQueue \in Nat
      /\ making' = [making EXCEPT ![o] = IF making[o].next = "user_joined" THEN [next |-> "user_status", seen |-> None] ELSE Idle]
      /\ channel' = IF Len(channel) = MaxQueue THEN channel ELSE Append(channel, frame)
  BY PeopleAssumption DEF PeopleIInv, Broadcast, PeopleTypes
<1>2. channel \in Seq(Frame) /\ frame \in Frame /\ Len(channel) \in Nat /\ Len(channel) <= MaxQueue
  BY <1>1 DEF PeopleTypes, PeopleTypeOK, Kinds
<1>3. /\ making' \in [Others -> [next : Kinds, seen : Statuses \cup {None}]]
      /\ making'[o].seen = None /\ \A p \in Others : p # o => making'[p] = making[p]
  BY <1>1 DEF PeopleTypes, Kinds, Idle
<1>4. /\ channel' \in Seq(Frame) /\ Len(channel') <= MaxQueue
      /\ \A k \in DOMAIN channel' : \/ k \in DOMAIN channel /\ channel'[k] = channel[k]
                                    \/ channel'[k] = frame
  <2>1. CASE Len(channel) = MaxQueue
    BY <1>1, <1>2, <2>1
  <2>2. CASE Len(channel) # MaxQueue
    <3> HIDE DEF frame, Frame
    <3>1. /\ channel' = Append(channel, frame) /\ channel' \in Seq(Frame) /\ Len(channel') = Len(channel) + 1
          /\ DOMAIN channel = 1..Len(channel) /\ DOMAIN channel' = 1..(Len(channel) + 1)
          /\ \A k \in 1..Len(channel) : channel'[k] = channel[k]
          /\ channel'[Len(channel) + 1] = frame
      BY <1>1, <1>2, <2>2
    <3>2. \A k \in 1..(Len(channel) + 1) : k \in 1..Len(channel) \/ k = Len(channel) + 1
      BY <1>2
    <3>3. Len(channel') <= MaxQueue
      <4>1. MaxQueue \in Nat /\ Len(channel) \in Nat /\ Len(channel) <= MaxQueue /\ Len(channel) # MaxQueue
        BY <1>1, <1>2, <2>2
      <4>2. Len(channel) + 1 <= MaxQueue
        BY <4>1
      <4> QED BY <3>1, <4>2
    <3>4. \A k \in DOMAIN channel' : \/ k \in DOMAIN channel /\ channel'[k] = channel[k]
                                     \/ channel'[k] = frame
      BY <3>1, <3>2
    <3> QED BY <3>1, <3>3, <3>4
  <2> QED BY <2>1, <2>2
<1>5. PeopleTypeOK' /\ PeopleTypes'
  BY <1>1, <1>3, <1>4 DEF PeopleTypeOK, PeopleTypes, Kinds
<1>6. CalmRosters'
  <2> SUFFICES ASSUME calm
               PROVE  /\ \A p \in Others : making'[p].next = "user_joined" /\ making'[p].seen # None => making'[p].seen.online = In
                      /\ \A k \in DOMAIN channel' : channel'[k].kind = "user_joined" => channel'[k].seen.online = In
    BY <1>1 DEF CalmRosters, NoneOlder, In
  <2>1. making[o].next = "user_joined" => making[o].seen.online = In
    BY <1>1 DEF CalmRosters, NoneOlder
  <2>2. frame.kind = making[o].next /\ frame.seen = making[o].seen
    OBVIOUS
  <2> HIDE DEF frame
  <2> QED BY <1>1, <1>3, <1>4, <2>1, <2>2 DEF CalmRosters, NoneOlder
<1> QED BY <1>5, <1>6 DEF PeopleIInv

\* A roster that was calm to send is calm to show.
LEMMA DeliverKeeps ==
  ASSUME PeopleIInv, Deliver
  PROVE  PeopleIInv'
<1> DEFINE Frame == [kind : Kinds, seen : Statuses]
<1>1. /\ PeopleTypeOK /\ PeopleTypes /\ CalmRosters /\ UNCHANGED <<people, joins, making, known, calm>>
      /\ channel # <<>> /\ channel' = Tail(channel) /\ MaxQueue \in Nat
      /\ \/ UNCHANGED <<roster, before>>
         \/ Head(channel).kind = "user_joined" /\ roster' = Head(channel).seen.online /\ before' = before
         \/ before' = Head(channel).seen /\ roster' = roster
  BY PeopleAssumption DEF PeopleIInv, Deliver, Roster, Status
<1>2. channel \in Seq(Frame) /\ Len(channel) <= MaxQueue
  BY <1>1 DEF PeopleTypes, PeopleTypeOK, Kinds
<1>3. /\ channel' \in Seq(Frame) /\ Head(channel) \in Frame /\ Head(channel) = channel[1] /\ 1 \in DOMAIN channel
      /\ Len(channel') = Len(channel) - 1 /\ Len(channel) \in Nat
      /\ \A k \in DOMAIN channel' : k + 1 \in DOMAIN channel /\ channel'[k] = channel[k + 1]
  <2> HIDE DEF Frame
  <2> QED BY <1>1, <1>2
<1>4. Head(channel).seen \in Statuses /\ Head(channel).seen.online \subseteq Others
  BY <1>3 DEF Statuses
<1>5. roster' \subseteq Others /\ before' \in Statuses /\ before'.online \subseteq Others
  BY <1>1, <1>4 DEF PeopleTypes, PeopleTypeOK, Statuses
<1>6. PeopleTypeOK' /\ PeopleTypes'
  BY <1>1, <1>2, <1>3, <1>5 DEF PeopleTypeOK, PeopleTypes, Kinds
<1>7. In' = In
  BY <1>1 DEF In
<1>8. CalmRosters'
  BY <1>1, <1>3, <1>7 DEF CalmRosters, NoneOlder
<1> QED BY <1>6, <1>8 DEF PeopleIInv

\* Who comes ends the calm; a leave or a tick that is told makes it, unless an older
\* roster is on its way.
LEMMA PeopleStep ==
  ASSUME PeopleIInv, PeopleNext
  PROVE  PeopleIInv'
<1>1. PeopleTypeOK /\ PeopleTypes /\ CalmRosters /\ In \subseteq Others
  BY DEF PeopleIInv, In
<1>2. ASSUME NEW o \in Others, Register(o)
      PROVE  PeopleIInv'
  <2>1. /\ people' = [people EXCEPT ![o] = "in"] /\ calm' = FALSE
        /\ UNCHANGED <<joins, making, channel, known, roster, before>>
    BY <1>2 DEF Register
  <2> QED BY <1>1, <2>1 DEF PeopleIInv, PeopleTypeOK, PeopleTypes, CalmRosters
<1>3. ASSUME NEW o \in Others, Leave(o)
      PROVE  PeopleIInv'
  <2>1. /\ people[o] = "in" /\ people' = [people EXCEPT ![o] = "out"] /\ UNCHANGED <<joins, making, channel, known>>
        /\ \/ calm' = FALSE /\ UNCHANGED <<roster, before>>
           \/ /\ calm' = NoneOlder(In \ {o}) /\ roster' = In \ {o}
              /\ before' = [known |-> known, online |-> In \ {o}]
    BY <1>3 DEF Leave, Roster, Status
  <2>2. roster' \subseteq Others /\ before' \in Statuses /\ before'.online \subseteq Others
    BY <1>1, <2>1 DEF PeopleTypeOK, PeopleTypes, Statuses
  <2>3. calm' \in BOOLEAN
    BY <2>1 DEF NoneOlder
  <2>4. PeopleTypeOK' /\ PeopleTypes'
    BY <1>1, <2>1, <2>2, <2>3 DEF PeopleTypeOK, PeopleTypes
  <2>5. In' = In \ {o}
    BY <1>1, <2>1 DEF In, PeopleTypeOK
  <2>6. CalmRosters'
    BY <2>1, <2>5 DEF CalmRosters, NoneOlder
  <2> QED BY <2>4, <2>6 DEF PeopleIInv
<1>4. CASE Tick
  <2>1. UNCHANGED <<people, joins, making, channel, known, before>>
    BY <1>4 DEF Tick
  <2>2. In' = In
    BY <2>1 DEF In
  <2>3. CASE UNCHANGED <<roster, calm>>
    BY <1>1, <2>1, <2>2, <2>3 DEF PeopleIInv, PeopleTypeOK, PeopleTypes, CalmRosters, NoneOlder
  <2>4. CASE roster' = In /\ calm' = NoneOlder(In)
    <3>1. calm' \in BOOLEAN
      BY <2>4 DEF NoneOlder
    <3>2. PeopleTypeOK' /\ PeopleTypes'
      BY <1>1, <2>1, <2>4, <3>1 DEF PeopleTypeOK, PeopleTypes
    <3>3. CalmRosters'
      BY <2>1, <2>2, <2>4 DEF CalmRosters, NoneOlder
    <3> QED BY <3>2, <3>3 DEF PeopleIInv
  <2> QED BY <1>4, <2>3, <2>4 DEF Tick, Roster
<1> QED BY <1>2, <1>3, <1>4, JoinAndReadKeep, BroadcastKeeps, DeliverKeeps DEF PeopleNext

LEMMA PeopleStay ==
  ASSUME PeopleIInv, UNCHANGED peopleVars
  PROVE  PeopleIInv'
BY DEF peopleVars, PeopleIInv, PeopleTypeOK, PeopleTypes, CalmRosters, NoneOlder, In

LEMMA PeopleLogOut ==
  ASSUME PeopleIInv, LogOutAndIn
  PROVE  PeopleIInv'
<1>1. roster' = {} /\ calm' = FALSE /\ UNCHANGED <<people, joins, making, channel, known, before>>
  BY DEF LogOutAndIn
<1> QED BY <1>1 DEF PeopleIInv, PeopleTypeOK, PeopleTypes, CalmRosters

LEMMA PeopleFollow == PeopleIInv => PeopleInv
BY DEF PeopleIInv, PeopleInv, CalmRosters, RosterHeals
-----------------------------------------------------------------------------
(* What a message wears                                                    *)

LEMMA PreviewStart == MarksInit /\ space = "public" => PreviewIInv
<1> SUFFICES ASSUME MarksInit, space = "public" PROVE PreviewIInv
  OBVIOUS
<1>1. body = [url |-> None, edits |-> 0] /\ old = FALSE /\ preview = None
  BY DEF MarksInit, Mounted
<1>2. body \in Bodies
  BY <1>1, MarksAssumption DEF Bodies
<1> QED BY <1>1, <1>2 DEF PreviewIInv, PreviewEnds, PreviewStops

\* A preview that is mounted is of the link, and loads unless the message is old.
LEMMA MountedRight ==
  ASSUME NEW url \in Urls \cup {None}, old \in BOOLEAN
  PROVE  /\ Mounted(url) \in {None} \cup Previews
         /\ Mounted(url) # None =>
              /\ Mounted(url).url = url /\ (Mounted(url).status = "loading" => Mounted(url).pending # "nothing")
              /\ Mounted(url).isTooOld => Mounted(url).status = "empty" /\ Mounted(url).pending = "nothing"
<1>1. CASE url = None
  BY <1>1 DEF Mounted
<1>2. CASE url # None
  BY <1>2 DEF Mounted, Previews
<1> QED BY <1>1, <1>2

\* A preview stays one when its state becomes another.
LEMMA PreviewBecomesKeeps ==
  ASSUME PreviewIInv, UNCHANGED space, preview # None,
         NEW tooOld \in BOOLEAN, NEW status \in {"loading", "error", "empty", "success"},
         NEW pending \in {"nothing", "timer", "answer"},
         preview' = [[[preview EXCEPT !.isTooOld = tooOld] EXCEPT !.status = status] EXCEPT !.pending = pending],
         UNCHANGED <<body, old>>, status = "loading" => pending # "nothing",
         tooOld => status = "empty" /\ pending = "nothing"
  PROVE  PreviewIInv'
<1>1. preview \in Previews /\ preview.url = body.url /\ space # "bot"
  BY DEF PreviewIInv, PreviewEnds, PreviewStops
<1> DEFINE p == [preview EXCEPT !.isTooOld = tooOld]
           q == [p EXCEPT !.status = status]
           r == [q EXCEPT !.pending = pending]
<1>2. p \in Previews /\ p.url = body.url /\ p.isTooOld = tooOld
  BY <1>1 DEF Previews
<1> HIDE DEF p
<1>3. q \in Previews /\ q.url = body.url /\ q.isTooOld = tooOld /\ q.status = status
  BY <1>2 DEF Previews
<1> HIDE DEF q
<1>4. r \in Previews /\ r.url = body.url /\ r.isTooOld = tooOld /\ r.status = status /\ r.pending = pending
  BY <1>3 DEF Previews
<1>5. preview' = r
  BY DEF p, q
<1> HIDE DEF r
<1>6. body \in Bodies /\ old \in BOOLEAN
  BY DEF PreviewIInv
<1> QED BY <1>1, <1>4, <1>5, <1>6 DEF PreviewIInv, PreviewEnds, PreviewStops

\* Edits, the clock and the fetch of the preview.
LEMMA PreviewStep ==
  ASSUME PreviewIInv, UNCHANGED space, space \in {"public", "bot"},
         \/ \E url \in Urls \cup {None} : Edit(url)
         \/ FiveMinutesPass \/ Render \/ Fetch \/ \E answer \in {"error", "empty", "success"} : FetchAnswers(answer)
  PROVE  PreviewIInv'
<1>1. /\ body \in Bodies /\ old \in BOOLEAN /\ preview \in {None} \cup Previews
      /\ PreviewEnds /\ PreviewStops
  BY DEF PreviewIInv
<1>2. ASSUME NEW url \in Urls \cup {None}, Edit(url)
      PROVE  PreviewIInv'
  <2>1. /\ body' = [url |-> url, edits |-> body.edits + 1] /\ body.edits < MaxEdits /\ UNCHANGED old
        /\ preview' = IF space = "public" /\ url # body.url THEN Mounted(url) ELSE preview
    BY <1>2 DEF Edit
  <2>2. body.edits \in Nat /\ MaxEdits \in Nat
    BY <1>1, MarksAssumption DEF Bodies
  <2>3. body' \in Bodies /\ body'.url = url
    BY <2>1, <2>2 DEF Bodies
  <2>4. CASE space = "public" /\ url # body.url
    <3>1. preview' = Mounted(url) /\ space' # "bot"
      BY <2>1, <2>4
    <3> QED BY <1>1, <2>1, <2>3, <3>1, MountedRight DEF PreviewIInv, PreviewEnds, PreviewStops
  <2>5. CASE ~(space = "public" /\ url # body.url)
    <3>1. preview' = preview /\ (preview # None => url = body.url \/ space # "public")
      BY <2>1, <2>5
    <3>2. preview # None => preview.url = url
      <4>1. CASE url = body.url
        BY <1>1, <4>1 DEF PreviewEnds
      <4>2. CASE space # "public"
        BY <1>1, <4>2 DEF PreviewStops
      <4> QED BY <3>1, <4>1, <4>2
    <3> QED BY <1>1, <2>1, <2>3, <3>1, <3>2 DEF PreviewIInv, PreviewEnds, PreviewStops
  <2> QED BY <2>4, <2>5
<1>3. CASE FiveMinutesPass
  BY <1>1, <1>3 DEF FiveMinutesPass, PreviewIInv, PreviewEnds, PreviewStops
<1>4. CASE Render
  <2>1. preview # None /\ preview \in Previews /\ UNCHANGED <<body, old>>
        /\ preview' = [preview EXCEPT !.isTooOld = TRUE, !.status = "empty", !.pending = "nothing"]
    BY <1>1, <1>4 DEF Render, PreviewBecomes
  <2>2. preview' = [[[preview EXCEPT !.isTooOld = TRUE] EXCEPT !.status = "empty"] EXCEPT !.pending = "nothing"]
    BY <2>1 DEF Previews
  <2> QED BY <2>1, <2>2, PreviewBecomesKeeps
<1>5. CASE Fetch
  <2>1. preview # None /\ preview \in Previews /\ UNCHANGED <<body, old>> /\ preview.pending = "timer"
        /\ preview' = [preview EXCEPT !.pending = "answer"]
    BY <1>1, <1>5 DEF Fetch, PreviewBecomes
  <2>2. /\ preview' = [[[preview EXCEPT !.isTooOld = preview.isTooOld] EXCEPT !.status = preview.status] EXCEPT !.pending = "answer"]
        /\ preview.isTooOld \in BOOLEAN /\ preview.status \in {"loading", "error", "empty", "success"}
    BY <2>1 DEF Previews
  <2>3. ~preview.isTooOld
    BY <1>1, <2>1 DEF PreviewStops
  <2> QED BY <2>1, <2>2, <2>3, PreviewBecomesKeeps
<1>6. ASSUME NEW answer \in {"error", "empty", "success"}, FetchAnswers(answer)
      PROVE  PreviewIInv'
  <2>1. preview # None /\ preview \in Previews /\ UNCHANGED <<body, old>> /\ preview.pending = "answer"
        /\ preview' = [preview EXCEPT !.status = answer, !.pending = "nothing"]
    BY <1>1, <1>6 DEF FetchAnswers, PreviewBecomes, Answered
  <2>2. /\ preview' = [[[preview EXCEPT !.isTooOld = preview.isTooOld] EXCEPT !.status = answer] EXCEPT !.pending = "nothing"]
        /\ preview.isTooOld \in BOOLEAN
    BY <2>1 DEF Previews
  <2>3. ~preview.isTooOld
    BY <1>1, <2>1 DEF PreviewStops
  <2> QED BY <2>1, <2>2, <2>3, PreviewBecomesKeeps
<1> QED BY <1>2, <1>3, <1>4, <1>5, <1>6

LEMMA PreviewStay ==
  ASSUME PreviewIInv, UNCHANGED <<previewVars, space>>
  PROVE  PreviewIInv'
BY DEF previewVars, PreviewIInv, PreviewEnds, PreviewStops

\* Another space is entered: in the room the preview is mounted anew.
LEMMA PreviewMounts ==
  ASSUME PreviewIInv, UNCHANGED <<body, old>>,
         preview' = IF space' = "public" THEN Mounted(body.url) ELSE None, space' \in {"public", "bot"}
  PROVE  PreviewIInv'
<1>1. body \in Bodies /\ old \in BOOLEAN /\ body.url \in Urls \cup {None}
  BY DEF PreviewIInv, Bodies
<1>2. /\ Mounted(body.url) \in {None} \cup Previews
      /\ Mounted(body.url) # None =>
           /\ Mounted(body.url).url = body.url
           /\ Mounted(body.url).status = "loading" => Mounted(body.url).pending # "nothing"
           /\ Mounted(body.url).isTooOld => Mounted(body.url).status = "empty" /\ Mounted(body.url).pending = "nothing"
  BY <1>1, MountedRight
<1>3. CASE space' = "public"
  BY <1>1, <1>2, <1>3 DEF PreviewIInv, PreviewEnds, PreviewStops
<1>4. CASE space' = "bot"
  BY <1>1, <1>4 DEF PreviewIInv, PreviewEnds, PreviewStops
<1> QED BY <1>3, <1>4
-----------------------------------------------------------------------------
(* Reactions and the pin                                                   *)

LEMMA ToldStart == MarksInit => ToldIInv
<1> SUFFICES ASSUME MarksInit PROVE ToldIInv
  OBVIOUS
<1>1. /\ reacted = {} /\ pinned = FALSE /\ changes = 0 /\ hands = [f \in Fans |-> None] /\ wire = <<>>
      /\ worn = [map |-> None, carried |-> {}, pins |-> 0] /\ unsure = {} /\ {MaxChanges, Room} \subseteq Nat
  BY MarksAssumption DEF MarksInit
<1>2. ToldTypes
  <2>1. 0 \in 0..MaxChanges /\ Len(<<>>) <= Room /\ MaxChanges \in Nat
    BY <1>1
  <2>2. [map |-> None, carried |-> {}, pins |-> 0] \in [map : {None} \cup SUBSET Fans, carried : SUBSET Fans, pins : Nat]
    OBVIOUS
  <2>3. [f \in Fans |-> None] \in [Fans -> {None} \cup Frames]
    OBVIOUS
  <2>4. <<>> \in Seq(SUBSET Fans)
    OBVIOUS
  <2> QED BY <1>1, <2>1, <2>2, <2>3, <2>4 DEF ToldTypes
<1>3. \A kind : Holding(kind) = {}
  BY <1>1 DEF Holding
<1>4. PinsCounted
  <2>1. Holding("pin") = {} /\ IsFiniteSet({}) /\ Cardinality({}) = 0
    BY <1>3, FS_EmptySet
  <2>2. worn.pins = 0 /\ 0 + 0 <= 0
    BY <1>1
  <2> QED BY <1>1, <2>1, <2>2 DEF PinsCounted
<1> QED BY <1>1, <1>2, <1>3, <1>4 DEF ToldIInv, ReactionsTold, PinsTold

\* What a connection tells is reactions, or a pin.
LEMMA HandsTell ==
  ASSUME ToldTypes, NEW f \in Fans, hands[f] # None
  PROVE  /\ hands[f] \in Frames /\ hands[f].kind \in {"reactions", "pin"} /\ f \in Holding(hands[f].kind)
         /\ hands[f].kind = "reactions" => hands[f].seen \subseteq Fans
         /\ hands[f].kind = "pin" => hands[f].seen \in BOOLEAN
<1>1. hands[f] \in Frames
  BY DEF ToldTypes
<1>2. f \in Holding(hands[f].kind)
  BY DEF Holding
<1> QED BY <1>1, <1>2 DEF Frames

\* A connection that has changed something holds what it is to tell.
LEMMA AlterHolds ==
  ASSUME ToldIInv, NEW f \in Fans, NEW frame \in Frames, Alter(f, frame)
  PROVE  /\ hands' = [hands EXCEPT ![f] = frame] /\ hands' \in [Fans -> {None} \cup Frames]
         /\ changes \in Nat /\ changes' = changes + 1 /\ changes' \in 0..MaxChanges
         /\ Holding(frame.kind)' = Holding(frame.kind) \cup {f} /\ \A kind : f \notin Holding(kind)
         /\ \A kind : kind # frame.kind => Holding(kind)' = Holding(kind)
         /\ unsure' \subseteq {"reactions", "pin"}
         /\ \A kind : kind # frame.kind /\ kind \notin unsure' => kind \notin unsure
         /\ frame.kind \notin unsure' => Holding(frame.kind) = {}
         /\ UNCHANGED <<wire, worn>>
<1>1. /\ changes < MaxChanges /\ changes' = changes + 1 /\ hands[f] = None /\ hands' = [hands EXCEPT ![f] = frame]
      /\ unsure' = IF \E g \in Fans \ {f} : hands[g] # None /\ hands[g].kind = frame.kind
                   THEN unsure \cup {frame.kind} ELSE unsure \ {frame.kind}
      /\ UNCHANGED <<wire, worn>>
  BY DEF Alter
<1>2. ToldTypes /\ MaxChanges \in Nat /\ frame # None /\ frame.kind \in {"reactions", "pin"}
  BY MarksAssumption DEF ToldIInv, Frames
<1>3. changes \in Nat /\ changes' \in 0..MaxChanges
  BY <1>1, <1>2 DEF ToldTypes
<1>4. hands' \in [Fans -> {None} \cup Frames] /\ hands'[f] = frame /\ \A g \in Fans : g # f => hands'[g] = hands[g]
  BY <1>1, <1>2 DEF ToldTypes
<1>5. Holding(frame.kind)' = Holding(frame.kind) \cup {f} /\ \A kind : f \notin Holding(kind)
  BY <1>1, <1>2, <1>4 DEF Holding
<1>6. \A kind : kind # frame.kind => Holding(kind)' = Holding(kind)
  BY <1>1, <1>4 DEF Holding
<1>7. unsure' \subseteq {"reactions", "pin"} /\ \A kind : kind # frame.kind /\ kind \notin unsure' => kind \notin unsure
  BY <1>1, <1>2 DEF ToldTypes
<1>8. frame.kind \notin unsure' => Holding(frame.kind) = {}
  BY <1>1 DEF Holding
<1> QED BY <1>1, <1>3, <1>4, <1>5, <1>6, <1>7, <1>8

\* What is told later stays told.
LEMMA ReactionsAside ==
  ASSUME ToldIInv, UNCHANGED <<reacted, wire>>, worn'.map = worn.map, worn'.carried = worn.carried,
         "reactions" \notin unsure' => "reactions" \notin unsure,
         Holding("reactions")' = Holding("reactions"), \A f \in Holding("reactions") : hands'[f] = hands[f]
  PROVE  ReactionsTold'
<1>1. ReactionsTold
  BY DEF ToldIInv
<1> QED BY <1>1 DEF ReactionsTold, ShownReactions

LEMMA PinsAside ==
  ASSUME ToldIInv, UNCHANGED pinned, worn'.pins = worn.pins, changes \in Nat, changes' \in {changes, changes + 1},
         "pin" \notin unsure' => "pin" \notin unsure,
         Holding("pin")' = Holding("pin"), \A f \in Holding("pin") : hands'[f] = hands[f]
  PROVE  PinsTold' /\ PinsCounted'
<1>1. PinsTold /\ PinsCounted /\ worn.pins \in Nat
  BY DEF ToldIInv, ToldTypes
<1>2. Cardinality(Holding("pin")) \in Nat
  BY <1>1, FS_CardinalityType DEF PinsCounted
<1>3. PinsTold'
  BY <1>1 DEF PinsTold
<1>4. PinsCounted'
  BY <1>1, <1>2 DEF PinsCounted
<1> QED BY <1>3, <1>4

LEMMA ToggleReactionKeeps ==
  ASSUME ToldIInv, NEW f \in Fans, ToggleReaction(f)
  PROVE  ToldIInv'
<1> DEFINE frame == [kind |-> "reactions", seen |-> reacted']
<1>1. ToldTypes /\ reacted' \subseteq Fans /\ pinned' = pinned /\ Alter(f, frame)
  BY DEF ToldIInv, ToldTypes, ToggleReaction
<1>2. frame \in Frames /\ frame.kind = "reactions" /\ frame.seen = reacted'
  BY <1>1 DEF Frames
<1> HIDE DEF frame
<1>3. /\ hands' = [hands EXCEPT ![f] = frame] /\ hands' \in [Fans -> {None} \cup Frames]
      /\ changes \in Nat /\ changes' = changes + 1 /\ changes' \in 0..MaxChanges
      /\ Holding("reactions")' = Holding("reactions") \cup {f} /\ \A kind : f \notin Holding(kind)
      /\ Holding("pin")' = Holding("pin")
      /\ unsure' \subseteq {"reactions", "pin"}
      /\ "pin" \notin unsure' => "pin" \notin unsure
      /\ "reactions" \notin unsure' => Holding("reactions") = {}
      /\ UNCHANGED <<wire, worn>>
  BY <1>1, <1>2, AlterHolds
<1>4. hands'[f] = frame /\ \A g \in Fans : g # f => hands'[g] = hands[g]
  BY <1>1, <1>3 DEF ToldTypes
<1>5. ToldTypes'
  BY <1>1, <1>3 DEF ToldTypes
<1>6. ReactionsTold'
  BY <1>2, <1>3, <1>4 DEF ReactionsTold
<1>7. \A g \in Holding("pin") : hands'[g] = hands[g]
  BY <1>3, <1>4 DEF Holding
<1>8. PinsTold' /\ PinsCounted'
  BY <1>1, <1>3, <1>7, PinsAside
<1> QED BY <1>5, <1>6, <1>8 DEF ToldIInv

\* A pin, or an unpin.
LEMMA PinKeeps ==
  ASSUME ToldIInv, NEW f \in Fans, NEW is \in BOOLEAN, pinned' = is, Alter(f, [kind |-> "pin", seen |-> is]), reacted' = reacted
  PROVE  ToldIInv'
<1> DEFINE frame == [kind |-> "pin", seen |-> is]
<1>1. ToldTypes /\ Alter(f, frame) /\ PinsCounted
  BY DEF ToldIInv
<1>2. frame \in Frames /\ frame.kind = "pin" /\ frame.seen = pinned'
  BY <1>1 DEF Frames
<1> HIDE DEF frame
<1>3. /\ hands' = [hands EXCEPT ![f] = frame] /\ hands' \in [Fans -> {None} \cup Frames]
      /\ changes \in Nat /\ changes' = changes + 1 /\ changes' \in 0..MaxChanges
      /\ Holding("pin")' = Holding("pin") \cup {f} /\ \A kind : f \notin Holding(kind)
      /\ Holding("reactions")' = Holding("reactions")
      /\ unsure' \subseteq {"reactions", "pin"}
      /\ "reactions" \notin unsure' => "reactions" \notin unsure
      /\ "pin" \notin unsure' => Holding("pin") = {}
      /\ UNCHANGED <<wire, worn>>
  BY <1>1, <1>2, AlterHolds
<1>4. hands'[f] = frame /\ \A g \in Fans : g # f => hands'[g] = hands[g]
  BY <1>1, <1>3 DEF ToldTypes
<1>5. ToldTypes'
  BY <1>1, <1>3 DEF ToldTypes
<1>6. PinsTold'
  BY <1>2, <1>3, <1>4 DEF PinsTold
<1>7. PinsCounted'
  <2>1. /\ IsFiniteSet(Holding("pin")) /\ worn.pins + Cardinality(Holding("pin")) <= changes
        /\ worn.pins \in Nat /\ Cardinality(Holding("pin")) \in Nat
    BY <1>1, FS_CardinalityType DEF PinsCounted, ToldTypes
  <2>2. IsFiniteSet(Holding("pin") \cup {f}) /\ Cardinality(Holding("pin") \cup {f}) = Cardinality(Holding("pin")) + 1
    BY <1>3, <2>1, FS_AddElement
  <2>3. IsFiniteSet(Holding("pin")') /\ Cardinality(Holding("pin")') = Cardinality(Holding("pin")) + 1
    BY <1>3, <2>2
  <2> QED BY <1>3, <2>1, <2>3 DEF PinsCounted
<1>8. \A g \in Holding("reactions") : hands'[g] = hands[g]
  BY <1>3, <1>4 DEF Holding
<1>9. ReactionsTold'
  BY <1>3, <1>8, ReactionsAside
<1> QED BY <1>5, <1>6, <1>7, <1>9 DEF ToldIInv

\* Reactions go from the connection into the channel.
LEMMA OfferReactionsKeeps ==
  ASSUME ToldIInv, NEW f \in Fans, OfferReactions(f)
  PROVE  ToldIInv'
<1>1. /\ ToldTypes /\ ReactionsTold /\ hands[f] # None /\ hands[f].kind = "reactions"
      /\ hands' = [hands EXCEPT ![f] = None]
      /\ IF Len(wire) < Room THEN wire' = Append(wire, hands[f].seen) /\ unsure' = unsure
         ELSE wire' = wire /\ unsure' = unsure \cup {"reactions"}
      /\ UNCHANGED <<reacted, pinned, changes, worn>>
  BY DEF ToldIInv, OfferReactions
<1>2. f \in Holding("reactions") /\ f \notin Holding("pin") /\ hands[f].seen \subseteq Fans
  <2>1. f \in Holding("reactions") /\ hands[f].seen \subseteq Fans
    BY <1>1, HandsTell
  <2> QED BY <1>1, <2>1 DEF Holding
<1>3. /\ hands' \in [Fans -> {None} \cup Frames] /\ hands'[f] = None
      /\ \A g \in Fans : g # f => hands'[g] = hands[g]
  BY <1>1 DEF ToldTypes
<1>4. /\ Holding("reactions")' = Holding("reactions") \ {f} /\ Holding("pin")' = Holding("pin")
      /\ \A g \in Holding("pin") : hands'[g] = hands[g]
  BY <1>1, <1>2, <1>3 DEF Holding
<1>5. changes \in Nat /\ Room \in Nat /\ Len(wire) \in Nat /\ wire \in Seq(SUBSET Fans)
  BY <1>1, MarksAssumption DEF ToldTypes
<1>6. wire' \in Seq(SUBSET Fans) /\ Len(wire') <= Room /\ unsure' \subseteq {"reactions", "pin"}
  <2>1. CASE Len(wire) < Room
    <3>1. wire' = Append(wire, hands[f].seen) /\ unsure' = unsure
      BY <1>1, <2>1
    <3>2. wire' \in Seq(SUBSET Fans) /\ Len(wire') = Len(wire) + 1
      BY <1>2, <1>5, <3>1
    <3> QED BY <1>1, <1>5, <2>1, <3>1, <3>2 DEF ToldTypes
  <2>2. CASE ~(Len(wire) < Room)
    BY <1>1, <2>2 DEF ToldTypes
  <2> QED BY <2>1, <2>2
<1>7. ToldTypes'
  BY <1>1, <1>3, <1>6 DEF ToldTypes
<1>8. ReactionsTold'
  <2> SUFFICES ASSUME "reactions" \notin unsure' PROVE ReactionsTold'
    BY DEF ReactionsTold
  <2>1. /\ "reactions" \notin unsure /\ wire' = Append(wire, hands[f].seen) /\ hands[f].seen = reacted
        /\ \A g \in Holding("reactions") : g = f
    BY <1>1, <1>2 DEF ReactionsTold
  <2>2. Holding("reactions")' = {}
    BY <1>4, <2>1
  <2>3. wire' # <<>> /\ wire'[Len(wire')] = reacted'
    BY <1>1, <1>2, <1>5, <2>1, LastOf
  <2> QED BY <2>2, <2>3 DEF ReactionsTold
<1>9. PinsTold' /\ PinsCounted'
  BY <1>1, <1>4, <1>5, PinsAside
<1> QED BY <1>7, <1>8, <1>9 DEF ToldIInv

\* The page is told of reactions.
LEMMA DeliverReactionsKeeps ==
  ASSUME ToldIInv, DeliverReactions
  PROVE  ToldIInv'
<1>1. /\ ToldTypes /\ ReactionsTold /\ wire # <<>> /\ wire' = Tail(wire)
      /\ \/ worn' = [worn EXCEPT !.map = Updated(Head(wire))] /\ unsure' = unsure
         \/ worn' = worn /\ unsure' = unsure \cup {"reactions"}
      /\ UNCHANGED <<reacted, pinned, changes, hands>>
  BY DEF ToldIInv, DeliverReactions, serverVars
<1>2. Holding("reactions")' = Holding("reactions") /\ Holding("pin")' = Holding("pin")
  BY <1>1 DEF Holding
<1>3. /\ changes \in Nat /\ Room \in Nat /\ wire \in Seq(SUBSET Fans) /\ reacted \subseteq Fans
      /\ worn \in [map : {None} \cup SUBSET Fans, carried : SUBSET Fans, pins : Nat]
  BY <1>1, MarksAssumption DEF ToldTypes
<1> DEFINE S == SUBSET Fans
<1>4. /\ wire' \in Seq(S) /\ Head(wire) \in S
      /\ IF wire' = <<>> THEN Head(wire) = wire[Len(wire)] ELSE wire'[Len(wire')] = wire[Len(wire)]
  BY <1>1, <1>3, LastOf
<1>5. Len(wire') <= Room
  <2>1. Len(wire') = Len(wire) - 1 /\ Len(wire) \in Nat /\ Len(wire) <= Room
    BY <1>1, <1>3 DEF ToldTypes
  <2> QED BY <1>3, <2>1
<1>6. Updated(Head(wire)) \in {None} \cup S /\ (Head(wire) # {} => Updated(Head(wire)) = Head(wire))
  BY <1>3, <1>4 DEF Updated
<1>7. CASE worn' = [worn EXCEPT !.map = Updated(Head(wire))] /\ unsure' = unsure
  <2>1. /\ worn' \in [map : {None} \cup S, carried : S, pins : Nat]
        /\ worn'.map = Updated(Head(wire)) /\ worn'.pins = worn.pins
    <3> DEFINE m == Updated(Head(wire))
    <3>1. m \in {None} \cup S /\ worn' = [worn EXCEPT !.map = m]
      BY <1>6, <1>7
    <3> HIDE DEF m
    <3>2. [worn EXCEPT !.map = m] \in [map : {None} \cup S, carried : S, pins : Nat]
      BY <1>3, <3>1
    <3>3. worn'.map = m /\ worn'.pins = worn.pins
      BY <1>3, <3>1
    <3> QED BY <3>1, <3>2, <3>3 DEF m
  <2>2. ToldTypes'
    BY <1>1, <1>4, <1>5, <1>7, <2>1 DEF ToldTypes
  <2>3. ReactionsTold'
    <3> SUFFICES ASSUME "reactions" \notin unsure', Holding("reactions") = {}
                 PROVE  IF wire' = <<>> THEN reacted # {} => ShownReactions' = reacted ELSE wire'[Len(wire')] = reacted
      BY <1>1, <1>2, <1>7 DEF ReactionsTold
    <3>1. wire[Len(wire)] = reacted
      BY <1>1, <1>7 DEF ReactionsTold
    <3>2. CASE wire' = <<>>
      <4>1. ASSUME reacted # {}
            PROVE  ShownReactions' = reacted
        <5>1. worn'.map = reacted
          BY <1>4, <1>6, <2>1, <3>1, <3>2, <4>1
        <5>2. None # reacted
          BY <1>3, MarksAssumption
        <5> QED BY <5>1, <5>2 DEF ShownReactions
      <4> QED BY <3>2, <4>1
    <3>3. CASE wire' # <<>>
      BY <1>4, <3>1, <3>3
    <3> QED BY <3>2, <3>3
  <2>4. PinsTold' /\ PinsCounted'
    BY <1>1, <1>2, <1>3, <1>7, <2>1, PinsAside
  <2> QED BY <2>2, <2>3, <2>4 DEF ToldIInv
<1>8. CASE worn' = worn /\ unsure' = unsure \cup {"reactions"}
  <2>1. ToldTypes'
    BY <1>1, <1>4, <1>5, <1>8 DEF ToldTypes
  <2>2. ReactionsTold'
    BY <1>8 DEF ReactionsTold
  <2>3. PinsTold' /\ PinsCounted'
    BY <1>1, <1>2, <1>3, <1>8, PinsAside
  <2> QED BY <2>1, <2>2, <2>3 DEF ToldIInv
<1> QED BY <1>1, <1>7, <1>8

\* The page is told of a pin.
LEMMA TellPinKeeps ==
  ASSUME ToldIInv, NEW f \in Fans, TellPin(f)
  PROVE  ToldIInv'
<1>1. /\ ToldTypes /\ ReactionsTold /\ PinsTold /\ PinsCounted /\ hands[f] # None /\ hands[f].kind = "pin"
      /\ hands' = [hands EXCEPT ![f] = None]
      /\ \/ worn' = [worn EXCEPT !.pins = Pinned(hands[f].seen)] /\ unsure' = unsure
         \/ worn' = worn /\ unsure' = unsure \cup {"pin"}
      /\ UNCHANGED <<reacted, pinned, changes, wire>>
  BY DEF ToldIInv, TellPin
<1>2. f \in Holding("pin") /\ f \notin Holding("reactions") /\ hands[f].seen \in BOOLEAN
  <2>1. f \in Holding("pin") /\ hands[f].seen \in BOOLEAN
    BY <1>1, HandsTell
  <2> QED BY <1>1, <2>1 DEF Holding
<1>3. /\ hands' \in [Fans -> {None} \cup Frames] /\ hands'[f] = None
      /\ \A g \in Fans : g # f => hands'[g] = hands[g]
  BY <1>1 DEF ToldTypes
<1>4. /\ Holding("pin")' = Holding("pin") \ {f} /\ Holding("reactions")' = Holding("reactions")
      /\ \A g \in Holding("reactions") : hands'[g] = hands[g]
  BY <1>1, <1>2, <1>3 DEF Holding
<1>5. changes \in Nat /\ worn \in [map : {None} \cup SUBSET Fans, carried : SUBSET Fans, pins : Nat]
  BY <1>1 DEF ToldTypes
<1>6. /\ IsFiniteSet(Holding("pin")') /\ Cardinality(Holding("pin")') \in Nat
      /\ Cardinality(Holding("pin")') = Cardinality(Holding("pin")) - 1
      /\ worn.pins + Cardinality(Holding("pin")) <= changes /\ worn.pins \in Nat /\ Cardinality(Holding("pin")) \in Nat
  <2>1. /\ IsFiniteSet(Holding("pin")) /\ worn.pins + Cardinality(Holding("pin")) <= changes /\ worn.pins \in Nat
        /\ Cardinality(Holding("pin")) \in Nat
    BY <1>1, <1>5, FS_CardinalityType DEF PinsCounted
  <2>2. /\ IsFiniteSet(Holding("pin") \ {f})
        /\ Cardinality(Holding("pin") \ {f}) = Cardinality(Holding("pin")) - 1
    BY <1>2, <2>1, FS_RemoveElement
  <2>3. Cardinality(Holding("pin") \ {f}) \in Nat
    BY <2>2, FS_CardinalityType
  <2> QED BY <1>4, <2>1, <2>2, <2>3
<1>7. CASE worn' = [worn EXCEPT !.pins = Pinned(hands[f].seen)] /\ unsure' = unsure
  <2>1. Pinned(hands[f].seen) \in {0, worn.pins + 1} /\ (~hands[f].seen => Pinned(hands[f].seen) = 0)
    BY <1>2 DEF Pinned
  <2>2. /\ worn' \in [map : {None} \cup SUBSET Fans, carried : SUBSET Fans, pins : Nat]
        /\ worn'.map = worn.map /\ worn'.carried = worn.carried /\ worn'.pins = Pinned(hands[f].seen)
    <3> DEFINE m == Pinned(hands[f].seen)
    <3>1. m \in Nat /\ worn' = [worn EXCEPT !.pins = m]
      BY <1>6, <1>7, <2>1
    <3> HIDE DEF m
    <3>2. [worn EXCEPT !.pins = m] \in [map : {None} \cup SUBSET Fans, carried : SUBSET Fans, pins : Nat]
      BY <1>5, <3>1
    <3>3. worn'.map = worn.map /\ worn'.carried = worn.carried /\ worn'.pins = m
      BY <1>5, <3>1
    <3> QED BY <3>1, <3>2, <3>3 DEF m
  <2>3. ToldTypes'
    BY <1>1, <1>3, <1>7, <2>2 DEF ToldTypes
  <2>4. ReactionsTold'
    BY <1>1, <1>4, <1>7, <2>2, ReactionsAside
  <2>5. PinsTold'
    <3> SUFFICES ASSUME "pin" \notin unsure PROVE PinsTold'
      BY <1>7 DEF PinsTold
    <3>1. hands[f].seen = pinned /\ \A g \in Holding("pin") : g = f
      BY <1>1, <1>2 DEF PinsTold
    <3>2. Holding("pin")' = {}
      BY <1>4, <3>1
    <3>3. worn'.pins > 0 => pinned'
      BY <1>1, <1>2, <2>1, <2>2, <3>1
    <3> QED BY <3>2, <3>3 DEF PinsTold
  <2>6. PinsCounted'
    <3>1. worn'.pins \in {0, worn.pins + 1}
      BY <2>1, <2>2
    <3>2. worn'.pins + Cardinality(Holding("pin")') <= changes
      BY <1>5, <1>6, <3>1
    <3> QED BY <1>1, <1>6, <3>2 DEF PinsCounted
  <2> QED BY <2>3, <2>4, <2>5, <2>6 DEF ToldIInv
<1>8. CASE worn' = worn /\ unsure' = unsure \cup {"pin"}
  <2>1. ToldTypes'
    BY <1>1, <1>3, <1>8 DEF ToldTypes
  <2>2. ReactionsTold'
    BY <1>1, <1>4, <1>8, ReactionsAside
  <2>3. PinsTold'
    BY <1>8 DEF PinsTold
  <2>4. PinsCounted'
    <3>1. worn.pins + Cardinality(Holding("pin")') <= changes
      BY <1>5, <1>6
    <3> QED BY <1>1, <1>6, <1>8, <3>1 DEF PinsCounted
  <2> QED BY <2>1, <2>2, <2>3, <2>4 DEF ToldIInv
<1> QED BY <1>1, <1>7, <1>8

LEMMA ToldStay ==
  ASSUME ToldIInv, UNCHANGED <<serverVars, wire, worn, unsure>>
  PROVE  ToldIInv'
<1>1. UNCHANGED <<reacted, pinned, changes, hands, wire, worn, unsure>>
  BY DEF serverVars
<1>2. ToldTypes' /\ Holding("reactions")' = Holding("reactions") /\ Holding("pin")' = Holding("pin")
  BY <1>1 DEF ToldIInv, ToldTypes, Holding
<1> QED BY <1>1, <1>2 DEF ToldIInv, ReactionsTold, PinsTold, PinsCounted, ShownReactions

\* Who logs in again gets the messages as they are, and an empty pin bar.
LEMMA ToldLogOut ==
  ASSUME ToldIInv, LogOutAndIn
  PROVE  ToldIInv'
<1>1. /\ worn' = [map |-> None, carried |-> reacted, pins |-> 0]
      /\ UNCHANGED <<reacted, pinned, changes, hands, wire, unsure>>
  BY DEF LogOutAndIn, serverVars
<1>2. ToldTypes /\ ReactionsTold /\ PinsTold /\ PinsCounted
  BY DEF ToldIInv
<1>3. ToldTypes' /\ Holding("reactions")' = Holding("reactions") /\ Holding("pin")' = Holding("pin") /\ worn'.pins = 0
  BY <1>1, <1>2 DEF ToldTypes, Holding
<1>4. ReactionsTold'
  BY <1>1, <1>2, <1>3 DEF ReactionsTold, ShownReactions
<1>5. PinsTold'
  BY <1>1, <1>2, <1>3 DEF PinsTold
<1>6. PinsCounted'
  <2>1. worn.pins \in Nat /\ changes \in Nat /\ Cardinality(Holding("pin")) \in Nat
        /\ worn.pins + Cardinality(Holding("pin")) <= changes
    BY <1>2, FS_CardinalityType DEF PinsCounted, ToldTypes
  <2>2. 0 + Cardinality(Holding("pin")) <= changes
    BY <2>1
  <2> QED BY <1>1, <1>2, <1>3, <2>2 DEF PinsCounted
<1> QED BY <1>3, <1>4, <1>5, <1>6 DEF ToldIInv

-----------------------------------------------------------------------------
LEMMA MarksStart == MarksInit /\ space = "public" => MarksIInv
BY PreviewStart, ToldStart DEF MarksIInv

LEMMA MarksStep ==
  ASSUME MarksIInv, MarksNext, UNCHANGED space, space \in {"public", "bot"}
  PROVE  MarksIInv'
<1>1. PreviewIInv /\ ToldIInv
  BY DEF MarksIInv
<1>2. CASE \/ \E url \in Urls \cup {None} : Edit(url)
           \/ FiveMinutesPass \/ Render \/ Fetch \/ \E answer \in {"error", "empty", "success"} : FetchAnswers(answer)
  <2>1. UNCHANGED <<serverVars, wire, worn, unsure>>
    BY <1>2 DEF Edit, FiveMinutesPass, Render, Fetch, FetchAnswers, PreviewBecomes
  <2>2. PreviewIInv'
    BY <1>1, <1>2, PreviewStep
  <2>3. ToldIInv'
    BY <1>1, <2>1, ToldStay
  <2> QED BY <2>2, <2>3 DEF MarksIInv
<1>3. CASE \/ \E f \in Fans : ToggleReaction(f) \/ Pin(f) \/ Unpin(f) \/ OfferReactions(f) \/ TellPin(f)
           \/ DeliverReactions
  <2>1. UNCHANGED previewVars
    BY <1>3 DEF ToggleReaction, Pin, Unpin, OfferReactions, TellPin, DeliverReactions, Alter
  <2>2. PreviewIInv'
    BY <1>1, <2>1, PreviewStay
  <2>3. ASSUME NEW f \in Fans, Pin(f) \/ Unpin(f)
        PROVE  ToldIInv'
    <3>1. CASE Pin(f)
      BY <1>1, <3>1, PinKeeps DEF Pin
    <3>2. CASE Unpin(f)
      BY <1>1, <3>2, PinKeeps DEF Unpin
    <3> QED BY <2>3, <3>1, <3>2
  <2>4. ToldIInv'
    BY <1>1, <1>3, <2>3, ToggleReactionKeeps, OfferReactionsKeeps, TellPinKeeps, DeliverReactionsKeeps
  <2> QED BY <2>2, <2>4 DEF MarksIInv
<1>4. CASE Translate \/ \E edits \in translating : TranslateResult(edits)
  <2>1. UNCHANGED previewVars /\ UNCHANGED <<serverVars, wire, worn, unsure>>
    BY <1>4 DEF Translate, TranslateResult
  <2> QED BY <1>1, <2>1, PreviewStay, ToldStay DEF MarksIInv
<1> QED BY <1>2, <1>3, <1>4 DEF MarksNext

LEMMA MarksStay ==
  ASSUME MarksIInv, UNCHANGED <<marksVars, space>>
  PROVE  MarksIInv'
<1>1. UNCHANGED <<previewVars, space>> /\ UNCHANGED <<serverVars, wire, worn, unsure>>
  BY DEF marksVars, previewVars, serverVars
<1> QED BY <1>1, PreviewStay, ToldStay DEF MarksIInv

LEMMA MarksSpace ==
  ASSUME MarksIInv, HandleSpaceSelect, space \in {"public", "bot"}
  PROVE  MarksIInv'
<1>1. /\ UNCHANGED <<body, old>> /\ UNCHANGED <<serverVars, wire, worn, unsure>> /\ space' \in {"public", "bot"}
      /\ preview' = IF space' = "public" THEN Mounted(body.url) ELSE None
  BY DEF HandleSpaceSelect
<1> QED BY <1>1, PreviewMounts, ToldStay DEF MarksIInv

LEMMA MarksLogOut ==
  ASSUME MarksIInv, LogOutAndIn, space \in {"public", "bot"}
  PROVE  MarksIInv'
<1>1. /\ UNCHANGED <<body, old>> /\ space' \in {"public", "bot"}
      /\ preview' = IF space' = "public" THEN Mounted(body.url) ELSE None
  BY DEF LogOutAndIn
<1> QED BY <1>1, PreviewMounts, ToldLogOut DEF MarksIInv

\* What is not held, nor in the channel, is shown.
LEMMA MarksFollow == MarksIInv => MarksInv
<1> SUFFICES ASSUME MarksIInv PROVE MarksInv
  OBVIOUS
<1>1. PreviewIInv /\ ToldTypes /\ ReactionsTold /\ PinsTold /\ PinsCounted
  BY DEF MarksIInv, ToldIInv
<1>2. worn.pins \in 0..MaxChanges
  <2>1. /\ Cardinality(Holding("pin")) \in Nat /\ worn.pins + Cardinality(Holding("pin")) <= changes
        /\ worn.pins \in Nat /\ changes \in Nat /\ changes <= MaxChanges /\ MaxChanges \in Nat
    BY <1>1, FS_CardinalityType, MarksAssumption DEF PinsCounted, ToldTypes
  <2>2. worn.pins <= MaxChanges
    BY <2>1
  <2> QED BY <2>1, <2>2
<1>3. ShownReactions \subseteq Fans
  BY <1>1 DEF ToldTypes, ShownReactions
<1>4. MarksTypeOK
  BY <1>1, <1>2, <1>3 DEF MarksTypeOK, PreviewIInv, ToldTypes, Bodies, Previews
<1>5. \A kind : Quiet(kind) => kind \notin unsure /\ wire = <<>> /\ Holding(kind) = {}
  BY DEF Quiet, Holding
<1>6. ReactionsSettle
  BY <1>1, <1>5 DEF ReactionsSettle, ReactionsTold
<1>7. PinsSettle
  BY <1>1, <1>5 DEF PinsSettle, PinsTold
<1> QED BY <1>1, <1>4, <1>6, <1>7 DEF MarksInv, PreviewIInv

-----------------------------------------------------------------------------
(* The page                                                                *)

LEMMA Starts == Init => IInv
BY StreamsStart, PollsStart, NoticesStart, PeopleStart, MarksStart DEF Init, IInv

\* A step of one part leaves the others as they are.
LEMMA StepsOfParts ==
  ASSUME IInv,
         \/ StreamsNext /\ UNCHANGED <<pollVars, noticeVars, peopleVars, marksVars, space>>
         \/ PollsNext /\ UNCHANGED <<streamVars, noticeVars, peopleVars, marksVars, space>>
         \/ NoticesNext /\ UNCHANGED <<streamVars, pollVars, peopleVars, marksVars, space>>
         \/ PeopleNext /\ UNCHANGED <<streamVars, pollVars, noticeVars, marksVars, space>>
         \/ MarksNext /\ UNCHANGED <<streamVars, pollVars, noticeVars, peopleVars, space>>
         \/ UNCHANGED <<streamVars, pollVars, noticeVars, peopleVars, marksVars, space>>
  PROVE  IInv'
<1>1. StreamsIInv /\ PollsIInv /\ NoticesIInv /\ PeopleIInv /\ MarksIInv /\ space \in {"public", "bot"} /\ UNCHANGED space
  BY DEF IInv
<1>2. StreamsIInv'
  BY <1>1, StreamsStep, StreamsStay
<1>3. PollsIInv'
  BY <1>1, PollsStep, PollsStay
<1>4. NoticesIInv'
  BY <1>1, NoticesStep, NoticesStay
<1>5. PeopleIInv'
  BY <1>1, PeopleStep, PeopleStay
<1>6. MarksIInv'
  BY <1>1, MarksStep, MarksStay
<1> QED BY <1>1, <1>2, <1>3, <1>4, <1>5, <1>6 DEF IInv

LEMMA Inductive ==
  ASSUME IInv, [Next]_vars
  PROVE  IInv'
<1>1. StreamsIInv /\ PollsIInv /\ NoticesIInv /\ PeopleIInv /\ MarksIInv /\ space \in {"public", "bot"}
  BY DEF IInv
<1>2. CASE HandleSpaceSelect
  <2>1. UNCHANGED streamVars /\ UNCHANGED peopleVars /\ space' \in {"public", "bot"}
    BY <1>2 DEF HandleSpaceSelect
  <2> QED BY <1>1, <1>2, <2>1, StreamsStay, PollsSpace, NoticesSpace, PeopleStay, MarksSpace DEF IInv
<1>3. CASE LogOutAndIn
  <2>1. space' = space
    BY <1>3 DEF LogOutAndIn
  <2> QED BY <1>1, <1>3, <2>1, StreamsLogOut, PollsLogOut, NoticesLogOut, PeopleLogOut, MarksLogOut DEF IInv
<1>4. CASE UNCHANGED vars
  <2>1. UNCHANGED <<streamVars, pollVars, noticeVars, peopleVars, marksVars, space>>
    BY <1>4 DEF vars
  <2> QED BY <2>1, StepsOfParts
<1> QED BY <1>2, <1>3, <1>4, StepsOfParts DEF Next

\* All of it holds in every state of the page.
THEOREM AlwaysIInv == Spec => []IInv
BY Starts, Inductive, PTL DEF Spec

-----------------------------------------------------------------------------
(* What the page shows                                                     *)

\* A card of a stream stands only where an answer is streamed, or one was cut, and nobody is
\* shown as typing without a timer, whatever frames are lost and however answers overlap.
THEOREM StreamsHold == Spec => []StreamsInv
<1>1. IInv => StreamsInv
  BY DEF IInv, StreamsIInv
<1> QED BY <1>1, AlwaysIInv, PTL

\* As long as answers have not overlapped, a card shows text of the one that runs, without a gap.
THEOREM CardsAreOfOneAnswer == Spec => []TextOfOne
<1>1. IInv => TextOfOne
  BY DEF IInv, StreamsIInv
<1> QED BY <1>1, AlwaysIInv, PTL

\* Each vote of the poll has its voter, however votes from several screens interleave, and
\* a page shows no vote the server does not have, and of a single choice one option selected.
THEOREM PollsHold == Spec => []PollsInv
<1>1. IInv => PollsInv
  BY PollsFollow DEF IInv
<1> QED BY <1>1, AlwaysIInv, PTL

\* In a poll of a single choice, a user has no more votes than the poll was mounted times.
THEOREM VotesAreBounded == Spec => []OneVotePerMount
<1>1. IInv => OneVotePerMount
  BY PollsFollow DEF IInv
<1> QED BY <1>1, AlwaysIInv, PTL

\* When the answers to settings are in, the page has the row of the server and mutes by it,
\* across reconnections and log-outs, and the title counts the mentions that were not seen.
THEOREM NoticesHold == Spec => []NoticesInv
<1>1. IInv => NoticesInv
  BY NoticesFollow DEF IInv
<1> QED BY <1>1, AlwaysIInv, PTL

\* After a tick the roster is right until somebody comes or goes, whatever older ones come late.
THEOREM RosterIsRight == Spec => []PeopleInv
<1>1. IInv => PeopleInv
  BY PeopleFollow DEF IInv
<1> QED BY <1>1, AlwaysIInv, PTL

\* A preview that loads is waited for and is of the link; reactions and the pin settle as
\* the server has them.
THEOREM MarksHold == Spec => []MarksInv
<1>1. IInv => MarksInv
  BY MarksFollow DEF IInv
<1> QED BY <1>1, AlwaysIInv, PTL
====
