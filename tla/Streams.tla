------------------------------- MODULE Streams -------------------------------
(***************************************************************************)
(* Answers of the assistant that are streamed to the room and to one user, *)
(* and the list of users who are typing.  A frame is handled in the step   *)
(* that sends it, or lost: a delay on the wire is a delay of its sender.   *)
(***************************************************************************)
EXTENDS Page, Integers, Sequences, FiniteSets, SequencesExt

CONSTANTS
  PublicAnswers,  \* answers in the room, each asked for by another client
  PrivateAnswers, \* answers to the user of this page
  Bot, Typists,   \* who may be typing, the assistant among them
  MaxChunks       \* bound: chunks of an answer

Answers == PublicAnswers \cup PrivateAnswers
Lists == {"public", "private"}

ASSUME StreamsAssumption ==
  PublicAnswers \cap PrivateAnswers = {} /\ Bot \in Typists /\ {MaxChunks, MaxLost} \subseteq Nat

VARIABLES
  answers,  \* at the server: [at, chunks] of each answer
  acc,      \* text accumulated under "stream-<assistant>": of which answer each chunk is
  cards,    \* the stream's card in the two lists: the text it shows, <<>> if there is none
  typing, timers, \* users shown as typing; those with a timer
  cut, mixed \* for the properties: lists with a card nothing may end; answers have overlapped

streamVars == <<answers, acc, cards, typing, timers, cut, mixed>>

StreamsInit ==
  /\ answers = [a \in Answers |-> [at |-> "no", chunks |-> 0]]
  /\ acc = <<>> /\ cards = [l \in Lists |-> <<>>] /\ typing = {} /\ timers = {}
  /\ cut = {} /\ mixed = FALSE

ListOf(a) == IF a \in PrivateAnswers THEN "private" ELSE "public"
Running(l) == {a \in Answers : answers[a].at = "runs" /\ ListOf(a) = l}

\* typing: the user is shown for ten seconds.
Types(u) == typing' = typing \cup {u} /\ timers' = timers \cup {u}

\* typing_stop
Stops(u) == typing' = typing \ {u} /\ timers' = timers \ {u}

\* Of a private answer the user is asked for one at a time; a public one starts with typing.
Ask(a) ==
  /\ answers[a].at = "no"
  /\ a \in PrivateAnswers => \A b \in PrivateAnswers : answers[b].at \in {"no", "over"}
  /\ answers' = [answers EXCEPT ![a].at = "runs"]
  /\ IF a \in PublicAnswers
     THEN (Reaches /\ Types(Bot)) \/ (Lose /\ UNCHANGED <<typing, timers>>)
     ELSE Reaches /\ UNCHANGED <<typing, timers>>
  /\ mixed' = (mixed \/ \E b \in Answers : answers[b].at = "runs")
  /\ UNCHANGED <<acc, cards, cut>>

\* Mutant: the text is put off though it is the last.
StreamedLate(l, text, done, flush) ==
  LET before == IF acc = <<>> THEN [cards EXCEPT ![l] = <<>>] ELSE cards IN
  IF flush \/ acc = <<>>
  THEN acc' = (IF done THEN <<>> ELSE acc \o text)
       /\ cards' = [before EXCEPT ![l] = IF done THEN <<>> ELSE acc \o text]
  ELSE acc' = acc \o text /\ cards' = before

\* Mutant: the accumulator is kept.
StreamedKept(l, text, done, flush) ==
  LET before == IF acc = <<>> THEN [cards EXCEPT ![l] = <<>>] ELSE cards IN
  /\ acc' = acc \o text
  /\ cards' = CASE done -> [before EXCEPT ![l] = <<>>]
                [] ~done /\ (flush \/ acc = <<>>) -> [before EXCEPT ![l] = acc \o text]
                [] OTHER -> before

\* stream: both lists share the accumulator; its first text shows at once, the
\* later ones every 80 ms.
Streamed(l, text, done, flush) ==
  LET before == IF acc = <<>> THEN [cards EXCEPT ![l] = <<>>] ELSE cards IN
  /\ acc' = IF done THEN <<>> ELSE acc \o text
  /\ cards' = CASE done -> [before EXCEPT ![l] = <<>>]
                [] ~done /\ (flush \/ acc = <<>>) -> [before EXCEPT ![l] = acc \o text]
                [] OTHER -> before

Chunk(a) ==
  /\ answers[a].at = "runs" /\ answers[a].chunks < MaxChunks
  /\ answers' = [answers EXCEPT ![a].chunks = @ + 1]
  /\ \/ /\ Reaches /\ \E flush \in BOOLEAN : Streamed(ListOf(a), <<a>>, FALSE, flush)
        /\ UNCHANGED <<cut, mixed>>
     \/ Lose /\ cut' = cut \cup {ListOf(a)} /\ mixed' = TRUE /\ UNCHANGED <<acc, cards>>
  /\ UNCHANGED <<typing, timers>>

\* The last chunk, of an error, or of an answer that is not empty.
Done(a) ==
  /\ answers[a].at = "runs" /\ answers' = [answers EXCEPT ![a].at = "done"]
  /\ \/ /\ Reaches /\ typing' = typing \ {Bot} /\ cut' = cut \ {ListOf(a)} /\ mixed' = mixed
        /\ \E flush \in BOOLEAN : Streamed(ListOf(a), <<>>, TRUE, flush)
     \/ Lose /\ cut' = cut \cup {ListOf(a)} /\ mixed' = TRUE /\ UNCHANGED <<acc, cards, typing>>
  /\ UNCHANGED <<timers>>

\* A public answer of nothing but blanks ends without a word.
EndsSilently(a) ==
  /\ a \in PublicAnswers /\ answers[a].at = "runs" /\ answers' = [answers EXCEPT ![a].at = "over"]
  /\ cut' = cut \cup {"public"} /\ mixed' = TRUE
  /\ UNCHANGED <<acc, cards, typing, timers, lost>>

\* The message that stays; there is none of a private answer that failed.
Told(a) ==
  /\ answers[a].at = "done"
  /\ answers' = [answers EXCEPT ![a].at = IF a \in PublicAnswers THEN "told" ELSE "over"]
  /\ \/ Reaches /\ typing' = typing \ {Bot}
     \/ IF a \in PrivateAnswers THEN Reaches /\ typing' = typing ELSE Lose /\ typing' = typing
  /\ UNCHANGED <<acc, cards, timers, cut, mixed>>

TypingStops(a) ==
  /\ answers[a].at = "told" /\ answers' = [answers EXCEPT ![a].at = "over"]
  /\ (Reaches /\ Stops(Bot)) \/ (Lose /\ UNCHANGED <<typing, timers>>)
  /\ UNCHANGED <<acc, cards, cut, mixed>>

\* Two minutes after the last text; an answer takes one at most.
Forget ==
  /\ acc # <<>> /\ \A a \in Answers : answers[a].at = "runs" => ~Contains(acc, a)
  /\ acc' = <<>>
  /\ UNCHANGED <<answers, cards, typing, timers, cut, mixed, lost>>

\* Others type, stop, or send their message, which leaves the timer.
SomebodyTypes(u) ==
  /\ u # Bot /\ (Types(u) \/ Stops(u) \/ (typing' = typing \ {u} /\ timers' = timers))
  /\ UNCHANGED <<answers, acc, cards, cut, mixed, lost>>

TypingTimesOut(u) ==
  /\ u \in timers /\ timers' = timers \ {u} /\ typing' = typing \ {u}
  /\ UNCHANGED <<answers, acc, cards, cut, mixed, lost>>

StreamsNext ==
  \/ \E a \in Answers : Ask(a) \/ Chunk(a) \/ Done(a) \/ EndsSilently(a) \/ Told(a) \/ TypingStops(a)
  \/ Forget \/ \E u \in Typists : SomebodyTypes(u) \/ TypingTimesOut(u)

-----------------------------------------------------------------------------
(* Properties                                                              *)

StreamsTypeOK ==
  /\ answers \in [Answers -> [at : {"no", "runs", "done", "told", "over"}, chunks : 0..MaxChunks]]
  /\ acc \in Seq(Answers) /\ cards \in [Lists -> Seq(Answers)]
  /\ typing \subseteq Typists /\ timers \subseteq Typists /\ cut \subseteq Lists /\ mixed \in BOOLEAN

\* A card of a stream stands only in a list an answer is streamed to, however the answers
\* overlap - or the end of one was lost, or never sent, and none has ended there since.
CardsEnd == \A l \in Lists : cards[l] # <<>> => Running(l) # {} \/ l \in cut

\* As long as one answer was streamed at a time, and none was cut, a card shows text
\* of the answer that runs, without a gap.
TextOfOne ==
  ~mixed => \A l \in Lists : cards[l] # <<>> =>
    \E a \in Running(l) : ToSet(cards[l]) = {a} /\ Len(cards[l]) <= answers[a].chunks

\* Nobody is shown as typing whom no timer takes away, whatever frames are lost.
TypingTimed == typing \subseteq timers

\* Nothing of a stream stays at the page: neither its card nor its typing indicator.
StreamsInv == StreamsTypeOK /\ CardsEnd /\ TypingTimed

-----------------------------------------------------------------------------
(* Statements the code does not keep                                       *)

\* Text of a private answer is not shown in the room, nor the other way round.
StreamsApart == \A l \in Lists : \A a \in ToSet(cards[l]) : ListOf(a) = l
==============================================================================
