-------------------------------- MODULE Polls --------------------------------
(***************************************************************************)
(* A poll: the connections that change, read and tell it, and the page     *)
(* that shows it.                                                          *)
(***************************************************************************)
EXTENDS Page, Integers, Sequences, FiniteSets, SequencesExt

CONSTANTS
  Me, Other, \* the clients that vote
  Options,
  MaxMounts  \* bound: how often the poll is put on the screen

Clients == {Me, Other}

AllPolls == [author : Clients, multiple : BOOLEAN, closed : BOOLEAN,
             votes : [Options -> Nat], voters : [Options -> SUBSET Clients]]

ASSUME PollsAssumption ==
  Me # Other /\ None \notin Clients \cup Options \cup AllPolls /\ MaxMounts \in Nat \ {0} /\ MaxLost \in Nat

VARIABLES
  poll,     \* at the server
  handlers, \* what the two connections do with a vote or a closing: [at, seen]
  asks,     \* what this page sent about the poll
  shown,    \* the poll the page knows
  card      \* state of PollMessage

pollVars == <<poll, handlers, asks, shown, card>>

NoVotes == [i \in Options |-> 0]
NoCard == [there |-> FALSE, selected |-> {}, hasVoted |-> FALSE, mounts |-> 0]

PollsInit ==
  /\ poll = None /\ handlers = [c \in Clients |-> [at |-> "idle", seen |-> None]]
  /\ asks = <<>> /\ shown = None /\ card = NoCard

Close == "close"
Set(h, c, at, seen) == [h EXCEPT ![c] = [at |-> at, seen |-> seen]]
VotesOf(p, c) == {i \in Options : c \in p.voters[i]}

CreatePoll(author, multiple) ==
  /\ poll = None
  /\ poll' = [author |-> author, multiple |-> multiple, closed |-> FALSE,
              votes |-> NoVotes, voters |-> [i \in Options |-> {}]]
  /\ \/ /\ Reaches /\ shown' = poll'
        /\ card' = [card EXCEPT !.there = TRUE, !.mounts = IF space = "public" THEN 1 ELSE 0]
     \/ Lose /\ UNCHANGED <<shown, card>>
  /\ UNCHANGED <<handlers, asks>>

\* VotePoll: once for each option; whether the poll is closed is not asked.
Voted(p, i, c) ==
  IF c \in p.voters[i] THEN p ELSE [p EXCEPT !.votes[i] = @ + 1, !.voters[i] = @ \cup {c}]

\* A connection handles one request after the other: it changes the poll,
Change(c, p) ==
  /\ handlers[c].at = "idle" /\ poll # None
  /\ poll' = p /\ handlers' = Set(handlers, c, "changed", None)

\* where a vote may be refused because there were too many, or lost,
HandleVote ==
  /\ asks # <<>> /\ Head(asks) # Close /\ handlers[Me].at = "idle" /\ asks' = Tail(asks)
  /\ Change(Me, Voted(poll, Head(asks), Me)) \/ UNCHANGED <<poll, handlers>>
  /\ UNCHANGED <<shown, card, lost>>

\* Bound: the other user votes once.
OtherVotes(i) ==
  /\ poll # None /\ VotesOf(poll, Other) = {} /\ Change(Other, Voted(poll, i, Other))
  /\ UNCHANGED <<asks, shown, card, lost>>

HandleClose(c) ==
  /\ poll # None /\ poll.author = c /\ Change(c, [poll EXCEPT !.closed = TRUE])
  /\ IF c = Me THEN asks # <<>> /\ Head(asks) = Close /\ asks' = Tail(asks)
     ELSE ~poll.closed /\ asks' = asks
  /\ UNCHANGED <<shown, card, lost>>

\* then reads it,
ReadPoll(c) ==
  /\ handlers[c].at = "changed" /\ handlers' = Set(handlers, c, "read", poll)
  /\ UNCHANGED <<poll, asks, shown, card, lost>>

\* and tells it to all: the page takes whatever comes last.
TellPoll(c) ==
  /\ handlers[c].at = "read" /\ handlers' = Set(handlers, c, "idle", None)
  /\ (Reaches /\ shown' = handlers[c].seen) \/ (Lose /\ shown' = shown)
  /\ UNCHANGED <<poll, asks, card>>

OnScreen == card.there /\ space = "public" /\ shown # None

\* handleOptionClick
Selected(selected, i) ==
  IF ~shown.multiple THEN {i}
  ELSE IF i \in selected \cup VotesOf(shown, Me) THEN selected \ {i} ELSE selected \cup {i}

ClickOption(i) ==
  /\ OnScreen /\ ~shown.closed /\ (card.hasVoted => shown.multiple)
  /\ card' = [card EXCEPT !.selected = Selected(@, i)]
  /\ UNCHANGED <<poll, handlers, asks, shown, lost>>

\* Mutant: that the user has voted is not noted.
AfterVoteAgain(c) == [c EXCEPT !.selected = {}]

AfterVote(c) == [c EXCEPT !.hasVoted = TRUE, !.selected = {}]

\* Mutant: the page shows the vote before the server has it.
ShownOwn == [shown EXCEPT !.voters = [i \in Options |-> IF i \in card.selected THEN @[i] \cup {Me} ELSE @[i]]]

\* Nothing is shown of a vote until the server tells.
ShownAfterVote == shown

\* handleVote: one request for each option, in the order they were selected.
Vote ==
  /\ OnScreen /\ ~shown.closed /\ ~card.hasVoted /\ card.selected # {}
  /\ \E order \in SetToSeqs(card.selected) : asks' = asks \o order
  /\ card' = AfterVote(card) /\ shown' = ShownAfterVote
  /\ UNCHANGED <<poll, handlers, lost>>

ClosePoll ==
  /\ OnScreen /\ ~shown.closed /\ shown.author = Me /\ ~Contains(asks, Close)
  /\ asks' = Append(asks, Close)
  /\ UNCHANGED <<poll, handlers, shown, card, lost>>

PollsNext ==
  \/ \E author \in Clients, multiple \in BOOLEAN : CreatePoll(author, multiple)
  \/ HandleVote \/ \E c \in Clients : HandleClose(c) \/ ReadPoll(c) \/ TellPoll(c)
  \/ \E i \in Options : OtherVotes(i) \/ ClickOption(i)
  \/ Vote \/ ClosePoll

-----------------------------------------------------------------------------
(* Properties                                                              *)

\* In a poll with a single choice one option is selected at most.
PollsTypeOK ==
  /\ poll \in AllPolls \cup {None} /\ shown \in AllPolls \cup {None} /\ asks \in Seq(Options \cup {Close})
  /\ handlers \in [Clients -> [at : {"idle", "changed", "read"}, seen : AllPolls \cup {None}]]
  /\ card \in [there : BOOLEAN, selected : SUBSET Options, hasVoted : BOOLEAN, mounts : 0..MaxMounts]
  /\ card.selected # {} => shown.multiple \/ Cardinality(card.selected) = 1

\* Each vote has its voter: none is counted twice, from whatever screens it was sent.
VotesAreVoters == poll # None => \A i \in Options : poll.votes[i] = Cardinality(poll.voters[i])

\* Where one option can be chosen, one is voted for each time the poll was on the screen.
OneVotePerMount ==
  poll # None /\ ~poll.multiple => Cardinality(VotesOf(poll, Me)) <= card.mounts

\* What the page shows has happened at the server, refused and lost votes included.
ShownHappened ==
  shown # None =>
    /\ \A i \in Options : shown.voters[i] \subseteq poll.voters[i] /\ shown.votes[i] <= poll.votes[i]
    /\ shown.closed => poll.closed

\* Votes are counted once, and no page shows more than there is.
PollsInv == PollsTypeOK /\ VotesAreVoters /\ ShownHappened

-----------------------------------------------------------------------------
(* Statements the code does not keep                                       *)

\* One cannot vote twice in a poll with a single choice.
OneVote == poll # None /\ ~poll.multiple => Cardinality(VotesOf(poll, Me)) <= 1

\* The results of a closed poll are final.
ClosedIsFinal == [][poll # None /\ poll.closed => poll'.votes = poll.votes]_pollVars

\* A poll that is shown as closed is not shown as open again.
ClosedStays == [][shown # None /\ shown.closed /\ shown' # None => shown'.closed]_pollVars

\* When nothing about it is on its way, and nothing was lost, the page shows the poll as it is.
PollSettles ==
  card.there /\ lost = 0 /\ (\A c \in Clients : handlers[c].at = "idle") => shown = poll
==============================================================================
