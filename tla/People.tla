------------------------------- MODULE People --------------------------------
(***************************************************************************)
(* Who is online, as the server knows it and as the page shows it: the     *)
(* frames of a join are made by its connection and wait in the channel of  *)
(* the hub; those of a leave are sent past it.                             *)
(***************************************************************************)
EXTENDS Page, Integers, Sequences, FiniteSets, SequencesExt

CONSTANTS
  Others,   \* the other users
  MaxJoins, \* bound: joins
  MaxQueue  \* capacity of the channel

ASSUME PeopleAssumption == {MaxJoins, MaxQueue} \subseteq Nat

VARIABLES
  people,  \* each is "out", "asked" for, or "in"
  joins,   \* how many there were
  making,  \* what the connections of those who join are to send next, and have read for it
  channel, \* of the hub: frames, [kind, seen]
  known,   \* users the server has seen
  roster,  \* onlineUsers of the page
  before,  \* the last user_status: whom it knew and who was online
  calm     \* for the properties: the page was told of the last coming or going

peopleVars == <<people, joins, making, channel, known, roster, before, calm>>

In == {o \in Others : people[o] = "in"}
Idle == [next |-> "nothing", seen |-> None]
NoStatus == [known |-> {}, online |-> {}]

PeopleInit ==
  /\ people = [o \in Others |-> "out"] /\ joins = 0
  /\ making = [o \in Others |-> Idle] /\ channel = <<>> /\ known = {}
  /\ roster = {} /\ before = NoStatus /\ calm = FALSE

\* Mutant: a roster with as many users is taken for the one that is there.
RosterOfSize(seen) == IF Cardinality(seen) = Cardinality(roster) THEN roster ELSE seen

\* setOnlineUsers
Roster(seen) == seen

\* user_status: kept, to tell next time who has come online.
Status(seen) == before' = seen

\* A join is handed to the hub; the connection goes on at once.  (A user's next connection
\* joins when the one before has sent what it had to.)
Join(o) ==
  /\ people[o] = "out" /\ making[o] = Idle /\ joins < MaxJoins
  /\ people' = [people EXCEPT ![o] = "asked"] /\ joins' = joins + 1
  /\ making' = [making EXCEPT ![o].next = "user_joined"] /\ known' = known \cup {o}
  /\ UNCHANGED <<channel, roster, before, calm, lost>>

Register(o) ==
  /\ people[o] = "asked" /\ people' = [people EXCEPT ![o] = "in"] /\ calm' = FALSE
  /\ UNCHANGED <<joins, making, channel, known, roster, before, lost>>

\* It reads who is online,
Read(o) ==
  /\ making[o].next # "nothing" /\ making[o].seen = None
  /\ making' = [making EXCEPT ![o].seen = [known |-> known, online |-> In]]
  /\ UNCHANGED <<people, joins, channel, known, roster, before, calm, lost>>

\* and puts it into the channel, unless that is full: first the roster, then the status of all.
Broadcast(o) ==
  /\ making[o].seen # None
  /\ channel' = IF Len(channel) = MaxQueue THEN channel
                ELSE Append(channel, [kind |-> making[o].next, seen |-> making[o].seen])
  /\ making' = [making EXCEPT ![o] = IF @.next = "user_joined" THEN [next |-> "user_status", seen |-> None]
                                     ELSE Idle]
  /\ UNCHANGED <<people, joins, known, roster, before, calm, lost>>

Deliver ==
  /\ channel # <<>> /\ channel' = Tail(channel)
  /\ \/ Lose /\ UNCHANGED <<roster, before>>
     \/ Reaches /\ IF Head(channel).kind = "user_joined"
                   THEN roster' = Roster(Head(channel).seen.online) /\ before' = before
                   ELSE Status(Head(channel).seen) /\ roster' = roster
  /\ UNCHANGED <<people, joins, making, known, calm>>

\* No join is to send, or has in the channel, a roster other than this one.
NoneOlder(online) ==
  /\ \A o \in Others : making[o].next = "user_joined" /\ making[o].seen # None => making[o].seen.online = online
  /\ \A k \in DOMAIN channel : channel[k].kind = "user_joined" => channel[k].seen.online = online

\* user_left and user_status, past the channel, perhaps while the join is not through.
Leave(o) ==
  /\ people[o] = "in" /\ people' = [people EXCEPT ![o] = "out"]
  /\ \/ Lose /\ calm' = FALSE /\ UNCHANGED <<roster, before>>
     \/ Reaches /\ calm' = NoneOlder(In \ {o})
        /\ roster' = Roster(In \ {o}) /\ Status([known |-> known, online |-> In \ {o}])
  /\ UNCHANGED <<joins, making, channel, known>>

\* Every 30 seconds.
Tick ==
  /\ \/ Lose /\ UNCHANGED <<roster, calm>>
     \/ Reaches /\ roster' = Roster(In) /\ calm' = NoneOlder(In)
  /\ UNCHANGED <<people, joins, making, channel, known, before>>

PeopleNext ==
  \/ \E o \in Others : Join(o) \/ Register(o) \/ Read(o) \/ Broadcast(o) \/ Leave(o)
  \/ Deliver \/ Tick

-----------------------------------------------------------------------------
(* Properties                                                              *)

PeopleTypeOK ==
  /\ people \in [Others -> {"out", "asked", "in"}] /\ joins \in 0..MaxJoins
  /\ known \subseteq Others /\ roster \subseteq Others /\ before.online \subseteq Others
  /\ \A o \in Others : making[o].next \in {"nothing", "user_joined", "user_status"}
  /\ Len(channel) <= MaxQueue /\ calm \in BOOLEAN

\* Once a leave or the ticker has told the roster, and no older one was on its way, it is
\* right until somebody comes or goes, though joins go on to send theirs: a connection
\* reads who is online when it sends.  (An older one that is delivered later replaces it,
\* until the next tick.)
RosterHeals == calm => roster = In

\* The roster that was told is not disturbed by what joins send later.
PeopleInv == PeopleTypeOK /\ RosterHeals

-----------------------------------------------------------------------------
(* Statements the code does not keep                                       *)

\* Who is on the roster is online, as soon as no frame is on its way.
RosterSettles == channel = <<>> /\ (\A o \in Others : making[o] = Idle) /\ lost = 0 => roster = In

\* A user the page says has come online is online.
AnnouncedIsIn == [][before' # before => (before.known \ before.online) \cap before'.online \subseteq In']_peopleVars
==============================================================================
