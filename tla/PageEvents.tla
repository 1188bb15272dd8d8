----------------------------- MODULE PageEvents ------------------------------
(***************************************************************************)
(* What reaches the page over the socket besides the messages of the room, *)
(* composed: streamed answers, typing, a poll, mutes, mentions, the title, *)
(* who is online, and what a message wears.  The space that is shown, and  *)
(* a log-out, touch more than one of the parts.                            *)
(***************************************************************************)
EXTENDS Streams, Polls, Notices, People, Marks

vars == <<streamVars, pollVars, noticeVars, peopleVars, marksVars, space, lost>>

Init == StreamsInit /\ PollsInit /\ NoticesInit /\ PeopleInit /\ MarksInit /\ space = "public" /\ lost = 0

\* The room is left or entered: it is marked as read, and the poll on the screen is a new one.
HandleSpaceSelect ==
  /\ space' = (IF space = "public" THEN "bot" ELSE "public") /\ tab' = MarkRead(tab)
  /\ IF space = "bot" /\ card.there
     THEN card.mounts < MaxMounts /\ card' = [NoCard EXCEPT !.there = TRUE, !.mounts = card.mounts + 1]
     ELSE card' = card
  /\ preview' = (IF space = "public" THEN None ELSE Mounted(body.url))
  /\ UNCHANGED <<streamVars, poll, handlers, asks, shown, prefVars, peopleVars,
                 body, old, serverVars, wire, worn, translationVars, unsure, lost>>

\* Log-out, and a log-in of the same user: reset leaves the private list, and the
\* accumulator, the timers, the last status and the mentions counted are not the store's.
LogOutAndIn ==
  /\ Lose /\ Joined /\ late = <<>>
  /\ cards' = [cards EXCEPT !["public"] = <<>>] /\ typing' = {}
  /\ answers' = [a \in Answers |-> IF a \in PrivateAnswers /\ answers[a].at # "no"
                                   THEN [answers[a] EXCEPT !.at = "over"] ELSE answers[a]]
  /\ cut' = cut \cup {l \in {"private"} : cards[l] # <<>>} /\ mixed' = (mixed \/ acc # <<>> \/ \E a \in Answers : answers[a].at = "runs")
  /\ mute' = NoMute /\ shown' = None /\ card' = [NoCard EXCEPT !.mounts = card.mounts]
  /\ tab' = [tab EXCEPT !.unread = 0, !.mention = FALSE] /\ roster' = {} /\ calm' = FALSE
  /\ worn' = [map |-> None, carried |-> reacted, pins |-> 0] /\ translation' = None
  /\ preview' = IF space = "public" THEN Mounted(body.url) ELSE None
  /\ UNCHANGED <<acc, timers, poll, handlers, asks, people, joins, making, channel, known, before,
                 body, old, serverVars, wire, translating, unsure, space>>

Next ==
  \/ StreamsNext /\ UNCHANGED <<pollVars, noticeVars, peopleVars, marksVars, space>>
  \/ PollsNext /\ UNCHANGED <<streamVars, noticeVars, peopleVars, marksVars, space>>
  \/ NoticesNext /\ UNCHANGED <<streamVars, pollVars, peopleVars, marksVars, space>>
  \/ PeopleNext /\ UNCHANGED <<streamVars, pollVars, noticeVars, marksVars, space>>
  \/ MarksNext /\ UNCHANGED <<streamVars, pollVars, noticeVars, peopleVars, space>>
  \/ HandleSpaceSelect \/ LogOutAndIn

Spec == Init /\ [][Next]_vars

==============================================================================
