----------------------------- MODULE MCPageEvents -----------------------------
(* Instances of PageEvents for TLC. *)
EXTENDS PageEvents, TLC

CONSTANTS p, q, d, x, y, bob, cat, u, w

Symmetry == {f @@ g : f \in Permutations(PublicAnswers), g \in Permutations(Options)}

\* What a user_status carries guards no step: states that differ in it only are one.
Carried(kind, seen) == IF seen = None \/ kind = "user_status" THEN None # seen ELSE seen.online
Seen == <<streamVars, pollVars, noticeVars, marksVars, space, lost, people, joins, roster, calm,
          [o \in Others |-> <<making[o].next, Carried(making[o].next, making[o].seen)>>],
          [k \in DOMAIN channel |-> <<channel[k].kind, Carried(channel[k].kind, channel[k].seen)>>]>>

One(b) == IF b THEN 1 ELSE 0

Busy ==
  One(timers \ {Bot} # {}) + One(poll # None) + One(pref # None \/ passed) + One(tab # NoTab)
  + One(known # {} \/ calm) + One(changes # 0) + One(\E a \in Answers : answers[a].at # "no")

Wearing == One(body.edits # 0 \/ old) + One(translating # {} \/ translation # None)

\* Bound: one of the parts is in use at a time, where the preview of a link and the translation
\* are one; in the assistant's room it is the poll, the title, or the preview.
OnePart ==
  /\ Busy + Wearing <= 1 \/ Busy = 0
  /\ space = "bot" => Busy + One(translating # {}) <= One(poll # None \/ tab # NoTab)
  \* bounds: requests about the poll that wait, screens of a poll of several choices, which is another's, chunks in all
  /\ Len(asks) <= 2 /\ (poll = None \/ ~poll.multiple \/ (card.mounts <= 1 /\ poll.author = Other))
  /\ answers[p].chunks + answers[q].chunks + answers[d].chunks <= 3
=============================================================================
