----------------------------- MODULE MCTranscript -----------------------------
(* Instances of Transcript for TLC. *)
EXTENDS Transcript, TLC

CONSTANTS me, ann

MCAuthor == <<ann, ann, me, ann>>

\* Bound: lost connections, deleted rows and cards of answers together.
Few == drops + cards + Cardinality(gone) <= 2

MCPrivate == <<[id |-> 9, cid |-> 0, user |-> Bot, text |-> "t", time |-> 1]>>
=============================================================================
