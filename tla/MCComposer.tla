------------------------------ MODULE MCComposer ------------------------------
(* Instances of Composer for TLC. *)
EXTENDS Composer, TLC

CONSTANTS s, t

Symmetry == Permutations(Tokens)

One(b) == IF b THEN 1 ELSE 0

\* Bound: the picker, a composition, the list of names, an answered message, an
\* indicator that missed a change and a second message in the room, one at a time.
OneAside ==
  One(input.picker) + One(input.composing) + One(input.mention) + One(replyTo)
    + One(indicator.missed) + One(Len(room) > 1) <= 1
=============================================================================
