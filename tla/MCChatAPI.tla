------------------------------ MODULE MCChatAPI ------------------------------
(* Instances of ChatAPI for TLC. *)
EXTENDS ChatAPI, TLC

Symmetry == Permutations(Names)
=============================================================================
