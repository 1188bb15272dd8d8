-------------------------------- MODULE MCLogin --------------------------------
(* Instances of Login for TLC. *)
EXTENDS Login, TLC

CONSTANTS ann, bob, guest, cat

Symmetry == Permutations(Accounts)
=============================================================================
