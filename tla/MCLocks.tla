------------------------------- MODULE MCLocks -------------------------------
(* Instances of Locks for TLC. *)
EXTENDS Locks, TLC
=============================================================================
