------------------------------ MODULE MCRoomFeed ------------------------------
(* Instances of RoomFeed for TLC. *)
EXTENDS RoomFeed, TLC

CONSTANTS a, b, a1, a2, b1

\* The first user may connect twice.
MCOwner == (a1 :> a) @@ (a2 :> a) @@ (b1 :> b)

MCStored == <<a>>
=============================================================================
