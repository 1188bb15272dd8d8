-------------------------------- MODULE Page ---------------------------------
(* What the parts of the page share: a connection that loses frames, and the space. *)
EXTENDS Naturals

CONSTANTS
  None,
  MaxLost \* bound: frames lost

VARIABLES
  space, \* "public" or "bot"
  lost

\* A connection is down, or a buffer full: the frame does not reach the page.
Lose == lost < MaxLost /\ lost' = lost + 1
Reaches == UNCHANGED lost
==============================================================================
