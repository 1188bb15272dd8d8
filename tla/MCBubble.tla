------------------------------- MODULE MCBubble -------------------------------
(* Instances of Bubble for TLC. *)
EXTENDS Bubble, TLC

CONSTANTS a, b

\* What was sent and the answered message guard no step: states that differ in them
\* only are one.
Hands == <<gestures, ghosts>>
===============================================================================
