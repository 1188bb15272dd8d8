------------------------------- MODULE MCPanels -------------------------------
(* Instances of Panels for TLC. *)
EXTENDS Panels, TLC

CONSTANTS q, r, m, n, ann, bob

HitsOf == q :> 2 @@ r :> 1

Symmetry == {f @@ g : f \in Permutations(Messages), g \in Permutations(Users)}

\* Bound: two of the areas of the page are in use at once.
Areas ==
  {a \in {"search", "conv", "thread", "space", "menus"} :
     \/ a = "search" /\ <<search, out>> # <<[open |-> FALSE, query |-> NoQuery, timer |-> Nothing,
          results |-> Nothing, index |-> 0, loading |-> FALSE, error |-> FALSE], <<>>>>
     \/ a = "conv" /\ conv.open
     \/ a = "thread" /\ <<thread, wire>> # <<[parent |-> Nothing, replies |-> Nothing, closing |-> 0], <<>>>>
     \/ a = "space" /\ <<space, user, fetches, private>> # <<"public", Nothing, {}, {}>>
     \/ a = "menus" /\ overlays # {}}

TwoAreas == Cardinality(Areas) <= 2
=============================================================================
