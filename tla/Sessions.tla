------------------------------ MODULE Sessions ------------------------------
(***************************************************************************)
(* What the hub promises about sessions: a user has at most one, a login   *)
(* takes it over, and it otherwise ends only by itself or with the server. *)
(***************************************************************************)
CONSTANTS Clients, Users

VARIABLE session  \* the connections that hold the session of a user

Init == session = [u \in Users |-> {}]

\* A connection that holds no session becomes the session of u.
Login(u, c) ==
  /\ \A v \in Users : c \notin session[v]
  /\ session' = [session EXCEPT ![u] = {c}]

Logout(u) == session' = [session EXCEPT ![u] = {}]

CloseAll == session' = [u \in Users |-> {}]

Next ==
  \/ \E u \in Users : Logout(u) \/ \E c \in Clients : Login(u, c)
  \/ CloseAll

Spec == Init /\ [][Next]_session
=============================================================================
