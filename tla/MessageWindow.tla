---------------------------- MODULE MessageWindow ----------------------------
(***************************************************************************)
(* The window of messages a page shows: how live messages, echoes of the   *)
(* user's own messages and pages of history are merged into it.            *)
(*                                                                         *)
(* A message is its id, the id its author's page gave it (cid, 0 for none),*)
(* its author and its text.  Ids of the store are positive; an entry the   *)
(* page shows before the server has answered has a negative id.            *)
(***************************************************************************)
EXTENDS Integers, Sequences, FiniteSetsExt, SequencesExt

CONSTANTS
  MessageCap,  \* MESSAGE_CAP (code: 500)
  HistoryCap,  \* HISTORY_CAP (code: 1000)
  TwinScan     \* how far back an echo without cid looks (code: 5)

ASSUME MessageWindowAssumption ==
  /\ MessageCap \in Nat \ {0} /\ HistoryCap \in Nat \ {0} /\ TwinScan \in Nat

Optimistic(m) == m.id < 0

Ids(win) == {win[i].id : i \in DOMAIN win}

\* Where the page shows the message under the id it gave it itself.
OwnEntry(win, m) == {i \in DOMAIN win : m.cid # 0 /\ win[i].id = m.cid}

\* Recent entries that look like the message; close: the ids of the entries whose
\* clock is within five seconds of it.
Twins(win, m, close) ==
  {i \in DOMAIN win :
     /\ i > Len(win) - TwinScan
     /\ Optimistic(win[i]) /\ win[i].id \in close
     /\ win[i].user = m.user /\ win[i].text = m.text}

\* Mutant: no dedupe by id.
PlacedTwice(acc, m, close) ==
  LET own == OwnEntry(acc.win, m) IN
  IF own # {} THEN [acc EXCEPT !.win[Min(own)] = m, !.known = @ \cup {m.id}]
  ELSE [acc EXCEPT !.fresh = Append(@, m), !.known = @ \cup {m.id}]

\* One incoming message: it replaces its own entry, or a twin, or is new.
Placed(acc, m, close) ==
  LET own == OwnEntry(acc.win, m)
      twins == IF Optimistic(m) THEN {} ELSE Twins(acc.win, m, close)
      at == IF own # {} THEN Min(own) ELSE Max(twins)
  IN IF own \cup twins # {}
     THEN [acc EXCEPT !.win[at] = m, !.known = @ \cup {m.id}]
     ELSE IF m.id \in acc.known THEN acc
     ELSE [acc EXCEPT !.fresh = Append(@, m), !.known = @ \cup {m.id}]

PlacedAll(win, incoming, close) ==
  FoldLeft(LAMBDA a, m : Placed(a, m, close),
           [win |-> win, fresh |-> <<>>, known |-> Ids(win)], incoming)

\* The messages that are new to the window (addedCount is their number).
Fresh(win, incoming, close) == PlacedAll(win, incoming, close).fresh

Merge(win, incoming, direction, cap, close) ==
  LET acc == PlacedAll(win, incoming, close)
      all == IF direction = "prepend" THEN acc.fresh \o acc.win ELSE acc.win \o acc.fresh
  IN IF acc.fresh = <<>> \/ Len(all) <= cap THEN all
     ELSE IF direction = "prepend" THEN SubSeq(all, 1, cap)
     ELSE SubSeq(all, Len(all) - cap + 1, Len(all))

-----------------------------------------------------------------------------
(* The actions of the store of the page                                    *)

AddMessage(win, m, close) == Merge(win, <<m>>, "append", MessageCap, close)

SetHistory(win, page, close) == Merge(win, page, "append", MessageCap, close)

PrependHistory(win, page, close) == Merge(win, page, "prepend", HistoryCap, close)

DeleteMessage(win, id) ==
  FoldLeft(LAMBDA kept, m : IF m.id = id THEN kept ELSE Append(kept, m), <<>>, win)

EditMessageInPlace(win, id, text) ==
  [i \in DOMAIN win |-> IF win[i].id = id THEN [win[i] EXCEPT !.text = text] ELSE win[i]]
=============================================================================
