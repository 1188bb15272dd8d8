-------------------------------- MODULE Marks --------------------------------
(***************************************************************************)
(* What a message of another user wears at the page: the preview of its    *)
(* link, reactions, its pin, its translation.  Reactions are told through  *)
(* the channel of the hub, a pin past it.                                  *)
(***************************************************************************)
EXTENDS Page, Integers, Sequences, FiniteSets

CONSTANTS
  Urls,
  Fans,        \* clients that react to the message, and pin it
  MaxEdits,    \* bound: edits of the message
  MaxChanges,  \* bound: reactions and pins
  Room         \* capacity of the channel

\* What a connection tells of the message
Frames == [kind : {"reactions"}, seen : SUBSET Fans] \cup [kind : {"pin"}, seen : BOOLEAN]

ASSUME MarksAssumption ==
  /\ None \notin Urls \cup Frames /\ \A fans \in SUBSET Fans : None # fans
  /\ {MaxEdits, MaxChanges, Room} \subseteq Nat

VARIABLES
  body,        \* the message: [url, edits]
  old,         \* it is older than five minutes
  preview,     \* LinkPreview: [url, isTooOld, status, pending], None if it is not mounted
  reacted, pinned, changes, \* at the server: who reacted; is it pinned; how often that changed
  hands, wire, \* what a connection is to tell, and the reactions in the channel
  worn,        \* at the page: reactions of the map, and of the message; entries of the pin bar
  translating, translation, \* edits of which a translation was asked for, is shown
  unsure       \* for the properties: kinds whose last change was overtaken, or lost

marksVars == <<body, old, preview, reacted, pinned, changes, hands, wire, worn, translating, translation, unsure>>

\* LinkPreview, mounted under the key of its url
Mounted(url) ==
  IF url = None THEN None
  ELSE [url |-> url, isTooOld |-> old, status |-> IF old THEN "empty" ELSE "loading",
        pending |-> IF old THEN "nothing" ELSE "timer"]

MarksInit ==
  /\ body = [url |-> None, edits |-> 0] /\ old = FALSE /\ preview = Mounted(body.url)
  /\ reacted = {} /\ pinned = FALSE /\ changes = 0
  /\ hands = [f \in Fans |-> None] /\ wire = <<>> /\ worn = [map |-> None, carried |-> {}, pins |-> 0]
  /\ translating = {} /\ translation = None /\ unsure = {}

previewVars == <<body, old, preview>>
serverVars == <<reacted, pinned, changes, hands>>
translationVars == <<translating, translation>>

\* message_edit: the preview stays if its link does.
Edit(url) ==
  /\ body.edits < MaxEdits /\ body' = [url |-> url, edits |-> body.edits + 1]
  /\ preview' = IF space = "public" /\ url # body.url THEN Mounted(url) ELSE preview
  /\ UNCHANGED <<old, serverVars, wire, worn, translationVars, unsure, lost>>

FiveMinutesPass ==
  /\ ~old /\ old' = TRUE
  /\ UNCHANGED <<body, preview, serverVars, wire, worn, translationVars, unsure, lost>>

PreviewBecomes(p) ==
  /\ preview' = p
  /\ UNCHANGED <<body, old, serverVars, wire, worn, translationVars, unsure, lost>>

\* A render after that: the effect runs again, and cancels what was on its way.
Render ==
  /\ preview # None /\ old /\ ~preview.isTooOld
  /\ PreviewBecomes([preview EXCEPT !.isTooOld = TRUE, !.status = "empty", !.pending = "nothing"])

Fetch ==
  /\ preview # None /\ preview.pending = "timer"
  /\ PreviewBecomes([preview EXCEPT !.pending = "answer"])

Answered(p, answer) == [p EXCEPT !.status = answer, !.pending = "nothing"]

FetchAnswers(answer) ==
  /\ preview # None /\ preview.pending = "answer"
  /\ PreviewBecomes(Answered(preview, answer))

\* A connection changes something, and is to tell it with what it has read.
Alter(f, frame) ==
  /\ changes < MaxChanges /\ changes' = changes + 1 /\ hands[f] = None /\ hands' = [hands EXCEPT ![f] = frame]
  /\ unsure' = IF \E g \in Fans \ {f} : hands[g] # None /\ hands[g].kind = frame.kind
               THEN unsure \cup {frame.kind} ELSE unsure \ {frame.kind}
  /\ UNCHANGED <<previewVars, wire, worn, translationVars, lost>>

ToggleReaction(f) ==
  /\ reacted' = IF f \in reacted THEN reacted \ {f} ELSE reacted \cup {f}
  /\ Alter(f, [kind |-> "reactions", seen |-> reacted']) /\ pinned' = pinned

\* A pin that is there is told again.
Pin(f) == pinned' = TRUE /\ Alter(f, [kind |-> "pin", seen |-> TRUE]) /\ reacted' = reacted
Unpin(f) == pinned' = FALSE /\ Alter(f, [kind |-> "pin", seen |-> FALSE]) /\ reacted' = reacted

\* reaction_update to the channel, unless that is full.
OfferReactions(f) ==
  /\ hands[f] # None /\ hands[f].kind = "reactions" /\ hands' = [hands EXCEPT ![f] = None]
  /\ IF Len(wire) < Room THEN wire' = Append(wire, hands[f].seen) /\ unsure' = unsure
     ELSE wire' = wire /\ unsure' = unsure \cup {"reactions"}
  /\ UNCHANGED <<previewVars, reacted, pinned, changes, worn, translationVars, lost>>

\* Mutant: reactions are added to the ones that are known.
UpdatedWith(seen) == IF worn.map = None THEN seen ELSE worn.map \cup seen

\* reaction_update: a frame leaves out a map that is empty, and is not looked at without one.
Updated(seen) == IF seen = {} THEN worn.map ELSE seen

DeliverReactions ==
  /\ wire # <<>> /\ wire' = Tail(wire)
  /\ \/ Reaches /\ worn' = [worn EXCEPT !.map = Updated(Head(wire))] /\ unsure' = unsure
     \/ Lose /\ worn' = worn /\ unsure' = unsure \cup {"reactions"}
  /\ UNCHANGED <<previewVars, serverVars, translationVars>>

\* pinned, unpinned: every pin is another entry, and an unpin takes all away.
Pinned(is) == IF is THEN worn.pins + 1 ELSE 0

TellPin(f) ==
  /\ hands[f] # None /\ hands[f].kind = "pin" /\ hands' = [hands EXCEPT ![f] = None]
  /\ \/ Reaches /\ worn' = [worn EXCEPT !.pins = Pinned(hands[f].seen)] /\ unsure' = unsure
     \/ Lose /\ worn' = worn /\ unsure' = unsure \cup {"pin"}
  /\ UNCHANGED <<previewVars, reacted, pinned, changes, wire, translationVars>>

Translate ==
  /\ translating' = translating \cup {body.edits}
  /\ UNCHANGED <<previewVars, serverVars, wire, worn, translation, unsure, lost>>

TranslateResult(edits) ==
  /\ edits \in translating /\ translating' = translating \ {edits} /\ translation' = edits
  /\ UNCHANGED <<previewVars, serverVars, wire, worn, unsure, lost>>

MarksNext ==
  \/ \E url \in Urls \cup {None} : Edit(url)
  \/ FiveMinutesPass \/ Render \/ Fetch \/ \E answer \in {"error", "empty", "success"} : FetchAnswers(answer)
  \/ \E f \in Fans : ToggleReaction(f) \/ Pin(f) \/ Unpin(f) \/ OfferReactions(f) \/ TellPin(f)
  \/ DeliverReactions \/ Translate \/ \E edits \in translating : TranslateResult(edits)

-----------------------------------------------------------------------------
(* Properties                                                              *)

\* The reactions a page shows: those it was told of, or those the message came with.
ShownReactions == IF worn.map = None THEN worn.carried ELSE worn.map

MarksTypeOK ==
  /\ body \in [url : Urls \cup {None}, edits : 0..MaxEdits] /\ {old, pinned} \subseteq BOOLEAN
  /\ preview \in {None} \cup [url : Urls, isTooOld : BOOLEAN, status : {"loading", "error", "empty", "success"},
                              pending : {"nothing", "timer", "answer"}]
  /\ reacted \subseteq Fans /\ wire \in Seq(SUBSET Fans) /\ Len(wire) <= Room /\ ShownReactions \subseteq Fans
  /\ worn.pins \in 0..MaxChanges /\ unsure \subseteq {"reactions", "pin"}

\* The place of a preview that loads is not kept for ever, and the preview is that of the link.
PreviewEnds ==
  preview # None =>
    /\ preview.url = body.url /\ (preview.status = "loading" => preview.pending # "nothing")
    /\ preview.isTooOld => preview.status = "empty"

Quiet(kind) == kind \notin unsure /\ wire = <<>> /\ \A f \in Fans : hands[f] = None

\* When all is told and the last change was neither lost nor overtaken, whatever had been before
\* it, the page shows who has reacted - as long as anybody has.
ReactionsSettle == Quiet("reactions") /\ reacted # {} => ShownReactions = reacted

\* In the same way, a message that is shown as pinned is pinned.
PinsSettle == Quiet("pin") /\ worn.pins > 0 => pinned

\* What a message wears settles: its preview, its reactions, its pin.
MarksInv == MarksTypeOK /\ PreviewEnds /\ ReactionsSettle /\ PinsSettle

-----------------------------------------------------------------------------
(* Statements the code does not keep                                       *)

\* A reaction that was taken back is not shown.
LastReactionGoes == Quiet("reactions") /\ lost = 0 => ShownReactions = reacted

\* A message stands once in the pin bar.
PinnedOnce == worn.pins <= 1

\* A translation is of the body it stands under.
TranslationOfText == translation # None => translation = body.edits
==============================================================================
