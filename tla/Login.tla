--------------------------------- MODULE Login ---------------------------------
(***************************************************************************)
(* Who the page is: the automatic login of a load, the redeem of a         *)
(* TokenDance ID login, the guest name, the login form, log-outs and kicks,*)
(* and what the browser keeps of them for the next load.                   *)
(*                                                                         *)
(* Each of these calls connect, and connect remembers one promise only: a  *)
(* call that another overtakes is never told how it ended.  ChatAPI has    *)
(* the sockets; here a join is asked for, admitted, refused or lost.  A    *)
(* token is the name of the account it was issued to.                      *)
(***************************************************************************)
EXTENDS Naturals

CONSTANTS
  None,
  Accounts,  \* registered names
  Guests,    \* other names
  GuestName  \* the one this browser generated

Names == Accounts \cup Guests

\* A join: who waits for it, for whom it is, and with what.
Joins == [by : {"auto", "guest", "guest form", "form", "retry"},
          name : Names, token : Accounts \cup {None}]

ASSUME LoginAssumption ==
  GuestName \in Guests /\ Accounts \cap Guests = {} /\ None \notin Names \cup Joins

VARIABLES
  stored,    \* localStorage: the flag, the name and the session token
  page,      \* the store: username, isGuest, connected, showAuthModal, OIDC token
  form,      \* the login form: loading, and the account it asks for by HTTP
  redeem,    \* the account of the OIDC login that is being redeemed
  join,      \* the join of pendingJoin: who waits for it, for whom, with what
  conn,      \* the connection there is, in the same words
  closing,   \* a refused socket has not closed yet
  retry,     \* reconnectUsername and token, the name in reconnectTimer, and those in
             \* timers that reconnectTimer has forgotten; wasReconnecting
  overtaken  \* for the properties: the join the form waited for was overtaken

client == <<join, conn, closing, retry>>
vars == <<stored, page, form, redeem, client, overtaken>>

NothingStored == [auth |-> FALSE, name |-> None, token |-> None]
NewClient == [name |-> None, token |-> None, timer |-> None, orphans |-> {}, was |-> FALSE]
NewPage == [name |-> None, guest |-> FALSE, connected |-> FALSE, modal |-> FALSE, oidc |-> None]
NewForm == [loading |-> FALSE, asks |-> None]

-----------------------------------------------------------------------------
(* The client                                                              *)

\* The form waits for a join, which another call makes it wait for forever.
Overtake == overtaken' = (overtaken \/ (join # None /\ join.by \in {"guest form", "form"}))

\* connect of the client r: the socket there was is closed, the promise forgotten.
ChatConnect(r, by, u, t) ==
  /\ join' = [by |-> by, name |-> u, token |-> t] /\ conn' = None /\ closing' = FALSE
  /\ retry' = [r EXCEPT !.name = u, !.token = t]

\* The token that a join of page p is sent with, t being the session's.
TokenOf(p, t) == IF p.oidc # None THEN p.oidc ELSE IF p.guest THEN None ELSE t

\* connect of useWebSocket, on page p.
Connect(p, r, by, u, t) == page' = p /\ ChatConnect(r, by, u, TokenOf(p, t))

\* disconnect: the timers that are forgotten run on.
Disconnect ==
  /\ join' = None /\ conn' = None /\ closing' = FALSE
  /\ retry' = [NewClient EXCEPT !.orphans = retry.orphans] /\ Overtake

\* reset
Reset(p) == NewPage

-----------------------------------------------------------------------------
(* The load of the page                                                    *)

TryAutoConnect(p, r, u, t) == Connect([p EXCEPT !.name = u, !.guest = FALSE], r, "auto", u, t)

TryGuestConnect(p, r) ==
  Connect([p EXCEPT !.name = GuestName, !.guest = TRUE, !.oidc = None], r, "guest", GuestName, None)

\* The page is loaded, with an error from TokenDance ID or without: with all of an
\* account in localStorage as that account, else as a guest.  What is half there is
\* cleared, and the form with it.
Load(error) ==
  LET p == [NewPage EXCEPT !.modal = error] IN
  /\ IF stored.auth /\ stored.name # None /\ stored.token # None
     THEN TryAutoConnect(p, NewClient, stored.name, stored.token) /\ UNCHANGED stored
     ELSE /\ stored' = NothingStored
          /\ TryGuestConnect([p EXCEPT !.modal = error /\ ~stored.auth /\ stored.name = None], NewClient)
  /\ form' = NewForm /\ redeem' = None /\ overtaken' = FALSE

\* The page is left for TokenDance ID and loaded with what is to be redeemed.
LoginWithOidc(u) ==
  /\ page.modal
  /\ page' = NewPage /\ form' = NewForm /\ redeem' = u
  /\ join' = None /\ conn' = None /\ closing' = FALSE /\ retry' = NewClient /\ overtaken' = FALSE
  /\ UNCHANGED stored

\* The redeem is done, whatever the user did meanwhile.
RedeemSucceeds ==
  /\ redeem # None /\ redeem' = None
  /\ stored' = [auth |-> TRUE, name |-> redeem, token |-> redeem]
  /\ TryAutoConnect([page EXCEPT !.oidc = redeem], retry, redeem, redeem) /\ Overtake
  /\ UNCHANGED form

RedeemFails ==
  /\ redeem # None /\ redeem' = None
  /\ stored' = NothingStored /\ page' = [page EXCEPT !.oidc = None, !.modal = TRUE]
  /\ UNCHANGED <<form, client, overtaken>>

-----------------------------------------------------------------------------
(* How a join ends                                                         *)

Admits(f) == IF f.name \in Accounts THEN f.token = f.name ELSE f.token = None

\* Mutant: the store is not told the name.
NamedBefore(p, f) == p.name

\* The form gives the store its name when it has joined, the others before.
NamedBy(p, f) == IF f.by \in {"guest form", "form"} THEN f.name ELSE p.name

\* Mutant: a token that is kept already stays.
KeptFirstToken(s, f) ==
  IF f.by = "form" THEN [auth |-> TRUE, name |-> f.name, token |-> IF s.token # None THEN s.token ELSE f.name]
  ELSE IF f.by = "guest form" THEN [s EXCEPT !.name = f.name] ELSE s

\* What the form keeps for the next load: all of an account, the name of a guest.
KeptOf(s, f) ==
  IF f.by = "form" THEN [auth |-> TRUE, name |-> f.name, token |-> f.name]
  ELSE IF f.by = "guest form" THEN [s EXCEPT !.name = f.name] ELSE s

\* "history": the promise is kept.  A reconnection has no promise, but an event.
JoinSucceeds ==
  /\ join # None /\ Admits(join)
  /\ conn' = join /\ join' = None /\ closing' = FALSE
  /\ retry' = [retry EXCEPT !.was = FALSE]
  /\ LET ofForm == join.by \in {"guest form", "form"} IN
     /\ page' = [page EXCEPT !.name = NamedBy(page, join), !.modal = @ /\ ~ofForm,
                             !.connected = @ \/ join.by # "retry" \/ retry.was]
     /\ form' = IF ofForm THEN [form EXCEPT !.loading = FALSE] ELSE form
  /\ stored' = KeptOf(stored, join)
  /\ UNCHANGED <<redeem, overtaken>>

\* Mutant: the form goes on waiting.
FormOnError(f) == form

\* The form says what went wrong.
FormAfter(f) == IF f.by \in {"guest form", "form"} THEN [form EXCEPT !.loading = FALSE] ELSE form

PageAfter(p, f) ==
  CASE f.by = "auto" -> [p EXCEPT !.connected = FALSE, !.oidc = None, !.modal = TRUE]
    [] f.by = "guest" -> [p EXCEPT !.connected = FALSE, !.name = None, !.guest = FALSE]
    [] f.by \in {"guest form", "form"} -> [p EXCEPT !.connected = FALSE]
    [] OTHER -> p

\* The promise is rejected: by the server, by a timeout or an error, whose socket closes
\* later, or by the close itself, after which nothing is tried again.
JoinFails(closed) ==
  /\ join # None /\ join' = None /\ closing' = ~closed
  /\ stored' = IF join.by \in {"auto", "form"} THEN NothingStored ELSE stored
  /\ page' = PageAfter(page, join) /\ form' = FormAfter(join)
  /\ UNCHANGED <<conn, retry, redeem, overtaken>>

\* attemptReconnect, if there is a name to reconnect.
AttemptReconnect ==
  IF retry.name = None THEN UNCHANGED <<retry, page>>
  ELSE /\ retry' = [retry EXCEPT !.timer = retry.name, !.was = TRUE,
                                 !.orphans = @ \cup ({retry.timer} \ {None})]
       /\ page' = [page EXCEPT !.connected = FALSE]

\* The socket closes: the one of a connection, or of a refused join.
SocketCloses ==
  /\ conn # None \/ closing
  /\ conn' = None /\ closing' = FALSE /\ AttemptReconnect
  /\ UNCHANGED <<stored, form, redeem, join, overtaken>>

\* A timer is over: it has the name of the time it was set, and the token of now.
Reconnect(u) ==
  /\ u \in {retry.timer} \cup retry.orphans /\ u # None
  /\ \/ u = retry.timer /\ ChatConnect([retry EXCEPT !.timer = None], "retry", u, retry.token)
     \/ u \in retry.orphans /\ ChatConnect([retry EXCEPT !.orphans = @ \ {u}], "retry", u, retry.token)
  /\ Overtake /\ UNCHANGED <<stored, page, form, redeem>>

-----------------------------------------------------------------------------
(* The user                                                                *)

\* The button there is for those without a name, and for guests.
SetShowAuthModal ==
  /\ page.name = None \/ page.guest
  /\ page' = [page EXCEPT !.modal = TRUE]
  /\ UNCHANGED <<stored, form, redeem, client, overtaken>>

Close ==
  /\ page.modal /\ ~form.loading /\ page' = [page EXCEPT !.modal = FALSE]
  /\ UNCHANGED <<stored, form, redeem, client, overtaken>>

\* The forms of the modal: guest, login, register; none of them while one is loading.
MaySubmit == page.modal /\ ~form.loading

\* Any name may be typed: one of an account is refused by the server.  Enter submits the
\* guest form twice (its key and the form, AuthModal.tsx 224 and 230): the second join is of
\* the same name, takes the place of the first at once, and its answer is the one waited for.
\* The two are one step here.
HandleGuestJoin(u) ==
  /\ MaySubmit
  /\ form' = [form EXCEPT !.loading = TRUE]
  /\ Connect([page EXCEPT !.guest = TRUE], retry, "guest form", u, stored.token) /\ Overtake
  /\ UNCHANGED <<stored, redeem>>

\* A login, or a registration.
HandleLogin(u) ==
  /\ MaySubmit
  /\ form' = [loading |-> TRUE, asks |-> u]
  /\ UNCHANGED <<stored, page, redeem, client, overtaken>>

\* The account is the user's, whatever became of the page.
LoginAnswers ==
  /\ form.asks # None /\ form' = [form EXCEPT !.asks = None]
  /\ Connect([page EXCEPT !.guest = FALSE], retry, "form", form.asks, form.asks) /\ Overtake
  /\ UNCHANGED <<stored, redeem>>

LoginRefused ==
  /\ form.asks # None /\ form' = NewForm
  /\ UNCHANGED <<stored, page, redeem, client, overtaken>>

\* The page's log-out keeps what is in localStorage.
HandleDisconnect ==
  /\ Disconnect /\ page' = Reset(page) /\ UNCHANGED <<stored, form, redeem>>

\* Another page has joined with the name of this one.
Kicked ==
  /\ conn # None /\ Disconnect /\ page' = Reset(page)
  /\ UNCHANGED <<stored, form, redeem>>

-----------------------------------------------------------------------------

\* A browser that was never here.
Init ==
  /\ stored = NothingStored /\ form = NewForm /\ redeem = None
  /\ page = [NewPage EXCEPT !.name = GuestName, !.guest = TRUE]
  /\ join = [by |-> "guest", name |-> GuestName, token |-> None] /\ conn = None
  /\ closing = FALSE /\ retry = [NewClient EXCEPT !.name = GuestName] /\ overtaken = FALSE

Next ==
  \/ \E b \in BOOLEAN : Load(b) \/ JoinFails(b)
  \/ RedeemSucceeds \/ RedeemFails \/ JoinSucceeds \/ SocketCloses
  \/ SetShowAuthModal \/ Close \/ LoginAnswers \/ LoginRefused \/ HandleDisconnect \/ Kicked
  \/ \E u \in Names : Reconnect(u) \/ HandleGuestJoin(u)
  \/ \E u \in Accounts : HandleLogin(u) \/ LoginWithOidc(u)

Spec == Init /\ [][Next]_vars

-----------------------------------------------------------------------------
(* Properties                                                              *)

TypeOK ==
  /\ stored \in [auth : BOOLEAN, name : Names \cup {None}, token : Accounts \cup {None}]
  /\ page \in [name : Names \cup {None}, guest : BOOLEAN, connected : BOOLEAN,
               modal : BOOLEAN, oidc : Accounts \cup {None}]
  /\ form \in [loading : BOOLEAN, asks : Accounts \cup {None}]
  /\ redeem \in Accounts \cup {None} /\ closing \in BOOLEAN /\ overtaken \in BOOLEAN
  /\ join \in Joins \cup {None} /\ conn \in Joins \cup {None}
  /\ retry \in [name : Names \cup {None}, token : Accounts \cup {None},
                timer : Names \cup {None}, orphans : SUBSET Names, was : BOOLEAN]

\* The flag is kept with a name and a token, or not at all: whatever overlapped, the next
\* load finds all it needs for the automatic login.
StoredComplete == stored.auth => stored.name # None /\ stored.token # None

\* Who asked for the connection waits for it: it is not of a timer, that may have
\* outlived the login it was set under.
Asked == conn # None /\ conn.by # "retry"

\* The next load does not log in as another account than the one that is connected.
NeverSomebodyElse ==
  Asked /\ conn.name \in Accounts /\ stored.auth =>
    stored.name = conn.name /\ stored.token = conn.name

\* What the browser keeps is of one account, and enough for the next load.
StoredInv == TypeOK /\ StoredComplete /\ NeverSomebodyElse

\* A page that says it is connected shows the name that the server knows it by.
ShownAsConnected == Asked => page.connected /\ conn.name = page.name

\* A token of TokenDance ID is in the store only while the page has its account's name.
TokenOfName == page.oidc # None => page.name = page.oidc

\* What the page shows is of one account, too: its name, the connection and the tokens of
\* TokenDance ID, though three flows set them.
PageInv == ShownAsConnected /\ TokenOfName

\* The form waits for an answer, or for a join that was overtaken, and for nothing else.
FormWaits ==
  form.loading => overtaken \/ form.asks # None \/ (join # None /\ join.by \in {"guest form", "form"})

-----------------------------------------------------------------------------
(* Statements the code does not keep                                       *)

\* A guest has no session.
GuestHasNoSession == conn # None /\ page.guest => stored.token = None

\* The form that waits gets an answer.
FormEnds == form.loading => form.asks # None \/ (join # None /\ join.by \in {"guest form", "form"})

\* A join is sent with the token of its name.
OwnToken == join # None => join.token \in {None, join.name}

\* A page that says it is connected is, under its name.
ShownIsConnected == page.connected /\ join = None => conn # None /\ conn.name = page.name

\* After a log-out the next load does not log in.
LoggedOut == [][HandleDisconnect => ~stored.auth]_vars

\* The account that is connected is the one the next load logs in with.
LoadContinues == conn # None /\ conn.name \in Accounts => stored.auth
=============================================================================
