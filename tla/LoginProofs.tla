------------------------------ MODULE LoginProofs ------------------------------
(***************************************************************************)
(* Proofs about Login, for any accounts, guests and names.                 *)
(***************************************************************************)
EXTENDS Login, TLAPS

Tokens == Accounts \cup {None}
Stores == [auth : BOOLEAN, name : Names \cup {None}, token : Tokens]
Pages == [name : Names \cup {None}, guest : BOOLEAN, connected : BOOLEAN, modal : BOOLEAN, oidc : Tokens]
Forms == [loading : BOOLEAN, asks : Tokens]
Retries == [name : Names \cup {None}, token : Tokens, timer : Names \cup {None},
            orphans : SUBSET Names, was : BOOLEAN]
Callers == {"auto", "guest", "guest form", "form", "retry"}

\* Who joins has no connection yet: connect has closed it.
OneAtATime == join = None \/ conn = None

\* The page comes back from TokenDance ID without its token.
RedeemsAlone == redeem # None => page.oidc = None

\* A token of TokenDance ID that the page has is the one that is kept.
OidcStored == page.oidc # None /\ stored.auth => stored.name = page.oidc /\ stored.token = page.oidc

\* What each flow joins with.
JoinsKnown ==
  join # None =>
    /\ join.by = "auto" => join.name = page.name /\ (stored.auth => join.name = stored.name /\ join.token = stored.token)
    /\ join.by = "guest" => join.name = page.name /\ join.name = GuestName /\ join.token = None /\ page.oidc = None
    /\ join.by = "guest form" => join.token = page.oidc
    /\ join.by = "form" => join.name \in Accounts /\ (page.oidc # None => join.token = page.oidc)

IInv == StoredInv /\ PageInv /\ FormWaits /\ OneAtATime /\ RedeemsAlone /\ OidcStored /\ JoinsKnown

-----------------------------------------------------------------------------
(* Records                                                                 *)

LEMMA Types ==
  TypeOK <=> /\ stored \in Stores /\ page \in Pages /\ form \in Forms /\ redeem \in Tokens
             /\ closing \in BOOLEAN /\ overtaken \in BOOLEAN
             /\ join \in Joins \cup {None} /\ conn \in Joins \cup {None} /\ retry \in Retries
BY DEF TypeOK, Stores, Pages, Forms, Retries, Tokens

LEMMA Fresh ==
  /\ NothingStored \in Stores /\ NewClient \in Retries /\ NewPage \in Pages /\ NewForm \in Forms
  /\ ~NothingStored.auth /\ NewPage.name = None /\ NewPage.oidc = None /\ ~NewPage.guest /\ ~NewForm.loading
BY DEF NothingStored, NewClient, NewPage, NewForm, Stores, Pages, Forms, Retries, Tokens

\* Each field of a page may be set on its own, and two of them at once.
LEMMA PageWith ==
  ASSUME NEW p \in Pages
  PROVE  /\ \A n \in Names \cup {None} : LET q == [p EXCEPT !.name = n] IN
              q \in Pages /\ q.name = n /\ q.guest = p.guest /\ q.connected = p.connected /\ q.modal = p.modal /\ q.oidc = p.oidc
         /\ \A g \in BOOLEAN : LET q == [p EXCEPT !.guest = g] IN
              q \in Pages /\ q.name = p.name /\ q.guest = g /\ q.connected = p.connected /\ q.modal = p.modal /\ q.oidc = p.oidc
         /\ \A c \in BOOLEAN : LET q == [p EXCEPT !.connected = c] IN
              q \in Pages /\ q.name = p.name /\ q.guest = p.guest /\ q.connected = c /\ q.modal = p.modal /\ q.oidc = p.oidc
         /\ \A m \in BOOLEAN : LET q == [p EXCEPT !.modal = m] IN
              q \in Pages /\ q.name = p.name /\ q.guest = p.guest /\ q.connected = p.connected /\ q.modal = m /\ q.oidc = p.oidc
         /\ \A o \in Tokens : LET q == [p EXCEPT !.oidc = o] IN
              q \in Pages /\ q.name = p.name /\ q.guest = p.guest /\ q.connected = p.connected /\ q.modal = p.modal /\ q.oidc = o
<1>1. ASSUME NEW n \in Names \cup {None}
      PROVE  LET q == [p EXCEPT !.name = n] IN
              q \in Pages /\ q.name = n /\ q.guest = p.guest /\ q.connected = p.connected /\ q.modal = p.modal /\ q.oidc = p.oidc
  BY DEF Pages
<1>2. ASSUME NEW g \in BOOLEAN
      PROVE  LET q == [p EXCEPT !.guest = g] IN
              q \in Pages /\ q.name = p.name /\ q.guest = g /\ q.connected = p.connected /\ q.modal = p.modal /\ q.oidc = p.oidc
  BY DEF Pages
<1>3. ASSUME NEW c \in BOOLEAN
      PROVE  LET q == [p EXCEPT !.connected = c] IN
              q \in Pages /\ q.name = p.name /\ q.guest = p.guest /\ q.connected = c /\ q.modal = p.modal /\ q.oidc = p.oidc
  BY DEF Pages
<1>4. ASSUME NEW m \in BOOLEAN
      PROVE  LET q == [p EXCEPT !.modal = m] IN
              q \in Pages /\ q.name = p.name /\ q.guest = p.guest /\ q.connected = p.connected /\ q.modal = m /\ q.oidc = p.oidc
  BY DEF Pages
<1>5. ASSUME NEW o \in Tokens
      PROVE  LET q == [p EXCEPT !.oidc = o] IN
              q \in Pages /\ q.name = p.name /\ q.guest = p.guest /\ q.connected = p.connected /\ q.modal = p.modal /\ q.oidc = o
  BY DEF Pages
<1> QED BY <1>1, <1>2, <1>3, <1>4, <1>5

LEMMA PageNamed ==
  ASSUME NEW p \in Pages, NEW n \in Names \cup {None}, NEW g \in BOOLEAN
  PROVE  LET q == [p EXCEPT !.name = n, !.guest = g] IN
         q \in Pages /\ q.name = n /\ q.guest = g /\ q.connected = p.connected /\ q.modal = p.modal /\ q.oidc = p.oidc
<1> DEFINE r == [p EXCEPT !.name = n]
<1>1. [p EXCEPT !.name = n, !.guest = g] = [r EXCEPT !.guest = g]
  OBVIOUS
<1>2. r \in Pages /\ r.name = n /\ r.guest = p.guest /\ r.connected = p.connected /\ r.modal = p.modal /\ r.oidc = p.oidc
  BY PageWith
<1> HIDE DEF r
<1>3. [r EXCEPT !.guest = g] \in Pages
  BY <1>2, PageWith
<1> QED BY <1>1, <1>2, <1>3, PageWith

\* In the same way the fields of a client's retry.
LEMMA RetryWith ==
  ASSUME NEW r \in Retries
  PROVE  /\ \A n \in Names \cup {None} : [r EXCEPT !.name = n] \in Retries
         /\ \A t \in Tokens : [r EXCEPT !.token = t] \in Retries
         /\ \A n \in Names \cup {None} : [r EXCEPT !.timer = n] \in Retries
         /\ \A o \in SUBSET Names : [r EXCEPT !.orphans = o] \in Retries
         /\ \A b \in BOOLEAN : [r EXCEPT !.was = b] \in Retries
<1>1. \A n \in Names \cup {None} : [r EXCEPT !.name = n] \in Retries
  BY DEF Retries
<1>2. \A t \in Tokens : [r EXCEPT !.token = t] \in Retries
  BY DEF Retries
<1>3. \A n \in Names \cup {None} : [r EXCEPT !.timer = n] \in Retries
  BY DEF Retries
<1>4. \A o \in SUBSET Names : [r EXCEPT !.orphans = o] \in Retries
  BY DEF Retries
<1>5. \A b \in BOOLEAN : [r EXCEPT !.was = b] \in Retries
  BY DEF Retries
<1> QED BY <1>1, <1>2, <1>3, <1>4, <1>5

\* A call of connect leaves a join of its own, and no connection.
LEMMA ChatConnects ==
  ASSUME NEW r \in Retries, NEW by \in Callers, NEW u \in Names, NEW t \in Tokens, ChatConnect(r, by, u, t)
  PROVE  /\ join' \in Joins /\ join' # None /\ join'.by = by /\ join'.name = u /\ join'.token = t
         /\ conn' = None /\ closing' = FALSE /\ retry' \in Retries
<1>1. /\ join' = [by |-> by, name |-> u, token |-> t] /\ conn' = None /\ closing' = FALSE
      /\ retry' = [r EXCEPT !.name = u, !.token = t]
  BY DEF ChatConnect
<1>2. join' \in Joins /\ join'.by = by /\ join'.name = u /\ join'.token = t
  BY <1>1 DEF Joins, Callers, Tokens
<1>3. join' # None
  BY <1>2, LoginAssumption
<1>4. retry' \in Retries
  <2> DEFINE q == [r EXCEPT !.name = u]
  <2>1. retry' = [q EXCEPT !.token = t]
    BY <1>1
  <2>2. q \in Retries
    BY RetryWith
  <2> HIDE DEF q
  <2> QED BY <2>1, <2>2, RetryWith
<1> QED BY <1>1, <1>2, <1>3, <1>4

LEMMA TokenOfType ==
  ASSUME NEW p \in Pages, NEW t \in Tokens
  PROVE  /\ TokenOf(p, t) \in Tokens /\ (p.oidc # None => TokenOf(p, t) = p.oidc)
         /\ p.oidc = None /\ p.guest => TokenOf(p, t) = None
         /\ p.oidc = None /\ ~p.guest => TokenOf(p, t) = t
BY DEF TokenOf, Pages, Tokens

\* A connection asked for by a flow or the form is in order when what is stored, the form
\* and the page are.
LEMMA ConnectKeeps ==
  ASSUME NEW p \in Pages, NEW r \in Retries, NEW by \in Callers, NEW u \in Names, NEW t \in Tokens,
         Connect(p, r, by, u, t),
         stored' \in Stores, form' \in Forms, redeem' \in Tokens, overtaken' \in BOOLEAN,
         StoredComplete', FormWaits', redeem' # None => p.oidc = None, p.oidc # None => p.name = p.oidc,
         p.oidc # None /\ stored'.auth => stored'.name = p.oidc /\ stored'.token = p.oidc,
         by = "auto" => u = p.name /\ (stored'.auth => u = stored'.name /\ TokenOf(p, t) = stored'.token),
         by = "guest" => u = p.name /\ u = GuestName /\ TokenOf(p, t) = None /\ p.oidc = None,
         by = "guest form" => p.guest,
         by = "form" => u \in Accounts
  PROVE  IInv'
<1>1. TokenOf(p, t) \in Tokens /\ (p.oidc # None => TokenOf(p, t) = p.oidc) /\ (p.oidc = None /\ p.guest => TokenOf(p, t) = None)
  BY TokenOfType
<1>2. /\ page' = p /\ join' \in Joins /\ join' # None /\ join'.by = by /\ join'.name = u /\ join'.token = TokenOf(p, t)
      /\ conn' = None /\ closing' = FALSE /\ retry' \in Retries
  BY <1>1, ChatConnects DEF Connect
<1>3. TypeOK'
  BY <1>2 DEF TypeOK, Stores, Pages, Forms, Retries, Tokens
<1>4. StoredInv' /\ PageInv'
  BY <1>2, <1>3 DEF StoredInv, PageInv, NeverSomebodyElse, ShownAsConnected, Asked, TokenOfName
<1>5. OneAtATime' /\ RedeemsAlone' /\ OidcStored'
  BY <1>2 DEF OneAtATime, RedeemsAlone, OidcStored
<1>6. JoinsKnown'
  BY <1>1, <1>2 DEF JoinsKnown
<1> QED BY <1>4, <1>5, <1>6 DEF IInv

\* Without a join or a connection, in order is what the page and the browser keep.
LEMMA NobodyJoins ==
  ASSUME join' = None, conn' = None,
         stored' \in Stores, page' \in Pages, form' \in Forms, redeem' \in Tokens,
         closing' \in BOOLEAN, overtaken' \in BOOLEAN, retry' \in Retries,
         StoredComplete', FormWaits', RedeemsAlone', TokenOfName', OidcStored'
  PROVE  IInv'
<1>1. TypeOK'
  BY DEF TypeOK, Stores, Pages, Forms, Retries, Tokens
<1>2. StoredInv' /\ PageInv'
  BY <1>1 DEF StoredInv, PageInv, NeverSomebodyElse, ShownAsConnected, Asked
<1> QED BY <1>2 DEF IInv, OneAtATime, JoinsKnown

-----------------------------------------------------------------------------
(* The steps                                                               *)

LEMMA Starts == Init => IInv
<1> SUFFICES ASSUME Init PROVE IInv
  OBVIOUS
<1> DEFINE q == [NewPage EXCEPT !.name = GuestName]
<1>1. GuestName \in Names /\ None \in Names \cup {None} /\ None \in Tokens /\ GuestName \notin Accounts
  BY LoginAssumption DEF Names, Tokens
<1>2. q \in Pages /\ q.name = GuestName /\ q.oidc = None /\ ~q.connected
  BY <1>1, Fresh, PageWith DEF NewPage
<1>3. page = [q EXCEPT !.guest = TRUE]
  BY DEF Init
<1> HIDE DEF q
<1>4. page \in Pages /\ page.name = GuestName /\ page.oidc = None
  BY <1>2, <1>3, PageWith
<1>5. retry \in Retries
  BY <1>1, Fresh, RetryWith DEF Init
<1>6. /\ join = [by |-> "guest", name |-> GuestName, token |-> None] /\ conn = None /\ closing = FALSE /\ overtaken = FALSE
      /\ stored = NothingStored /\ form = NewForm /\ redeem = None
  BY DEF Init
<1>7. join \in Joins
  BY <1>1, <1>6 DEF Joins
<1>8. TypeOK
  BY <1>4, <1>5, <1>6, <1>7, Fresh, Types DEF Tokens
<1>9. StoredInv /\ PageInv /\ FormWaits
  BY <1>4, <1>6, <1>8, Fresh DEF StoredInv, StoredComplete, NeverSomebodyElse, PageInv, ShownAsConnected, Asked, TokenOfName, FormWaits
<1>10. OneAtATime /\ RedeemsAlone /\ OidcStored /\ JoinsKnown
  BY <1>4, <1>6 DEF OneAtATime, RedeemsAlone, OidcStored, JoinsKnown
<1> QED BY <1>9, <1>10 DEF IInv

LEMMA LoadKeeps ==
  ASSUME IInv, NEW error \in BOOLEAN, Load(error)
  PROVE  IInv'
<1> DEFINE p == [NewPage EXCEPT !.modal = error]
<1>1. /\ stored \in Stores /\ StoredComplete
  BY Types DEF IInv, StoredInv
<1>2. form' = NewForm /\ redeem' = None /\ overtaken' = FALSE /\ form' \in Forms /\ redeem' \in Tokens /\ FormWaits'
  BY Fresh DEF Load, FormWaits, Tokens
<1>3. p \in Pages /\ p.oidc = None /\ ~p.guest
  BY Fresh, PageWith
<1>4. CASE stored.auth /\ stored.name # None /\ stored.token # None
  <2>1. TryAutoConnect(p, NewClient, stored.name, stored.token) /\ UNCHANGED stored
    BY <1>4 DEF Load
  <2> DEFINE q == [p EXCEPT !.name = stored.name, !.guest = FALSE]
  <2>2. stored.name \in Names /\ stored.token \in Tokens
    BY <1>1, <1>4 DEF Stores
  <2>3. q \in Pages /\ q.name = stored.name /\ ~q.guest /\ q.oidc = None
    BY <1>3, <2>2, PageNamed
  <2>4. Connect(q, NewClient, "auto", stored.name, stored.token)
    BY <2>1 DEF TryAutoConnect
  <2>5. TokenOf(q, stored.token) = stored.token
    BY <2>2, <2>3, TokenOfType
  <2>6. StoredComplete' /\ stored' = stored
    BY <1>1, <2>1 DEF StoredComplete
  <2> HIDE DEF q
  <2> QED BY <1>1, <1>2, <2>2, <2>3, <2>4, <2>5, <2>6, Fresh, ConnectKeeps DEF Callers
<1>5. CASE ~(stored.auth /\ stored.name # None /\ stored.token # None)
  <2> DEFINE m == error /\ ~stored.auth /\ stored.name = None
             o == [p EXCEPT !.modal = m]
             n == [o EXCEPT !.name = GuestName, !.guest = TRUE]
             q == [n EXCEPT !.oidc = None]
  <2>1. stored' = NothingStored /\ Connect(q, NewClient, "guest", GuestName, None)
    <3>1. /\ stored' = NothingStored /\ TryGuestConnect(o, NewClient)
      BY <1>5 DEF Load
    <3>2. [o EXCEPT !.name = GuestName, !.guest = TRUE, !.oidc = None] = q
      OBVIOUS
    <3> QED BY <3>1, <3>2 DEF TryGuestConnect
  <2>2. GuestName \in Names /\ None \in Tokens /\ m \in BOOLEAN
    BY LoginAssumption DEF Names, Tokens
  <2>3. o \in Pages
    BY <1>3, <2>2, PageWith
  <2> HIDE DEF o
  <2>4. n \in Pages /\ n.name = GuestName /\ n.guest
    BY <2>2, <2>3, PageNamed
  <2> HIDE DEF n
  <2>5. q \in Pages /\ q.name = GuestName /\ q.guest /\ q.oidc = None
    BY <2>2, <2>4, PageWith
  <2> HIDE DEF q
  <2>6. TokenOf(q, None) = None
    BY <2>2, <2>5, TokenOfType
  <2>7. stored' \in Stores /\ ~stored'.auth /\ StoredComplete'
    BY <2>1, Fresh DEF StoredComplete
  <2> QED BY <1>2, <2>1, <2>2, <2>5, <2>6, <2>7, Fresh, ConnectKeeps DEF Callers
<1> QED BY <1>4, <1>5

\* The redeem asks for a connection, or gives up.
LEMMA RedeemKeeps ==
  ASSUME IInv, RedeemSucceeds \/ RedeemFails
  PROVE  IInv'
<1>1. /\ stored \in Stores /\ page \in Pages /\ form \in Forms /\ retry \in Retries /\ overtaken \in BOOLEAN
      /\ redeem \in Accounts /\ redeem # None /\ closing \in BOOLEAN
      /\ join \in Joins \cup {None} /\ conn \in Joins \cup {None}
  BY Types DEF IInv, StoredInv, RedeemSucceeds, RedeemFails, Tokens
<1>2. redeem \in Names /\ redeem \in Names \cup {None} /\ redeem \in Tokens /\ None \in Tokens
  BY <1>1 DEF Names, Tokens
<1>3. CASE RedeemSucceeds
  <2> DEFINE p == [page EXCEPT !.oidc = redeem]
             q == [p EXCEPT !.name = redeem, !.guest = FALSE]
  <2>1. /\ redeem' = None /\ stored' = [auth |-> TRUE, name |-> redeem, token |-> redeem] /\ UNCHANGED form
        /\ Connect(q, retry, "auto", redeem, redeem) /\ Overtake
    BY <1>3 DEF RedeemSucceeds, TryAutoConnect
  <2>2. p \in Pages /\ p.oidc = redeem
    BY <1>1, <1>2, PageWith
  <2> HIDE DEF p
  <2>3. q \in Pages /\ q.name = redeem /\ q.oidc = redeem
    BY <1>2, <2>2, PageNamed
  <2> HIDE DEF q
  <2>4. TokenOf(q, redeem) = redeem
    BY <1>1, <1>2, <2>3, TokenOfType
  <2>5. stored' \in Stores /\ stored'.name = redeem /\ stored'.token = redeem /\ StoredComplete'
    BY <1>1, <1>2, <2>1 DEF Stores, StoredComplete
  <2>6. overtaken' \in BOOLEAN /\ FormWaits'
    BY <1>1, <2>1 DEF Overtake, FormWaits, IInv
  <2> QED BY <1>1, <1>2, <2>1, <2>3, <2>4, <2>5, <2>6, ConnectKeeps DEF Callers
<1>4. CASE RedeemFails
  <2> DEFINE p == [page EXCEPT !.oidc = None]
  <2>1. /\ redeem' = None /\ stored' = NothingStored /\ page' = [p EXCEPT !.modal = TRUE]
        /\ UNCHANGED <<form, join, conn, closing, retry, overtaken>>
    BY <1>4 DEF RedeemFails, client
  <2>2. p \in Pages /\ p.name = page.name /\ p.connected = page.connected /\ p.oidc = None
    BY <1>1, <1>2, PageWith
  <2> HIDE DEF p
  <2>3. page' \in Pages /\ page'.name = page.name /\ page'.connected = page.connected /\ page'.oidc = None
    BY <2>1, <2>2, PageWith
  <2>4. page.oidc = None
    BY <1>1 DEF IInv, RedeemsAlone
  <2>5. TypeOK'
    BY <1>1, <1>2, <2>1, <2>3, Fresh DEF TypeOK, Stores, Pages, Forms, Retries, Tokens
  <2>6. StoredInv' /\ PageInv'
    BY <2>1, <2>3, <2>5, Fresh DEF IInv, StoredInv, StoredComplete, NeverSomebodyElse, PageInv, ShownAsConnected, Asked, TokenOfName
  <2>7. FormWaits' /\ OneAtATime' /\ RedeemsAlone' /\ OidcStored'
    BY <2>1, <2>3 DEF IInv, FormWaits, OneAtATime, RedeemsAlone, OidcStored
  <2>8. JoinsKnown'
    BY <2>1, <2>3, <2>4, Fresh DEF IInv, JoinsKnown
  <2> QED BY <2>6, <2>7, <2>8 DEF IInv
<1> QED BY <1>3, <1>4

\* A join that is admitted is of the account that is kept, and of the name that is shown.
LEMMA JoinSucceedsKeeps ==
  ASSUME IInv, JoinSucceeds
  PROVE  IInv'
<1> DEFINE ofForm == join.by \in {"guest form", "form"}
           n == NamedBy(page, join)
           m == page.modal /\ ~ofForm
           c == page.connected \/ join.by # "retry" \/ retry.was
           p == [page EXCEPT !.name = n]
           q == [p EXCEPT !.modal = m]
<1>1. /\ stored \in Stores /\ page \in Pages /\ form \in Forms /\ redeem \in Tokens /\ overtaken \in BOOLEAN
      /\ join \in Joins /\ retry \in Retries /\ join # None
  BY Types DEF IInv, StoredInv, JoinSucceeds
<1>2. /\ Admits(join) /\ conn' = join /\ join' = None /\ closing' = FALSE /\ retry' = [retry EXCEPT !.was = FALSE]
      /\ page' = [page EXCEPT !.name = n, !.modal = @ /\ ~ofForm, !.connected = @ \/ join.by # "retry" \/ retry.was]
      /\ form' = IF ofForm THEN [form EXCEPT !.loading = FALSE] ELSE form
      /\ stored' = KeptOf(stored, join) /\ UNCHANGED <<redeem, overtaken>>
  BY DEF JoinSucceeds
<1>3. /\ join.by \in Callers /\ join.name \in Names /\ join.token \in Tokens /\ join.name # None
      /\ join.name \in Accounts => join.token = join.name
      /\ join.name \notin Accounts => join.token = None
  BY <1>1, <1>2, LoginAssumption DEF Joins, Callers, Tokens, Admits
<1>4. n \in Names \cup {None} /\ (ofForm => n = join.name) /\ (~ofForm => n = page.name)
  BY <1>1, <1>3 DEF NamedBy, Pages
<1>5. m \in BOOLEAN /\ c \in BOOLEAN /\ (join.by # "retry" => c)
  BY <1>1 DEF Pages, Retries
<1>6. page' \in Pages /\ page'.name = n /\ page'.connected = c /\ page'.oidc = page.oidc
  <2>1. page' = [q EXCEPT !.connected = c]
    BY <1>2
  <2> HIDE DEF n, m, c
  <2>2. p \in Pages /\ p.name = n /\ p.oidc = page.oidc
    <3>1. page \in Pages /\ n \in Names \cup {None}
      BY <1>1, <1>4
    <3> QED BY <3>1 DEF Pages
  <2> HIDE DEF p
  <2>3. q \in Pages /\ q.name = n /\ q.oidc = page.oidc
    BY <1>5, <2>2, PageWith
  <2> HIDE DEF q
  <2> QED BY <1>5, <2>1, <2>3, PageWith
<1>7. retry' \in Retries
  BY <1>1, <1>2, RetryWith
<1>8. form' \in Forms /\ (ofForm => ~form'.loading) /\ (~ofForm => form' = form)
  BY <1>1, <1>2 DEF Forms
<1>9. /\ stored' \in Stores
      /\ join.by = "form" => stored'.auth /\ stored'.name = join.name /\ stored'.token = join.name
      /\ join.by = "guest form" => stored'.auth = stored.auth /\ stored'.name = join.name /\ stored'.token = stored.token
      /\ ~ofForm => stored' = stored
  <2>1. CASE join.by = "form"
    <3>1. join.name \in Accounts
      BY <1>1, <2>1 DEF IInv, JoinsKnown
    <3> QED BY <1>2, <1>3, <2>1, <3>1 DEF KeptOf, Stores, Tokens
  <2>2. CASE join.by = "guest form"
    BY <1>1, <1>2, <1>3, <2>2 DEF KeptOf, Stores
  <2>3. CASE ~ofForm
    BY <1>1, <1>2, <2>3 DEF KeptOf
  <2> QED BY <2>1, <2>2, <2>3
<1>10. /\ join.by = "auto" => join.name = page.name /\ (stored.auth => join.name = stored.name /\ join.token = stored.token)
       /\ join.by = "guest" => join.name = page.name /\ join.name = GuestName
       /\ join.by = "guest form" => join.token = page.oidc
       /\ join.by = "form" => join.name \in Accounts /\ (page.oidc # None => join.token = page.oidc)
  BY <1>1 DEF IInv, JoinsKnown
<1> HIDE DEF n, m, c, p, q
<1>11. TypeOK'
  BY <1>1, <1>2, <1>6, <1>7, <1>8, <1>9 DEF TypeOK, Stores, Pages, Forms, Retries, Tokens
<1>12. page.oidc # None => /\ ofForm => join.name = page.oidc
                           /\ stored'.auth => stored'.name = page.oidc /\ stored'.token = page.oidc
  BY <1>3, <1>9, <1>10, <1>1 DEF IInv, OidcStored
<1>13. StoredComplete'
  BY <1>1, <1>3, <1>9 DEF IInv, StoredInv, StoredComplete
<1>14. NeverSomebodyElse'
  <2> SUFFICES ASSUME join.by # "retry", join.name \in Accounts, stored'.auth
               PROVE  stored'.name = join.name /\ stored'.token = join.name
    BY <1>2 DEF NeverSomebodyElse, Asked
  <2>1. join.token = join.name
    BY <1>3
  <2>2. CASE join.by = "auto"
    BY <1>9, <1>10, <2>1, <2>2
  <2>3. CASE join.by = "guest"
    BY <1>10, <2>3, LoginAssumption
  <2>4. CASE join.by = "guest form"
    <3>1. page.oidc = join.name /\ page.oidc # None
      BY <1>3, <1>10, <2>1, <2>4
    <3> QED BY <1>12, <3>1
  <2>5. CASE join.by = "form"
    BY <1>9, <2>5
  <2> QED BY <1>3, <2>2, <2>3, <2>4, <2>5 DEF Callers
<1>15. ShownAsConnected'
  BY <1>2, <1>3, <1>4, <1>5, <1>6, <1>10 DEF ShownAsConnected, Asked, Callers
<1>16. TokenOfName'
  BY <1>4, <1>6, <1>12 DEF IInv, PageInv, TokenOfName
<1>17. FormWaits'
  BY <1>2, <1>8 DEF IInv, FormWaits
<1>18. OneAtATime' /\ RedeemsAlone' /\ OidcStored' /\ JoinsKnown'
  BY <1>2, <1>6, <1>12 DEF IInv, OneAtATime, RedeemsAlone, OidcStored, JoinsKnown
<1> QED BY <1>11, <1>13, <1>14, <1>15, <1>16, <1>17, <1>18 DEF IInv, StoredInv, PageInv

\* A join that fails leaves the page without a connection.
LEMMA JoinFailsKeeps ==
  ASSUME IInv, NEW closed \in BOOLEAN, JoinFails(closed)
  PROVE  IInv'
<1>1. /\ stored \in Stores /\ page \in Pages /\ form \in Forms /\ redeem \in Tokens /\ overtaken \in BOOLEAN
      /\ join \in Joins /\ retry \in Retries /\ join # None /\ conn = None
  BY Types DEF IInv, StoredInv, OneAtATime, JoinFails
<1>2. /\ join' = None /\ closing' = ~closed /\ UNCHANGED <<conn, retry, redeem, overtaken>>
      /\ stored' = IF join.by \in {"auto", "form"} THEN NothingStored ELSE stored
      /\ page' = PageAfter(page, join) /\ form' = FormAfter(join)
  BY DEF JoinFails
<1>3. /\ stored' \in Stores /\ (stored'.auth => stored' = stored)
      /\ form' \in Forms /\ (form'.loading => form' = form /\ join.by \notin {"guest form", "form"})
  <2>1. stored' \in Stores /\ (stored'.auth => stored' = stored)
    BY <1>1, <1>2, Fresh
  <2>2. form' \in Forms /\ (form'.loading => form' = form /\ join.by \notin {"guest form", "form"})
    BY <1>1, <1>2 DEF FormAfter, Forms
  <2> QED BY <2>1, <2>2
<1>4. page' \in Pages /\ page'.oidc \in {page.oidc, None} /\ (page'.oidc # None => page'.name = page.name)
  <2> DEFINE p == [page EXCEPT !.connected = FALSE]
  <2>1. None \in Tokens /\ None \in Names \cup {None}
    BY DEF Tokens
  <2>2. p \in Pages /\ p.name = page.name /\ p.oidc = page.oidc
    BY <1>1, PageWith
  <2>3. CASE join.by = "auto"
    <3> DEFINE q == [p EXCEPT !.oidc = None]
    <3>1. page' = [q EXCEPT !.modal = TRUE]
      BY <1>2, <2>3 DEF PageAfter
    <3> HIDE DEF p
    <3>2. q \in Pages /\ q.oidc = None
      BY <2>1, <2>2, PageWith
    <3> HIDE DEF q
    <3> QED BY <3>1, <3>2, PageWith
  <2>4. CASE join.by = "guest"
    <3>1. page' = [p EXCEPT !.name = None, !.guest = FALSE]
      BY <1>2, <2>4 DEF PageAfter
    <3>2. page.oidc = None
      BY <1>1, <2>4 DEF IInv, JoinsKnown
    <3> HIDE DEF p
    <3> QED BY <2>1, <2>2, <3>1, <3>2, PageNamed
  <2>5. CASE join.by \in {"guest form", "form"}
    BY <1>2, <2>2, <2>5 DEF PageAfter
  <2>6. CASE join.by = "retry"
    BY <1>1, <1>2, <2>6 DEF PageAfter
  <2> QED BY <1>1, <2>3, <2>4, <2>5, <2>6 DEF Joins
<1>5. StoredComplete' /\ TokenOfName' /\ OidcStored' /\ RedeemsAlone'
  BY <1>2, <1>3, <1>4 DEF IInv, StoredInv, StoredComplete, PageInv, TokenOfName, OidcStored, RedeemsAlone
<1>6. FormWaits'
  BY <1>2, <1>3 DEF IInv, FormWaits
<1> QED BY <1>1, <1>2, <1>3, <1>4, <1>5, <1>6, NobodyJoins

\* A socket that closes is no connection any more; what was asked for goes on.
LEMMA SocketClosesKeeps ==
  ASSUME IInv, SocketCloses
  PROVE  IInv'
<1>1. /\ stored \in Stores /\ page \in Pages /\ form \in Forms /\ redeem \in Tokens /\ overtaken \in BOOLEAN
      /\ join \in Joins \cup {None} /\ retry \in Retries
  BY Types DEF IInv, StoredInv
<1>2. conn' = None /\ closing' = FALSE /\ AttemptReconnect /\ UNCHANGED <<stored, form, redeem, join, overtaken>>
  BY DEF SocketCloses
<1>3. /\ page' \in Pages /\ page'.name = page.name /\ page'.oidc = page.oidc /\ retry' \in Retries
  <2>1. CASE retry.name = None
    BY <1>1, <1>2, <2>1 DEF AttemptReconnect
  <2>2. CASE retry.name # None
    <3> DEFINE o == retry.orphans \cup ({retry.timer} \ {None})
               r == [retry EXCEPT !.timer = retry.name]
               s == [r EXCEPT !.was = TRUE]
    <3>1. page' = [page EXCEPT !.connected = FALSE] /\ retry' = [s EXCEPT !.orphans = o]
      BY <1>1, <1>2, <2>2 DEF AttemptReconnect, Retries
    <3>2. o \in SUBSET Names /\ retry.name \in Names \cup {None}
      BY <1>1 DEF Retries
    <3>3. r \in Retries
      BY <1>1, <3>2, RetryWith
    <3> HIDE DEF r, o
    <3>4. s \in Retries
      BY <3>3, RetryWith
    <3> HIDE DEF s
    <3> QED BY <1>1, <3>1, <3>2, <3>4, RetryWith, PageWith
  <2> QED BY <2>1, <2>2
<1>4. TypeOK'
  BY <1>1, <1>2, <1>3 DEF TypeOK, Stores, Pages, Forms, Retries, Tokens
<1>5. StoredInv' /\ PageInv' /\ FormWaits'
  BY <1>2, <1>3, <1>4 DEF IInv, StoredInv, StoredComplete, NeverSomebodyElse, PageInv, ShownAsConnected, Asked, TokenOfName, FormWaits
<1>6. OneAtATime' /\ RedeemsAlone' /\ OidcStored' /\ JoinsKnown'
  BY <1>2, <1>3 DEF IInv, OneAtATime, RedeemsAlone, OidcStored, JoinsKnown
<1> QED BY <1>5, <1>6 DEF IInv

\* Nobody has asked for the join of a timer.
LEMMA ReconnectKeeps ==
  ASSUME IInv, NEW u \in Names, Reconnect(u)
  PROVE  IInv'
<1>1. /\ stored \in Stores /\ page \in Pages /\ form \in Forms /\ redeem \in Tokens /\ overtaken \in BOOLEAN /\ retry \in Retries
  BY Types DEF IInv, StoredInv
<1>2. retry.token \in Tokens /\ "retry" \in Callers /\ None \in Names \cup {None} /\ retry.orphans \ {u} \in SUBSET Names
  BY <1>1 DEF Retries, Callers
<1>3. /\ [retry EXCEPT !.timer = None] \in Retries /\ [retry EXCEPT !.orphans = @ \ {u}] \in Retries
  BY <1>1, <1>2, RetryWith
<1>4. /\ ChatConnect([retry EXCEPT !.timer = None], "retry", u, retry.token)
         \/ ChatConnect([retry EXCEPT !.orphans = @ \ {u}], "retry", u, retry.token)
      /\ Overtake /\ UNCHANGED <<stored, page, form, redeem>>
  BY DEF Reconnect
<1>5. /\ join' \in Joins /\ join' # None /\ join'.by = "retry" /\ conn' = None /\ closing' = FALSE /\ retry' \in Retries
  <2>1. CASE ChatConnect([retry EXCEPT !.timer = None], "retry", u, retry.token)
    BY <1>2, <1>3, <2>1, ChatConnects
  <2>2. CASE ChatConnect([retry EXCEPT !.orphans = @ \ {u}], "retry", u, retry.token)
    BY <1>2, <1>3, <2>2, ChatConnects
  <2> QED BY <1>4, <2>1, <2>2
<1>6. overtaken' \in BOOLEAN /\ FormWaits'
  BY <1>1, <1>4 DEF IInv, FormWaits, Overtake
<1>7. TypeOK'
  BY <1>1, <1>4, <1>5, <1>6 DEF TypeOK, Stores, Pages, Forms, Retries, Tokens
<1>8. StoredInv' /\ PageInv'
  BY <1>4, <1>5, <1>7 DEF IInv, StoredInv, StoredComplete, NeverSomebodyElse, PageInv, ShownAsConnected, Asked, TokenOfName
<1>9. OneAtATime' /\ RedeemsAlone' /\ OidcStored' /\ JoinsKnown'
  BY <1>4, <1>5 DEF IInv, OneAtATime, RedeemsAlone, OidcStored, JoinsKnown
<1> QED BY <1>6, <1>8, <1>9 DEF IInv

\* What the user does in the modal before anything is sent.
LEMMA ModalKeeps ==
  ASSUME IInv, SetShowAuthModal \/ Close \/ LoginRefused \/ \E u \in Accounts : HandleLogin(u)
  PROVE  IInv'
<1>1. /\ stored \in Stores /\ page \in Pages /\ form \in Forms /\ redeem \in Tokens /\ overtaken \in BOOLEAN
      /\ join \in Joins \cup {None} /\ conn \in Joins \cup {None} /\ retry \in Retries /\ closing \in BOOLEAN
  BY Types DEF IInv, StoredInv
<1>2. /\ UNCHANGED <<stored, redeem, join, conn, closing, retry, overtaken>>
      /\ \/ UNCHANGED form /\ \E m \in BOOLEAN : page' = [page EXCEPT !.modal = m]
         \/ UNCHANGED page /\ (form' = NewForm \/ \E u \in Accounts : form' = [loading |-> TRUE, asks |-> u])
  BY DEF SetShowAuthModal, Close, LoginRefused, HandleLogin, client
<1>3. page' \in Pages /\ page'.name = page.name /\ page'.connected = page.connected /\ page'.oidc = page.oidc
  <2>1. ASSUME NEW m \in BOOLEAN, page' = [page EXCEPT !.modal = m]
        PROVE  page' \in Pages /\ page'.name = page.name /\ page'.connected = page.connected /\ page'.oidc = page.oidc
    BY <1>1, <2>1 DEF Pages
  <2> QED BY <1>1, <1>2, <2>1
<1>4. form' \in Forms /\ (form' # form /\ form'.loading => form'.asks # None)
  <2>1. ASSUME NEW u \in Accounts, form' = [loading |-> TRUE, asks |-> u]
        PROVE  form' \in Forms /\ form'.asks # None
    BY <2>1, LoginAssumption DEF Forms, Tokens, Names
  <2> QED BY <1>1, <1>2, <2>1, Fresh
<1>5. TypeOK'
  BY <1>1, <1>2, <1>3, <1>4 DEF TypeOK, Stores, Pages, Forms, Retries, Tokens
<1>6. StoredInv' /\ PageInv'
  BY <1>2, <1>3, <1>5 DEF IInv, StoredInv, StoredComplete, NeverSomebodyElse, PageInv, ShownAsConnected, Asked, TokenOfName
<1>7. FormWaits'
  BY <1>2, <1>4 DEF IInv, FormWaits
<1>8. OneAtATime' /\ RedeemsAlone' /\ OidcStored' /\ JoinsKnown'
  BY <1>2, <1>3 DEF IInv, OneAtATime, RedeemsAlone, OidcStored, JoinsKnown
<1> QED BY <1>6, <1>7, <1>8 DEF IInv

\* The form joins, as a guest or with the account that has logged in.
LEMMA FormKeeps ==
  ASSUME IInv, LoginAnswers \/ \E u \in Names : HandleGuestJoin(u)
  PROVE  IInv'
<1>1. /\ stored \in Stores /\ page \in Pages /\ form \in Forms /\ redeem \in Tokens /\ overtaken \in BOOLEAN /\ retry \in Retries
  BY Types DEF IInv, StoredInv
<1>2. /\ StoredComplete
      /\ redeem # None => page.oidc = None
      /\ page.oidc # None => page.name = page.oidc
      /\ page.oidc # None /\ stored.auth => stored.name = page.oidc /\ stored.token = page.oidc
  BY DEF IInv, StoredInv, PageInv, TokenOfName, RedeemsAlone, OidcStored
<1>3. ASSUME NEW g \in BOOLEAN, NEW by \in {"guest form", "form"}, NEW u \in Names, NEW t \in Tokens,
             Connect([page EXCEPT !.guest = g], retry, by, u, t), Overtake, form' \in Forms, UNCHANGED <<stored, redeem>>,
             by = "guest form" => g, by = "form" => u \in Accounts
      PROVE  IInv'
  <2> DEFINE p == [page EXCEPT !.guest = g]
  <2>1. p \in Pages /\ p.name = page.name /\ p.oidc = page.oidc /\ p.guest = g
    BY <1>1 DEF Pages
  <2> HIDE DEF p
  <2>2. Connect(p, retry, by, u, t)
    BY <1>3 DEF p
  <2>3. TokenOf(p, t) \in Tokens /\ by \in Callers
    BY <2>1, TokenOfType DEF Callers
  <2>4. join' # None /\ join'.by = by
    BY <1>1, <2>2, <2>3, ChatConnects DEF Connect
  <2>5. FormWaits' /\ overtaken' \in BOOLEAN
    BY <1>1, <1>3, <2>4 DEF FormWaits, Overtake
  <2>6. StoredComplete' /\ stored' = stored /\ redeem' = redeem
    BY <1>2, <1>3 DEF StoredComplete
  <2>7. /\ redeem' # None => p.oidc = None
        /\ p.oidc # None => p.name = p.oidc
        /\ p.oidc # None /\ stored'.auth => stored'.name = p.oidc /\ stored'.token = p.oidc
    BY <1>2, <2>1, <2>6
  <2>8. stored' \in Stores /\ form' \in Forms /\ redeem' \in Tokens
    BY <1>1, <1>3, <2>6
  <2> QED BY <1>1, <1>3, <2>1, <2>2, <2>3, <2>5, <2>6, <2>7, <2>8, ConnectKeeps
<1>4. CASE LoginAnswers
  <2>1. form.asks \in Accounts /\ form.asks \in Names /\ form.asks \in Tokens
    BY <1>1, <1>4 DEF LoginAnswers, Forms, Tokens, Names
  <2>2. form' \in Forms
    BY <1>1, <1>4 DEF LoginAnswers, Forms, Tokens
  <2> QED BY <1>3, <1>4, <2>1, <2>2 DEF LoginAnswers
<1>5. ASSUME NEW u \in Names, HandleGuestJoin(u)
      PROVE  IInv'
  <2>1. form' \in Forms /\ stored.token \in Tokens
    BY <1>1, <1>5 DEF HandleGuestJoin, Forms, Stores
  <2> QED BY <1>3, <1>5, <2>1 DEF HandleGuestJoin
<1> QED BY <1>4, <1>5

\* A page that is left, and one that is logged out or kicked.
LEMMA LeaveKeeps ==
  ASSUME IInv, HandleDisconnect \/ Kicked \/ \E u \in Accounts : LoginWithOidc(u)
  PROVE  IInv'
<1>1. /\ stored \in Stores /\ form \in Forms /\ redeem \in Tokens /\ overtaken \in BOOLEAN /\ retry \in Retries /\ StoredComplete
  BY Types DEF IInv, StoredInv
<1>2. /\ join' = None /\ conn' = None /\ closing' = FALSE /\ page' = NewPage /\ stored' = stored
  BY DEF HandleDisconnect, Kicked, LoginWithOidc, Disconnect, Reset
<1>3. page' \in Pages /\ page'.oidc = None
  BY <1>2, Fresh
<1>4. /\ StoredComplete' /\ TokenOfName' /\ OidcStored' /\ RedeemsAlone'
  BY <1>1, <1>2, <1>3 DEF StoredComplete, TokenOfName, OidcStored, RedeemsAlone
<1>5. CASE HandleDisconnect \/ Kicked
  <2>1. retry' = [NewClient EXCEPT !.orphans = retry.orphans] /\ Overtake /\ UNCHANGED <<form, redeem>>
    BY <1>5 DEF HandleDisconnect, Kicked, Disconnect
  <2>2. retry' \in Retries
    BY <1>1, <2>1, Fresh, RetryWith DEF Retries
  <2>3. overtaken' \in BOOLEAN /\ FormWaits'
    BY <1>1, <2>1 DEF Overtake, IInv, FormWaits
  <2> QED BY <1>1, <1>2, <1>3, <1>4, <2>1, <2>2, <2>3, NobodyJoins
<1>6. CASE \E u \in Accounts : LoginWithOidc(u)
  <2>1. form' = NewForm /\ redeem' \in Tokens /\ retry' = NewClient /\ overtaken' = FALSE
    BY <1>6 DEF LoginWithOidc, Tokens
  <2>2. FormWaits'
    BY <2>1, Fresh DEF FormWaits
  <2> QED BY <1>1, <1>2, <1>3, <1>4, <2>1, <2>2, Fresh, NobodyJoins
<1> QED BY <1>5, <1>6

LEMMA Inductive ==
  ASSUME IInv, [Next]_vars
  PROVE  IInv'
<1>1. CASE Next
  BY <1>1, LoadKeeps, RedeemKeeps, JoinSucceedsKeeps, JoinFailsKeeps, SocketClosesKeeps, ReconnectKeeps,
     ModalKeeps, FormKeeps, LeaveKeeps DEF Next
<1>2. CASE UNCHANGED vars
  <2>1. UNCHANGED <<stored, page, form, redeem, join, conn, closing, retry, overtaken>>
    BY <1>2 DEF vars, client
  <2>2. StoredInv'
    BY <2>1 DEF IInv, StoredInv, TypeOK, StoredComplete, NeverSomebodyElse, Asked
  <2>3. PageInv' /\ FormWaits'
    BY <2>1 DEF IInv, PageInv, ShownAsConnected, Asked, TokenOfName, FormWaits
  <2>4. OneAtATime' /\ RedeemsAlone' /\ OidcStored' /\ JoinsKnown'
    BY <2>1 DEF IInv, OneAtATime, RedeemsAlone, OidcStored, JoinsKnown
  <2> QED BY <2>2, <2>3, <2>4 DEF IInv
<1> QED BY <1>1, <1>2

LEMMA AlwaysIInv == Spec => []IInv
BY Starts, Inductive, PTL DEF Spec

-----------------------------------------------------------------------------
(* What the browser keeps and the page shows                               *)

\* However loads, redeems, the form, log-outs and kicks overlap: localStorage has all of an
\* account or its flag is not set, and it is not of another account than the one that is connected.
THEOREM NeverAnotherAccount == Spec => []StoredInv
<1>1. IInv => StoredInv
  BY DEF IInv
<1> QED BY <1>1, AlwaysIInv, PTL

\* A connection that was asked for is shown, under the name that has joined, and a token of
\* TokenDance ID is there only with the name of its account.
THEOREM PageShowsWhoJoined == Spec => []PageInv
<1>1. IInv => PageInv
  BY DEF IInv
<1> QED BY <1>1, AlwaysIInv, PTL

\* The login form loads only while an answer or a join of its own is to come, or a join of
\* its own was overtaken by another call of connect.
THEOREM FormWaitsForSomething == Spec => []FormWaits
<1>1. IInv => FormWaits
  BY DEF IInv
<1> QED BY <1>1, AlwaysIInv, PTL
=============================================================================
